---------------------------- MODULE EngineRunProofs ----------------------------
(***************************************************************************)
(* Proofs about a run and its verdict.  EngineRun, for any answers of the  *)
(* model, any plan of faults and any interleaving of the run with its      *)
(* tools, cancels, the deadline, crashes and other windows: a run accounts *)
(* for all it did (RunAccounts); what the model is sent, what the process  *)
(* remembers and what is stored agree, with every call answered once       *)
(* (HistorySound); and neither what the user said nor a call's own result  *)
(* is lost (NothingLost).  Acceptance, which shares no state with it, for  *)
(* runs of any length over any files: the revisions of the records account *)
(* for every change of the files (IndInv), and so a completed run is       *)
(* tested (CompletedMeansTested), a run that says it changed nothing did   *)
(* not (NothingHidden), and one that says no change was needed has looked  *)
(* and tested (ClaimsAreProven).                                           *)
(***************************************************************************)
EXTENDS EngineRun, Acceptance, FiniteSetTheorems, SequenceTheorems, WellFoundedInduction, TLAPS

Call == [id : Id \cup {AutoId}, kind : {"read", "write", "test", "bad"}]

\* a call that has been started, or refused, and is not answered yet
Started == Where("running") \cup Where("done")
Active == Started \cup Where("recorded")

\* in these states calls are being run or answered
Acting == {"dispatch", "tools", "stopping", "answer"}

\* each call of the answer has a job
BatchType ==
  /\ \E n \in Nat : calls \in [1..n -> Call] /\ DOMAIN job = 1..n
  /\ {executed, invalid, effects, reported, abandoned, orphans} \subseteq Nat
  /\ plan \in Plans /\ reason \in {"stop", "length", "cancelled"}

\* a group is started as a whole, and answered before the next one is started
BatchOK ==
  /\ pc \notin Acting \cup {"finish", "idle"} => Active = {}
  /\ pc = "batch" => job # <<>>
  /\ pc = "dispatch" =>
       /\ Where("wait") # {} /\ Where("recorded") = {}
       /\ Started # {} => calls[First(Where("wait"))].kind \notin Mutating
  /\ pc = "answer" => Started = {} /\ Where("recorded") # {}

\* calls that have a place in the budget
Live == Active \cup Where("wait")

\* the calls that may still run have their place in the budget
BudgetOK ==
  /\ executed + Cardinality(Active) <= ToolLimit
  /\ pc \in Acting => executed + Cardinality(Live) <= ToolLimit

\* writes that have happened and have no record yet
Unrecorded == {i \in Where("done") : calls[i].kind = "write"}

\* a call that may change something runs alone
LoneOK == \A i \in Started : calls[i].kind \in Mutating => Started = {i} /\ pc # "dispatch"

\* a write of the run has a record, will get one, or is given up, which is not for a cancel to do
AccountOK ==
  /\ pc \notin {"idle", "down"} => effects + orphans = reported + abandoned + Cardinality(Unrecorded)
  /\ plan.faults \cap {"deadline", "stuck"} = {} =>
       abandoned = 0 /\ orphans = 0 /\ (pc = "stopping" => stop = "cancelled")
  /\ pc = "finish" => Unrecorded = {}

\* a process that keeps its session and its store knows what is stored
HeldOK == Held =>
  /\ held
  /\ cache \in {None, store} /\ (pc = "loading" => cache = None)
  /\ pc \notin {"idle", "down", "loading"} => cache = store

RunInv == BatchType /\ BatchOK /\ LoneOK /\ BudgetOK /\ AccountOK /\ HeldOK

-----------------------------------------------------------------------------
(* Jobs and their sets *)

\* A set of places that is not empty has a first one.
LEMMA FirstIsOne ==
  ASSUME NEW S \in SUBSET Nat, S # {}
  PROVE  First(S) \in S /\ \A j \in S : First(S) <= j
<1>1. PICK x \in S : \A y \in S : ~(<<y, x>> \in OpToRel(<, Nat))
  BY NatLessThanWellFounded, WFMin
<1>2. ASSUME NEW j \in S
      PROVE  x <= j
  <2>1. j \in Nat /\ x \in Nat /\ ~(j < x)
    BY <1>1 DEF OpToRel
  <2>. QED
    BY <2>1
<1>. QED
  BY <1>2 DEF First

\* The jobs of a state are places of the batch, finitely many.
LEMMA JobSets ==
  ASSUME BatchType
  PROVE  /\ DOMAIN job \in SUBSET Nat /\ IsFiniteSet(DOMAIN job) /\ DOMAIN calls = DOMAIN job
         /\ \A i \in DOMAIN job : calls[i] \in Call
         /\ \A S \in SUBSET DOMAIN job : IsFiniteSet(S) /\ Cardinality(S) \in Nat
         /\ \A st : Where(st) \in SUBSET DOMAIN job
<1>1. PICK n \in Nat : calls \in [1..n -> Call] /\ DOMAIN job = 1..n
  BY DEF BatchType
<1>2. IsFiniteSet(1..n)
  BY FS_Interval
<1>3. \A S \in SUBSET (1..n) : IsFiniteSet(S) /\ Cardinality(S) \in Nat
  BY <1>2, FS_Subset, FS_CardinalityType
<1>. QED
  BY <1>1, <1>2, <1>3 DEF Where

\* One job changes its state.
LEMMA JobSet ==
  ASSUME BatchType, NEW i \in DOMAIN job, NEW st, job' = [job EXCEPT ![i] = st]
  PROVE  /\ DOMAIN job' = DOMAIN job
         /\ \A s : Where(s)' = IF s = st THEN Where(s) \cup {i} ELSE Where(s) \ {i}
BY DEF Where

\* A step that leaves the jobs alone, or ends their work.
LEMMA Quiet ==
  ASSUME BatchType, BatchOK, UNCHANGED <<calls, job, executed, invalid, plan, reason>>,
         effects' \in Nat /\ reported' \in Nat
          /\ abandoned' \in Nat /\ orphans' \in Nat,
         \/ pc' \in {pc, "finish", "idle"}
         \/ pc' = "stopping" /\ pc \in Acting
         \/ pc' \notin Acting \cup {"batch"} /\ Active = {}
         \/ pc' = "batch" /\ Active = {} /\ job # <<>>
         \/ pc' = "answer" /\ Started = {} /\ Where("recorded") # {}
  PROVE  BatchType' /\ BatchOK'
<1>1. \A s : Where(s)' = Where(s)
  BY DEF Where
<1>2. Started' = Started /\ Active' = Active
  BY <1>1 DEF Started, Active
<1>3. First(Where("wait"))' = First(Where("wait"))
  BY <1>1 DEF First
<1>4. BatchType'
  BY DEF BatchType
<1>. QED
  BY <1>1, <1>2, <1>3, <1>4 DEF BatchOK, Acting

-----------------------------------------------------------------------------
(* Steps *)

\* What a step of the engine and of what is around it is.
LEMMA Steps ==
  ASSUME [Next]_vars
  PROVE  \/ UserSaid \/ OutOfSteps \/ Request \/ ModelFails \/ Said \/ OwnerLost \/ Finish \/ StubsDone
         \/ Stopped \/ (pc = "loop" /\ \E D \in Droppable(cache) : Compact(D))
         \/ Load \/ Cancel \/ Deadline \/ StoreFails \/ Restart \/ LockLost \/ LockTaken
         \/ OthersGoOn \/ OpenedElsewhere \/ OrphanEnds \/ UNCHANGED vars
         \/ StartRun \/ Crash \/ AutoVerifies
         \/ \E b \in Batches, r \in {"stop", "length", "cancelled"} : ModelAnswers(b, r)
         \/ Batch \/ Reject \/ Dispatch \/ Answered \/ Stubbed
         \/ \E i \in DOMAIN job : ToolEnds(i)
         \/ \E i \in DOMAIN job : Record(i)
         \/ \E i \in DOMAIN job : StopJob(i)
         \/ StopInterrupted \/ \E i \in DOMAIN job : StopGivesUp(i)
BY DEF Next, RunStep, JobStep, Around

\* Jobs that are given up are dropped.
LEMMA GaveUp ==
  ASSUME BatchType, NEW S \in SUBSET Started, GiveUp(S)
  PROVE  /\ DOMAIN job' = DOMAIN job /\ abandoned' \in Nat /\ orphans' \in Nat
         /\ \A s : Where(s)' = IF s = "dropped" THEN Where(s) \cup S ELSE Where(s) \ S
         /\ \A i \in DOMAIN job : i \notin Started => job'[i] = job[i]
BY DEF GiveUp, BatchType, Where, Started

\* Jobs are given up while they are stopped, and only by a fault.
LEMMA GivesUp ==
  ASSUME BatchType, StopInterrupted \/ \E i \in DOMAIN job : StopGivesUp(i)
  PROVE  \E S \in SUBSET Started :
           /\ S # {} /\ GiveUp(S) /\ pc = "stopping" /\ stop' \in {stop, "cancelled"}
           /\ UNCHANGED <<conversation, pc, calls, reason, executed, invalid, autos, evidence, steps, effects,
                          reported, held, plan>>
           /\ \/ Fault("stuck")
              \/ stop # "cancelled" /\ Fault("cancel")
              \/ stop = "cancelled" /\ Fault("deadline")
<1>. USE DEF conversation
<1>1. ASSUME NEW i \in DOMAIN job, StopGivesUp(i)
      PROVE  {i} \in SUBSET Started /\ {i} # {} /\ GiveUp({i}) /\ Fault("stuck")
  BY <1>1 DEF StopGivesUp, Started, Where
<1>2. CASE \E i \in DOMAIN job : StopGivesUp(i)
  BY <1>1, <1>2 DEF StopGivesUp
<1>3. CASE StopInterrupted
  BY <1>3 DEF StopInterrupted, Started
<1>. QED
  BY <1>2, <1>3

\* Where an answered call leads.
LEMMA AnswerLeads ==
  ASSUME BatchType, Answered
  PROVE  pc' \in {"answer", "stub", "dispatch", "loop", "finish"}
<1>1. invalid >= RepeatLimit \/ invalid < RepeatLimit
  BY EngineAssumption DEF BatchType
<1>2. AfterBatch => pc' \in {"loop", "finish"}
  <2>1. CASE ByEngine
    BY <2>1 DEF AfterBatch, GoesOn, Ends
  <2>2. CASE ~ByEngine
    BY <1>1, <2>2 DEF AfterBatch, GoesOn, Ends
  <2>. QED
    BY <2>1, <2>2
<1>. QED
  BY <1>2 DEF Answered, GoesOn

\* Every step keeps the jobs in order.
LEMMA BatchStep ==
  ASSUME RunInv, [Next]_vars
  PROVE  BatchType' /\ BatchOK'
<1>. USE DEF conversation, batch, counters
<1>. BatchType /\ BatchOK
  BY DEF RunInv
<1>1. CASE UserSaid \/ OutOfSteps \/ Request \/ ModelFails \/ OwnerLost \/ Finish \/ StubsDone
  <2>1. /\ UNCHANGED <<calls, job, executed, invalid, plan, reason, effects, reported, abandoned, orphans>>
        /\ pc' \in {pc, "finish", "idle"} \/ (pc' \in {"loop", "model"} /\ pc \in {"created", "loop"})
    BY <1>1 DEF UserSaid, OutOfSteps, Request, ModelFails, OwnerLost, Finish, StubsDone, Ends, GoesOn
  <2>2. pc \in {"created", "loop"} => Active = {}
    BY DEF BatchOK, Acting
  <2>. QED
    BY <2>1, <2>2, Quiet DEF Acting, BatchType
<1>2. CASE Said
  <2>1. /\ UNCHANGED <<calls, job, executed, invalid, plan, reason, effects, reported, abandoned, orphans>> /\ Active = {}
        /\ pc' \in {"batch", "stub", "auto", "finish"}
        /\ pc' = "batch" => calls # <<>>
    BY <1>2 DEF Said, Ends, GoesOn, BatchType, BatchOK, Acting
  <2>2. calls # <<>> => job # <<>>
    BY DEF BatchType
  <2>. QED
    BY <2>1, <2>2, Quiet DEF Acting, BatchType
<1>3. CASE Stopped
  <2>1. /\ UNCHANGED <<calls, job, executed, invalid, plan, reason, effects, reported, abandoned, orphans>> /\ Started = {}
        /\ pc' = IF Where("recorded") = {} THEN "stub" ELSE "answer"
    BY <1>3 DEF Stopped, GoesOn, Started
  <2>. QED
    BY <2>1, Quiet DEF Acting, BatchType, Active
<1>4. CASE pc = "loop" /\ \E D \in Droppable(cache) : Compact(D)
  <2>1. /\ UNCHANGED <<calls, job, executed, invalid, plan, reason, effects, reported, abandoned, orphans>> /\ Active = {}
        /\ pc' \in {"model", "finish"}
    BY <1>4 DEF Compact, Ends, GoesOn, BatchOK, Acting
  <2>. QED
    BY <2>1, Quiet DEF Acting, BatchType
<1>5. CASE Load \/ Restart \/ LockLost \/ LockTaken \/ OthersGoOn \/ OpenedElsewhere \/ StoreFails \/ UNCHANGED vars
  <2>1. /\ UNCHANGED <<calls, job, executed, invalid, plan, reason, effects, reported, abandoned, orphans>>
        /\ pc' \in {pc, "idle"} \/ (pc' = "created" /\ pc = "loading")
    BY <1>5 DEF Load, Restart, LockLost, LockTaken, OthersGoOn, OpenedElsewhere, StoreFails, vars
  <2>2. pc = "loading" => Active = {}
    BY DEF BatchOK, Acting
  <2>. QED
    BY <2>1, <2>2, Quiet DEF Acting, BatchType
<1>6. CASE Cancel \/ Deadline
  <2>1. /\ UNCHANGED <<calls, job, executed, invalid, plan, reason, effects, reported, abandoned, orphans>>
        /\ pc' = "finish" \/ (pc' = "stopping" /\ pc \in {"tools", "dispatch"})
    BY <1>6 DEF Cancel, Deadline, Interrupted, Ends
  <2>. QED
    BY <2>1, Quiet DEF Acting, BatchType
<1>7. CASE OrphanEnds
  <2>1. /\ UNCHANGED <<calls, job, executed, invalid, plan, reason, reported, abandoned, pc>>
        /\ effects' \in Nat /\ orphans' \in Nat
    BY <1>7 DEF OrphanEnds, BatchType
  <2>. QED
    BY <2>1, Quiet DEF BatchType
<1>8. CASE StartRun \/ Crash
  <2>1. /\ calls' = <<>> /\ job' = <<>> /\ UNCHANGED <<plan, reason>> /\ pc' \in {"loading", "created", "down"}
        /\ executed' \in Nat /\ invalid' \in Nat /\ effects' \in Nat /\ reported' \in Nat
          /\ abandoned' \in Nat /\ orphans' \in Nat
    BY <1>8 DEF StartRun, Crash, BatchType
  <2>2. calls' \in [1..0 -> Call] /\ DOMAIN job' = 1..0
    BY <2>1
  <2>3. Active' = {}
    BY <2>1 DEF Active, Started, Where
  <2>4. BatchType'
    BY <2>1, <2>2 DEF BatchType
  <2>. QED
    BY <2>1, <2>3, <2>4 DEF BatchOK, Acting
<1>9. CASE AutoVerifies
  <2>1. /\ calls' = <<[id |-> AutoId, kind |-> "test"]>> /\ job' = <<"wait">> /\ pc' = "batch"
        /\ UNCHANGED <<plan, reason, executed, invalid, effects, reported, abandoned, orphans>>
    BY <1>9 DEF AutoVerifies, GoesOn
  <2>2. calls' \in [1..1 -> Call] /\ DOMAIN job' = 1..1
    BY <2>1 DEF Call
  <2>3. Active' = {}
    BY <2>1 DEF Active, Started, Where
  <2>4. BatchType'
    BY <2>1, <2>2 DEF BatchType
  <2>. QED
    BY <2>1, <2>3, <2>4 DEF BatchOK, Acting
<1>10. ASSUME NEW b \in Batches, NEW r \in {"stop", "length", "cancelled"}, ModelAnswers(b, r)
       PROVE  BatchType' /\ BatchOK'
  <2>1. /\ calls' = b /\ job' = [i \in DOMAIN b |-> "wait"] /\ pc' = "said" /\ reason' = r
        /\ UNCHANGED <<plan, executed, invalid, effects, reported, abandoned, orphans>>
    BY <1>10 DEF ModelAnswers, GoesOn
  <2>2. plan.kinds \subseteq {"read", "write", "test", "bad"}
    BY EngineAssumption DEF BatchType
  <2>3. PICK n \in 0..MaxBatch : b \in [1..n -> [id : Id, kind : plan.kinds]]
    BY DEF Batches
  <2>4. n \in Nat /\ calls' \in [1..n -> Call] /\ DOMAIN job' = 1..n
    BY <2>1, <2>2, <2>3, EngineAssumption DEF Call
  <2>5. Active' = {}
    BY <2>1 DEF Active, Started, Where
  <2>6. BatchType'
    BY <2>1, <2>4 DEF BatchType
  <2>. QED
    BY <2>1, <2>5, <2>6 DEF BatchOK, Acting
<1>11. CASE Batch
  <2>1. /\ job' = [i \in DOMAIN job |-> IF i <= Allowed THEN "wait" ELSE "skip"]
        /\ pc' = (IF Allowed = 0 THEN "stub" ELSE "dispatch") /\ job # <<>>
        /\ UNCHANGED <<calls, plan, reason, executed, invalid, effects, reported, abandoned, orphans>>
    BY <1>11 DEF Batch, GoesOn, BatchOK
  <2>2. Active' = {} /\ Started' = {} /\ Where("recorded")' = {}
    BY <2>1 DEF Active, Started, Where
  <2>3. Allowed \in Nat
    BY EngineAssumption DEF Allowed, BatchType
  <2>4. Allowed # 0 => Where("wait")' # {}
    <3>1. PICK n \in Nat : DOMAIN job = 1..n
      BY DEF BatchType
    <3>2. n # 0
      BY <2>1, <3>1 DEF BatchType
    <3>3. Allowed # 0 => 1 \in DOMAIN job /\ 1 <= Allowed
      BY <2>3, <3>1, <3>2
    <3>. QED
      BY <2>1, <3>3 DEF Where
  <2>5. BatchType'
    BY <2>1 DEF BatchType
  <2>. QED
    BY <2>1, <2>2, <2>4, <2>5 DEF BatchOK, Acting
<1>12. ASSUME NEW i \in DOMAIN job, NEW st, job' = [job EXCEPT ![i] = st], UNCHANGED <<calls, plan, reason>>,
              executed' \in Nat, invalid' \in Nat, effects' \in Nat, reported' \in Nat, abandoned' \in Nat,
              orphans' \in Nat
       PROVE  /\ BatchType' /\ DOMAIN job' = DOMAIN job
              /\ \A s : Where(s)' = IF s = st THEN Where(s) \cup {i} ELSE Where(s) \ {i}
  BY <1>12, JobSet DEF BatchType
<1>13. CASE Reject \/ Dispatch
  <2>. DEFINE i == First(Where("wait"))
  <2>1. pc = "dispatch" /\ Where("wait") # {} /\ Where("recorded") = {}
    BY <1>13 DEF Reject, Dispatch, BatchOK
  <2>2. i \in Where("wait") /\ i \in DOMAIN job /\ \A j \in Where("wait") : i <= j
    BY <2>1, JobSets, FirstIsOne
  <2>3. CASE Reject
    <3>1. /\ job' = [job EXCEPT ![i] = "recorded"] /\ pc' = "answer" /\ calls[i].kind = "bad"
          /\ UNCHANGED <<calls, plan, reason, executed, effects, reported, abandoned, orphans>> /\ invalid' \in Nat
      BY <2>3 DEF Reject, GoesOn, BatchType
    <3>2. Started = {}
      BY <2>1, <3>1 DEF BatchOK, Mutating
    <3>. HIDE DEF i
    <3>3. /\ BatchType'
          /\ \A s : Where(s)' = IF s = "recorded" THEN Where(s) \cup {i} ELSE Where(s) \ {i}
      BY <1>12, <2>2, <3>1 DEF BatchType
    <3>4. Started' = {} /\ Where("recorded")' # {}
      BY <3>2, <3>3 DEF Started
    <3>. QED
      BY <3>1, <3>3, <3>4 DEF BatchOK, Acting
  <2>4. CASE Dispatch
    <3>1. /\ job' = [job EXCEPT ![i] = "running"] /\ pc' = (IF NextGroup = {i} THEN "tools" ELSE "dispatch")
          /\ UNCHANGED <<calls, plan, reason, executed, invalid, effects, reported, abandoned, orphans>>
      BY <2>4 DEF Dispatch, GoesOn
    <3>2. /\ BatchType'
          /\ \A s : Where(s)' = IF s = "running" THEN Where(s) \cup {i} ELSE Where(s) \ {i}
      <4>. HIDE DEF i
      <4>. QED
        BY <1>12, <2>2, <3>1 DEF BatchType
    <3>3. CASE NextGroup = {i}
      BY <3>1, <3>2, <3>3 DEF BatchOK, Acting
    <3>4. CASE NextGroup # {i}
      <4>1. calls[i].kind \notin Mutating
        BY <3>4 DEF NextGroup
      <4>2. /\ \A j \in NextGroup : j \in Where("wait") /\ \A k \in i..j : calls[k].kind \notin Mutating
            /\ i \in NextGroup
        BY <2>2, <4>1, JobSets DEF NextGroup
      <4>3. PICK j \in NextGroup : j # i
        BY <3>4, <4>2
      <4>. DEFINE next == First(Where("wait"))'
      <4>4. Where("wait")' = Where("wait") \ {i} /\ j \in Where("wait")'
        BY <3>2, <4>2, <4>3
      <4>5. Where("wait")' \in SUBSET Nat
        BY <4>4, JobSets
      <4>6. next \in Where("wait")' /\ next <= j
        BY <4>4, <4>5, FirstIsOne DEF First
      <4>7. next \in i..j
        BY <2>2, <4>4, <4>5, <4>6, JobSets
      <4>8. calls'[next].kind \notin Mutating
        BY <3>1, <4>2, <4>7
      <4>9. Where("recorded")' = {}
        BY <2>1, <3>2
      <4>. QED
        BY <3>1, <3>2, <3>4, <4>4, <4>8, <4>9 DEF BatchOK, Acting
    <3>. QED
      BY <3>3, <3>4
  <2>. QED
    BY <1>13, <2>3, <2>4
<1>14. CASE Answered
  <2>. DEFINE i == First(Where("recorded"))
  <2>1. pc = "answer" /\ Started = {} /\ Where("recorded") # {}
    BY <1>14 DEF Answered, BatchOK
  <2>2. i \in Where("recorded") /\ i \in DOMAIN job
    BY <2>1, JobSets, FirstIsOne
  <2>3. /\ job' = [job EXCEPT ![i] = "real"]
        /\ UNCHANGED <<calls, plan, reason, invalid, effects, reported, abandoned, orphans>> /\ executed' = executed + 1
    BY <1>14 DEF Answered
  <2>4. AfterBatch => pc' \in {"loop", "finish"}
    <3>1. invalid >= RepeatLimit \/ invalid < RepeatLimit
      BY EngineAssumption DEF BatchType
    <3>2. CASE ByEngine
      BY <3>2 DEF AfterBatch, GoesOn, Ends
    <3>3. CASE ~ByEngine
      BY <3>1, <3>3 DEF AfterBatch, GoesOn, Ends
    <3>. QED
      BY <3>2, <3>3
  <2>5. \/ Where("recorded") # {i} /\ pc' = "answer"
        \/ Where("recorded") = {i} /\ pc' \in {"stub", "loop", "finish"}
        \/ Where("recorded") = {i} /\ pc' = "dispatch" /\ Where("wait") # {}
    BY <1>14, <2>4 DEF Answered, GoesOn
  <2>. HIDE DEF i
  <2>6. /\ BatchType'
        /\ \A s : Where(s)' = IF s = "real" THEN Where(s) \cup {i} ELSE Where(s) \ {i}
    <3>1. /\ executed' \in Nat /\ invalid' \in Nat /\ effects' \in Nat /\ reported' \in Nat
          /\ abandoned' \in Nat /\ orphans' \in Nat
          /\ i \in DOMAIN job /\ job' = [job EXCEPT ![i] = "real"] /\ UNCHANGED <<calls, plan, reason>>
      BY <2>2, <2>3 DEF BatchType
    <3>. QED
      BY <1>12, <3>1
  <2>7. /\ Started' = {} /\ Where("recorded")' = Where("recorded") \ {i}
        /\ Where("wait")' = Where("wait") \ {i}
    BY <2>1, <2>6 DEF Started
  <2>8. Where("wait")' = Where("wait")
    BY <2>2, <2>7 DEF Where
  <2>. QED
    BY <2>2, <2>6, <2>7, <2>8, <2>5 DEF BatchOK, Acting, Active
<1>15. CASE Stubbed
  <2>. DEFINE i == First(Unanswered)
  <2>1. pc = "stub" /\ Unanswered # {} /\ Active = {}
    BY <1>15 DEF Stubbed, BatchOK, Acting
  <2>2. Unanswered \in SUBSET Nat /\ Unanswered \subseteq DOMAIN job
    BY JobSets DEF Unanswered
  <2>3. i \in DOMAIN job
    BY <2>1, <2>2, FirstIsOne
  <2>4. /\ job' = [job EXCEPT ![i] = "stub"] /\ pc' = "stub"
        /\ UNCHANGED <<calls, plan, reason, executed, invalid, effects, reported, abandoned, orphans>>
    BY <1>15 DEF Stubbed, GoesOn
  <2>. HIDE DEF i
  <2>5. /\ BatchType'
        /\ \A s : Where(s)' = IF s = "stub" THEN Where(s) \cup {i} ELSE Where(s) \ {i}
    BY <1>12, <2>3, <2>4 DEF BatchType
  <2>6. Active' = {}
    BY <2>1, <2>5 DEF Active, Started
  <2>. QED
    BY <2>4, <2>5, <2>6 DEF BatchOK, Acting
<1>16. ASSUME NEW i \in DOMAIN job, ToolEnds(i)
       PROVE  BatchType' /\ BatchOK'
  <2>1. /\ job' = [job EXCEPT ![i] = "done"] /\ UNCHANGED <<calls, plan, reason, executed, invalid, reported, abandoned, orphans, pc>>
        /\ effects' \in Nat /\ i \in Where("running") /\ pc \in {"dispatch", "tools", "stopping"}
    BY <1>16 DEF ToolEnds, Where, BatchType
  <2>2. /\ BatchType'
        /\ \A s : Where(s)' = IF s = "done" THEN Where(s) \cup {i} ELSE Where(s) \ {i}
    BY <1>12, <2>1 DEF BatchType
  <2>3. i \notin Where("wait") /\ i \in Started
    BY <2>1 DEF Where, Started
  <2>4. Where("wait")' = Where("wait") /\ Where("recorded")' = Where("recorded") \ {i}
    BY <2>2, <2>3
  <2>5. First(Where("wait"))' = First(Where("wait"))
    BY <2>4 DEF First
  <2>6. CASE pc = "dispatch"
    <3>1. Where("recorded")' = {} /\ Where("wait")' # {}
      BY <2>4, <2>6 DEF BatchOK
    <3>2. calls[First(Where("wait"))].kind \notin Mutating
      BY <2>3, <2>6 DEF BatchOK
    <3>. QED
      BY <2>1, <2>2, <2>5, <2>6, <3>1, <3>2 DEF BatchOK, Acting
  <2>7. CASE pc # "dispatch"
    BY <2>1, <2>2, <2>7 DEF BatchOK, Acting
  <2>. QED
    BY <2>6, <2>7
<1>17. ASSUME NEW i \in DOMAIN job, Record(i)
       PROVE  BatchType' /\ BatchOK'
  <2>1. /\ job' = [job EXCEPT ![i] = "recorded"] /\ UNCHANGED <<calls, plan, reason, executed, invalid, effects, abandoned, orphans>>
        /\ reported' \in Nat
        /\ pc' = IF Where("running") = {} /\ Where("done") = {i} THEN "answer" ELSE "tools"
    BY <1>17 DEF Record, GoesOn, BatchType
  <2>2. /\ BatchType'
        /\ \A s : Where(s)' = IF s = "recorded" THEN Where(s) \cup {i} ELSE Where(s) \ {i}
    BY <1>12, <2>1 DEF BatchType
  <2>3. pc' = "answer" => Started' = {} /\ Where("recorded")' # {}
    BY <2>1, <2>2 DEF Started
  <2>. QED
    BY <2>1, <2>2, <2>3 DEF BatchOK, Acting
<1>18. ASSUME NEW i \in DOMAIN job, StopJob(i)
       PROVE  BatchType' /\ BatchOK'
  <2>1. /\ \E st \in {"late", "dropped"} : job' = [job EXCEPT ![i] = st]
        /\ UNCHANGED <<calls, plan, reason, executed, invalid, effects, abandoned, orphans, pc>>
        /\ reported' \in Nat /\ pc = "stopping"
    <3>1. job' = [job EXCEPT ![i] = IF calls[i].kind = "write" THEN "late" ELSE "dropped"]
      BY <1>18 DEF StopJob
    <3>2. \E st \in {"late", "dropped"} : job' = [job EXCEPT ![i] = st]
      BY <3>1
    <3>3. /\ UNCHANGED <<calls, plan, reason, executed, invalid, effects, abandoned, orphans, pc>>
          /\ pc = "stopping" /\ reported' = IF calls[i].kind = "write" THEN reported + 1 ELSE reported
      BY <1>18 DEF StopJob
    <3>4. reported' \in Nat
      BY <3>3 DEF BatchType
    <3>. QED
      BY <3>2, <3>3, <3>4
  <2>2. BatchType'
    BY <1>12, <2>1 DEF BatchType
  <2>. QED
    BY <2>1, <2>2 DEF BatchOK, Acting
<1>19. CASE StopInterrupted \/ \E i \in DOMAIN job : StopGivesUp(i)
  <2>1. /\ DOMAIN job' = DOMAIN job /\ orphans' \in Nat /\ abandoned' \in Nat
        /\ UNCHANGED <<calls, plan, reason, executed, invalid, effects, reported, pc>> /\ pc = "stopping"
    BY <1>19, GivesUp, GaveUp
  <2>2. BatchType'
    BY <2>1 DEF BatchType
  <2>. QED
    BY <2>1, <2>2 DEF BatchOK, Acting
<1>. QED
  BY <1>1, <1>2, <1>3, <1>4, <1>5, <1>6, <1>7, <1>8, <1>9, <1>10, <1>11, <1>13, <1>14, <1>15, <1>16,
     <1>17, <1>18, <1>19, Steps

\* What is active is live, and a part of finitely many places is not more.
LEMMA LiveParts ==
  ASSUME BatchType
  PROVE  /\ Active \in SUBSET DOMAIN job /\ Live \in SUBSET DOMAIN job /\ Active \subseteq Live
         /\ IsFiniteSet(Active) /\ IsFiniteSet(Live)
         /\ Cardinality(Active) \in Nat /\ Cardinality(Live) \in Nat
         /\ \A S \in SUBSET DOMAIN job : \A T \in SUBSET S :
              Cardinality(T) \in Nat /\ Cardinality(T) <= Cardinality(S)
<1>1. Active \in SUBSET DOMAIN job /\ Live \in SUBSET DOMAIN job
  BY JobSets DEF Active, Started, Live
<1>2. ASSUME NEW S \in SUBSET DOMAIN job, NEW T \in SUBSET S
      PROVE  Cardinality(T) \in Nat /\ Cardinality(T) <= Cardinality(S)
  <2>1. IsFiniteSet(S) /\ T \in SUBSET DOMAIN job
    BY JobSets
  <2>. QED
    BY <2>1, JobSets, FS_Subset
<1>. QED
  BY <1>1, <1>2, JobSets DEF Live

\* Every step keeps the tool-call budget.
LEMMA BudgetStep ==
  ASSUME RunInv, [Next]_vars
  PROVE  BudgetOK'
<1>. USE DEF conversation, batch, counters
<1>. BatchType /\ BatchOK /\ BudgetOK /\ executed \in Nat /\ ToolLimit \in Nat
  BY EngineAssumption DEF RunInv, BatchType
<1>1. ASSUME executed' = executed,
             \/ pc \in Acting /\ Live' \subseteq Live /\ Active' \subseteq Live
             \/ pc' \notin Acting /\ Active' \subseteq Active
      PROVE  BudgetOK'
  <2>1. Cardinality(Active') \in Nat /\ executed + Cardinality(Active') <= ToolLimit
    <3>1. CASE pc \in Acting /\ Active' \subseteq Live
      <4>1. Cardinality(Active') \in Nat /\ Cardinality(Active') <= Cardinality(Live)
        BY <3>1, LiveParts
      <4>2. executed + Cardinality(Live) <= ToolLimit /\ Cardinality(Live) \in Nat
        BY <3>1, LiveParts DEF BudgetOK
      <4>. QED
        BY <4>1, <4>2
    <3>2. CASE Active' \subseteq Active
      <4>1. Cardinality(Active') \in Nat /\ Cardinality(Active') <= Cardinality(Active)
        BY <3>2, LiveParts
      <4>2. executed + Cardinality(Active) <= ToolLimit /\ Cardinality(Active) \in Nat
        BY LiveParts DEF BudgetOK
      <4>. QED
        BY <4>1, <4>2
    <3>. QED
      BY <1>1, <3>1, <3>2
  <2>2. pc' \in Acting => executed + Cardinality(Live') <= ToolLimit
    <3>. SUFFICES ASSUME pc' \in Acting
                  PROVE  executed + Cardinality(Live') <= ToolLimit
      OBVIOUS
    <3>1. pc \in Acting /\ Live' \subseteq Live
      BY <1>1
    <3>2. Cardinality(Live') \in Nat /\ Cardinality(Live') <= Cardinality(Live)
      BY <3>1, LiveParts
    <3>3. executed + Cardinality(Live) <= ToolLimit /\ Cardinality(Live) \in Nat
      BY <3>1, LiveParts DEF BudgetOK
    <3>. QED
      BY <3>2, <3>3
  <2>. QED
    BY <1>1, <2>1, <2>2 DEF BudgetOK
<1>2. ASSUME UNCHANGED <<calls, job, executed>>, pc' \in Acting => pc \in Acting
      PROVE  BudgetOK'
  <2>1. Active' = Active /\ Live' = Live
    BY <1>2 DEF Live, Active, Started, Where
  <2>. QED
    BY <1>1, <1>2, <2>1, LiveParts
<1>3. CASE UserSaid \/ OutOfSteps \/ Request \/ ModelFails \/ Said \/ OwnerLost \/ Finish \/ StubsDone
  <2>1. UNCHANGED <<calls, job, executed>>
    BY <1>3 DEF UserSaid, OutOfSteps, Request, ModelFails, Said, OwnerLost, Finish, StubsDone
  <2>2. pc' \in Acting => pc \in Acting
    BY <1>3 DEF UserSaid, OutOfSteps, Request, ModelFails, Said, OwnerLost, Finish, StubsDone, Ends, GoesOn,
                Acting, BatchType
  <2>. QED
    BY <1>2, <2>1, <2>2
<1>4. CASE Stopped \/ (pc = "loop" /\ \E D \in Droppable(cache) : Compact(D))
  <2>1. UNCHANGED <<calls, job, executed>> /\ (pc' \in Acting => pc \in Acting)
    BY <1>4 DEF Stopped, Compact, Ends, GoesOn, Acting
  <2>. QED
    BY <1>2, <2>1
<1>5. CASE Load \/ Restart \/ LockLost \/ LockTaken \/ OthersGoOn \/ OpenedElsewhere \/ StoreFails \/ OrphanEnds \/ UNCHANGED vars
  <2>1. UNCHANGED <<calls, job, executed>> /\ (pc' \in Acting => pc \in Acting)
    BY <1>5 DEF Load, Restart, LockLost, LockTaken, OthersGoOn, OpenedElsewhere, StoreFails, OrphanEnds, vars, Acting
  <2>. QED
    BY <1>2, <2>1
<1>6. CASE Cancel \/ Deadline
  <2>1. UNCHANGED <<calls, job, executed>> /\ (pc' \in Acting => pc \in Acting)
    BY <1>6 DEF Cancel, Deadline, Interrupted, Ends, Acting
  <2>. QED
    BY <1>2, <2>1
<1>7. CASE StartRun
  <2>1. executed' = 0 /\ Active' = {} /\ pc' \notin Acting
    BY <1>7 DEF StartRun, Active, Started, Where, Acting
  <2>2. Cardinality(Active') = 0
    BY <2>1, FS_EmptySet
  <2>. QED
    BY <2>1, <2>2 DEF BudgetOK
<1>8. CASE Crash \/ AutoVerifies \/ \E b \in Batches, r \in {"stop", "length", "cancelled"} : ModelAnswers(b, r)
  <2>1. executed' = executed /\ Active' = {} /\ pc' \notin Acting
    BY <1>8 DEF Crash, AutoVerifies, ModelAnswers, GoesOn, Active, Started, Where, Acting
  <2>. QED
    BY <1>1, <2>1
<1>9. CASE Batch
  <2>1. /\ pc' = (IF Allowed = 0 THEN "stub" ELSE "dispatch") /\ executed' = executed
    BY <1>9 DEF Batch, GoesOn
  <2>2. Active' = {} /\ Live' = Where("wait")' /\ Where("wait")' = {i \in DOMAIN job : i <= Allowed}
    BY <1>9 DEF Batch, Live, Active, Started, Where
  <2>3. CASE Allowed = 0
    BY <1>1, <2>1, <2>2, <2>3 DEF Acting
  <2>4. CASE Allowed # 0
    <3>1. Allowed \in Nat /\ executed + Allowed <= ToolLimit
      BY <2>4 DEF Allowed
    <3>2. Live' \subseteq 1..Allowed
      BY <2>2, JobSets DEF BatchType
    <3>3. IsFiniteSet(1..Allowed) /\ Cardinality(1..Allowed) = Allowed
      BY <2>4, <3>1, FS_Interval
    <3>4. Cardinality(Live') <= Allowed /\ Cardinality(Live') \in Nat
      BY <3>2, <3>3, FS_Subset, FS_CardinalityType
    <3>5. Cardinality(Active') = 0
      BY <2>2, FS_EmptySet
    <3>. QED
      BY <2>1, <3>1, <3>4, <3>5 DEF BudgetOK
  <2>. QED
    BY <2>3, <2>4
<1>10. ASSUME NEW i \in Live, NEW st \in {"running", "done", "recorded", "dropped", "late"}, pc \in Acting,
              job' = [job EXCEPT ![i] = st], executed' = executed
       PROVE  BudgetOK'
  <2>1. i \in DOMAIN job
    BY LiveParts
  <2>2. \A s : Where(s)' = IF s = st THEN Where(s) \cup {i} ELSE Where(s) \ {i}
    BY <1>10, <2>1, JobSet
  <2>3. Active' \subseteq Live /\ Live' \subseteq Live
    BY <2>2 DEF Live, Active, Started
  <2>. QED
    BY <1>1, <1>10, <2>3
<1>11. CASE Reject \/ Dispatch
  <2>1. pc \in Acting /\ executed' = executed
    BY <1>11 DEF Reject, Dispatch, Acting
  <2>2. First(Where("wait")) \in Live
    BY <1>11, JobSets, FirstIsOne DEF Reject, Dispatch, BatchOK, Live
  <2>3. \E st \in {"running", "recorded"} : job' = [job EXCEPT ![First(Where("wait"))] = st]
    BY <1>11 DEF Reject, Dispatch
  <2>. QED
    BY <1>10, <2>1, <2>2, <2>3
<1>12. CASE \E i \in DOMAIN job : ToolEnds(i) \/ Record(i) \/ StopJob(i)
  <2>1. PICK i \in DOMAIN job : ToolEnds(i) \/ Record(i) \/ StopJob(i)
    BY <1>12
  <2>2. i \in Live /\ pc \in Acting /\ executed' = executed
    BY <2>1 DEF ToolEnds, Record, StopJob, Live, Active, Started, Where, Acting
  <2>3. \E st \in {"done", "recorded", "dropped", "late"} : job' = [job EXCEPT ![i] = st]
    BY <2>1 DEF ToolEnds, Record, StopJob
  <2>. QED
    BY <1>10, <2>2, <2>3
<1>13. CASE StopInterrupted \/ \E i \in DOMAIN job : StopGivesUp(i)
  <2>1. executed' = executed /\ pc \in Acting
    BY <1>13, GivesUp DEF Acting
  <2>2. Active' \subseteq Active /\ Live' \subseteq Live
    BY <1>13, GivesUp, GaveUp DEF Live, Active, Started
  <2>. QED
    BY <1>1, <2>1, <2>2, LiveParts
<1>14. CASE Stubbed
  <2>. DEFINE i == First(Unanswered)
  <2>1. pc = "stub" /\ Unanswered # {} /\ executed' = executed /\ pc' = "stub" /\ job' = [job EXCEPT ![i] = "stub"]
    BY <1>14 DEF Stubbed, GoesOn
  <2>2. Unanswered \in SUBSET Nat /\ Unanswered \subseteq DOMAIN job
    BY JobSets DEF Unanswered
  <2>3. i \in DOMAIN job
    BY <2>1, <2>2, FirstIsOne
  <2>. HIDE DEF i
  <2>4. \A s : Where(s)' = IF s = "stub" THEN Where(s) \cup {i} ELSE Where(s) \ {i}
    BY <2>1, <2>3, JobSet
  <2>5. Active' \subseteq Active
    BY <2>4 DEF Active, Started
  <2>. QED
    BY <1>1, <2>1, <2>5 DEF Acting
<1>15. CASE Answered
  <2>. DEFINE i == First(Where("recorded"))
  <2>1. pc \in Acting /\ executed' = executed + 1 /\ job' = [job EXCEPT ![i] = "real"]
    BY <1>15 DEF Answered, Acting
  <2>2. i \in Where("recorded") /\ i \in DOMAIN job
    BY <1>15, JobSets, FirstIsOne DEF Answered, BatchOK
  <2>. HIDE DEF i
  <2>3. \A s : Where(s)' = IF s = "real" THEN Where(s) \cup {i} ELSE Where(s) \ {i}
    BY <2>1, <2>2, JobSet
  <2>4. Active' = Active \ {i} /\ Live' = Live \ {i} /\ i \in Live
    BY <2>2, <2>3 DEF Live, Active, Started
  <2>5. Cardinality(Live') = Cardinality(Live) - 1
    BY <2>4, LiveParts, FS_RemoveElement
  <2>6. Cardinality(Active') \in Nat /\ Cardinality(Active') <= Cardinality(Live')
    <3>1. Live' \in SUBSET DOMAIN job /\ Active' \in SUBSET (Live')
      BY <2>4, LiveParts
    <3>. QED
      BY <3>1, LiveParts
  <2>7. executed + Cardinality(Live) <= ToolLimit /\ Cardinality(Live) \in Nat
    BY <2>1, LiveParts DEF BudgetOK
  <2>. QED
    BY <2>1, <2>5, <2>6, <2>7 DEF BudgetOK
<1>. QED
  BY <1>3, <1>4, <1>5, <1>6, <1>7, <1>8, <1>9, <1>11, <1>12, <1>13, <1>14, <1>15, Steps

\* Nothing runs once the run is over or the answers are told one by one.
LEMMA AtRest ==
  ASSUME BatchOK, pc \notin {"dispatch", "tools", "stopping", "finish", "idle"}
  PROVE  Started = {} /\ Unrecorded = {}
BY DEF BatchOK, Acting, Active, Started, Unrecorded

\* A job that ends is started no more.
LEMMA EndedJob ==
  ASSUME BatchType, NEW i \in DOMAIN job, NEW st, st \notin {"running", "done"}, job' = [job EXCEPT ![i] = st]
  PROVE  Started' \subseteq Started
<1>1. \A s : Where(s)' = IF s = st THEN Where(s) \cup {i} ELSE Where(s) \ {i}
  BY JobSet
<1>. QED
  BY <1>1 DEF Started

\* A call that may change something runs alone, and its group is started at once.
LEMMA LoneStep ==
  ASSUME RunInv, [Next]_vars
  PROVE  LoneOK'
<1>. USE DEF conversation, batch, counters
<1>. BatchType /\ BatchOK /\ LoneOK /\ BatchType' /\ BatchOK'
  BY BatchStep DEF RunInv
<1>1. ASSUME UNCHANGED calls, Started' \subseteq Started, pc' = "dispatch" => pc = "dispatch" \/ Started' = {}
      PROVE  LoneOK'
  BY <1>1 DEF LoneOK
<1>2. CASE UserSaid \/ OutOfSteps \/ Request \/ ModelFails \/ Said \/ OwnerLost \/ Finish \/ StubsDone \/ Stopped
           \/ (pc = "loop" /\ \E D \in Droppable(cache) : Compact(D)) \/ Load \/ Cancel \/ Deadline
           \/ StoreFails \/ Restart \/ LockLost \/ LockTaken \/ OthersGoOn \/ OpenedElsewhere \/ OrphanEnds
           \/ UNCHANGED vars
  <2>1. UNCHANGED <<calls, job>>
    BY <1>2 DEF UserSaid, OutOfSteps, Request, ModelFails, Said, OwnerLost, Finish, StubsDone, Stopped, Compact,
       Load, Cancel, Deadline, StoreFails, Restart, LockLost, LockTaken, OthersGoOn, OpenedElsewhere, OrphanEnds,
       vars
  <2>2. pc' = "dispatch" => pc = "dispatch"
    BY <1>2 DEF UserSaid, OutOfSteps, Request, ModelFails, Said, OwnerLost, Finish, StubsDone, Stopped, Compact,
       Load, Cancel, Deadline, StoreFails, Restart, LockLost, LockTaken, OthersGoOn, OpenedElsewhere, OrphanEnds,
       vars, Ends, GoesOn, Interrupted, BatchType
  <2>3. Started' = Started
    BY <2>1 DEF Started, Where
  <2>. QED
    BY <1>1, <2>1, <2>2, <2>3
<1>3. CASE StartRun \/ Crash \/ AutoVerifies \/ Batch
           \/ \E b \in Batches, r \in {"stop", "length", "cancelled"} : ModelAnswers(b, r)
  <2>1. Started' = {}
    BY <1>3 DEF StartRun, Crash, AutoVerifies, Batch, ModelAnswers, Started, Where
  <2>. QED
    BY <2>1 DEF LoneOK
<1>4. CASE Stubbed \/ Answered
  <2>1. UNCHANGED calls /\ pc \in {"stub", "answer"} /\ Started = {}
    BY <1>4, AtRest DEF Stubbed, Answered, BatchOK
  <2>2. CASE Stubbed
    <3>1. Unanswered \in SUBSET Nat /\ Unanswered # {} /\ Unanswered \subseteq DOMAIN job
      BY <2>2, JobSets DEF Unanswered, Stubbed
    <3>2. job' = [job EXCEPT ![First(Unanswered)] = "stub"] /\ First(Unanswered) \in DOMAIN job
      BY <2>2, <3>1, FirstIsOne DEF Stubbed
    <3>3. Started' \subseteq Started
      BY <3>2, EndedJob
    <3>. QED
      BY <1>1, <2>1, <3>3
  <2>3. CASE Answered
    <3>1. job' = [job EXCEPT ![First(Where("recorded"))] = "real"] /\ First(Where("recorded")) \in DOMAIN job
      BY <2>3, JobSets, FirstIsOne DEF Answered, BatchOK
    <3>2. Started' \subseteq Started
      BY <3>1, EndedJob
    <3>. QED
      BY <1>1, <2>1, <3>2
  <2>. QED
    BY <1>4, <2>2, <2>3
<1>5. CASE Reject
  <2>1. /\ UNCHANGED calls /\ pc' = "answer"
        /\ job' = [job EXCEPT ![First(Where("wait"))] = "recorded"] /\ First(Where("wait")) \in DOMAIN job
    BY <1>5, JobSets, FirstIsOne DEF Reject, GoesOn, BatchOK
  <2>2. Started' \subseteq Started
    BY <2>1, EndedJob
  <2>. QED
    BY <1>1, <2>1, <2>2
<1>6. CASE Dispatch
  <2>. DEFINE i == First(Where("wait"))
  <2>1. /\ UNCHANGED calls /\ pc = "dispatch" /\ i \in Where("wait") /\ i \in DOMAIN job
        /\ job' = [job EXCEPT ![i] = "running"]
        /\ pc' = IF NextGroup = {i} THEN "tools" ELSE "dispatch"
    BY <1>6, JobSets, FirstIsOne DEF Dispatch, GoesOn, BatchOK
  <2>2. \A j \in Started : calls[j].kind \notin Mutating
    BY <2>1 DEF LoneOK
  <2>3. calls[i].kind \in Mutating => Started = {} /\ pc' = "tools"
    BY <2>1 DEF BatchOK, NextGroup
  <2>. HIDE DEF i
  <2>4. Started' = Started \cup {i}
    <3>1. \A s : Where(s)' = IF s = "running" THEN Where(s) \cup {i} ELSE Where(s) \ {i}
      BY <2>1, JobSet
    <3>2. i \notin Where("done")
      BY <2>1 DEF Where
    <3>. QED
      BY <3>1, <3>2 DEF Started
  <2>. QED
    BY <2>1, <2>2, <2>3, <2>4 DEF LoneOK
<1>7. CASE \E i \in DOMAIN job : ToolEnds(i) \/ Record(i) \/ StopJob(i)
  <2>1. PICK i \in DOMAIN job : ToolEnds(i) \/ Record(i) \/ StopJob(i)
    BY <1>7
  <2>2. /\ UNCHANGED calls /\ i \in Started /\ i \in DOMAIN job
        /\ pc' = "dispatch" => pc = "dispatch"
        /\ \E st \in {"done", "recorded", "dropped", "late"} : job' = [job EXCEPT ![i] = st]
    BY <2>1 DEF ToolEnds, Record, StopJob, GoesOn, Started, Where
  <2>3. Started' \subseteq Started
    <3>1. PICK st \in {"done", "recorded", "dropped", "late"} : job' = [job EXCEPT ![i] = st]
      BY <2>2
    <3>2. \A s : Where(s)' = IF s = st THEN Where(s) \cup {i} ELSE Where(s) \ {i}
      BY <2>2, <3>1, JobSet
    <3>. QED
      BY <2>2, <3>2 DEF Started
  <2>. QED
    BY <1>1, <2>2, <2>3
<1>8. CASE StopInterrupted \/ \E i \in DOMAIN job : StopGivesUp(i)
  <2>1. UNCHANGED <<calls, pc>> /\ Started' \subseteq Started
    BY <1>8, GivesUp, GaveUp DEF Started
  <2>. QED
    BY <1>1, <2>1
<1>. QED
  BY <1>2, <1>3, <1>4, <1>5, <1>6, <1>7, <1>8, Steps

\* Every step keeps the account of the run's writes.
LEMMA AccountStep ==
  ASSUME RunInv, [Next]_vars
  PROVE  AccountOK'
<1>. USE DEF conversation, batch, counters
<1>. DEFINE InTime == plan.faults \cap {"deadline", "stuck"} = {}
<1>. /\ BatchType /\ BatchOK /\ LoneOK /\ BatchType' /\ BatchOK'
     /\ effects \in Nat /\ reported \in Nat /\ abandoned \in Nat /\ orphans \in Nat
  BY BatchStep DEF RunInv, BatchType
<1>1. /\ pc \notin {"idle", "down"} => effects + orphans = reported + abandoned + Cardinality(Unrecorded)
      /\ InTime => abandoned = 0 /\ orphans = 0 /\ (pc = "stopping" => stop = "cancelled")
      /\ pc = "finish" => Unrecorded = {}
  BY DEF RunInv, AccountOK
<1>2. InTime => ~Fault("deadline") /\ ~Fault("stuck")
  BY DEF Fault
<1>3. Cardinality({}) = 0 /\ (Started = {} => Unrecorded = {})
  BY FS_EmptySet DEF Started, Unrecorded
<1>4. ASSUME UNCHANGED <<calls, job>>
      PROVE  Unrecorded' = Unrecorded
  BY <1>4 DEF Unrecorded, Where
\* the run goes on without a write
<1>5. ASSUME UNCHANGED <<plan, effects, reported, abandoned, orphans>>, Unrecorded' = Unrecorded,
             pc \notin {"idle", "down"} \/ pc' \in {"idle", "down"},
             pc' = "stopping" /\ InTime => stop' = "cancelled",
             pc' = "finish" => Unrecorded = {}
      PROVE  AccountOK'
  BY <1>1, <1>5 DEF AccountOK
<1>6. CASE UserSaid \/ OutOfSteps \/ Request \/ ModelFails \/ Said \/ StubsDone \/ Load
           \/ (pc = "loop" /\ \E D \in Droppable(cache) : Compact(D))
  <2>1. /\ UNCHANGED <<plan, calls, job, effects, reported, abandoned, orphans>>
        /\ pc \in {"created", "loop", "model", "said", "stub", "loading"}
    BY <1>6 DEF UserSaid, OutOfSteps, Request, ModelFails, Said, StubsDone, Load, Compact
  <2>2. pc' # "stopping"
    BY <1>6 DEF UserSaid, OutOfSteps, Request, ModelFails, Said, StubsDone, Load, Compact, Ends, GoesOn, BatchType
  <2>3. Unrecorded = {}
    BY <2>1, AtRest
  <2>. QED
    BY <1>4, <1>5, <2>1, <2>2, <2>3
<1>7. CASE Finish \/ StoreFails \/ Restart \/ LockLost \/ LockTaken \/ OthersGoOn \/ OpenedElsewhere \/ UNCHANGED vars
  <2>1. UNCHANGED <<plan, calls, job, effects, reported, abandoned, orphans>> /\ (pc' = "idle" \/ UNCHANGED <<pc, stop>>)
    BY <1>7 DEF Finish, StoreFails, Restart, LockLost, LockTaken, OthersGoOn, OpenedElsewhere, vars
  <2>. QED
    BY <1>1, <1>4, <1>5, <2>1 DEF AccountOK
<1>8. CASE Stopped \/ OwnerLost
  <2>1. /\ UNCHANGED <<plan, calls, job, effects, reported, abandoned, orphans>> /\ pc' # "stopping"
        /\ pc \notin {"idle", "down"} /\ (pc' = "finish" => pc = "dispatch" \/ Appending)
    BY <1>8 DEF Stopped, OwnerLost, GoesOn, Appending
  <2>2. pc = "dispatch" => Unrecorded = {}
    BY DEF LoneOK, Unrecorded, Started, Mutating
  <2>3. Appending => Unrecorded = {}
    BY AtRest, <1>3 DEF Appending, BatchOK
  <2>. QED
    BY <1>4, <1>5, <2>1, <2>2, <2>3
<1>9. CASE Cancel \/ Deadline
  <2>1. /\ UNCHANGED <<plan, calls, job, effects, reported, abandoned, orphans>>
        /\ pc \in {"created", "model", "tools", "dispatch"} /\ (pc' = "finish" => pc \in {"created", "model"})
        /\ pc' = "stopping" => stop' = "cancelled" \/ Fault("deadline")
    BY <1>9 DEF Cancel, Deadline, Interrupted, Ends, AtAwait
  <2>2. pc' = "finish" => Unrecorded = {}
    BY <2>1, AtRest
  <2>. QED
    BY <1>2, <1>4, <1>5, <2>1, <2>2
<1>10. CASE Crash
  <2>1. pc' = "down" /\ UNCHANGED <<plan, abandoned>> /\ orphans' = 0
    BY <1>10 DEF Crash
  <2>. QED
    BY <1>1, <2>1 DEF AccountOK
<1>11. CASE StartRun
  <2>1. /\ UNCHANGED <<plan, orphans>> /\ pc' \notin {"stopping", "finish"}
        /\ effects' = 0 /\ reported' = 0 /\ abandoned' = orphans /\ job' = <<>>
    BY <1>11 DEF StartRun
  <2>2. Unrecorded' = {}
    BY <2>1 DEF Unrecorded, Where
  <2>. QED
    BY <1>1, <1>3, <2>1, <2>2 DEF AccountOK
<1>12. CASE AutoVerifies \/ Batch \/ \E b \in Batches, r \in {"stop", "length", "cancelled"} : ModelAnswers(b, r)
  <2>1. /\ UNCHANGED <<plan, effects, reported, abandoned, orphans>> /\ pc \in {"auto", "batch", "model"}
        /\ pc' \in {"batch", "stub", "dispatch", "said"}
        /\ \A i \in DOMAIN job' : job'[i] \in {"wait", "skip"}
    BY <1>12 DEF AutoVerifies, Batch, ModelAnswers, GoesOn
  <2>2. Unrecorded = {} /\ Unrecorded' = {}
    BY <2>1, AtRest DEF Unrecorded, Where
  <2>. QED
    BY <1>5, <2>1, <2>2
\* a job's state changes, but for its write's record
<1>13. ASSUME NEW i \in DOMAIN job, NEW st, job' = [job EXCEPT ![i] = st], UNCHANGED calls,
              st = "done" <=> job[i] = "done"
       PROVE  Unrecorded' = Unrecorded
  BY <1>13, JobSet DEF Unrecorded, Where
<1>14. CASE Reject \/ Dispatch
  <2>1. /\ UNCHANGED <<plan, calls, effects, reported, abandoned, orphans>> /\ pc = "dispatch"
        /\ pc' \in {"answer", "tools", "dispatch"}
    BY <1>14 DEF Reject, Dispatch, GoesOn
  <2>2. First(Where("wait")) \in Where("wait")
    BY <2>1, JobSets, FirstIsOne DEF BatchOK
  <2>3. PICK st \in {"running", "recorded"} : job' = [job EXCEPT ![First(Where("wait"))] = st]
    BY <1>14 DEF Reject, Dispatch
  <2>4. Unrecorded' = Unrecorded
    BY <1>13, <2>1, <2>2, <2>3 DEF Where
  <2>. QED
    BY <1>5, <2>1, <2>4
<1>15. CASE Answered
  <2>1. /\ UNCHANGED <<plan, calls, effects, reported, abandoned, orphans>> /\ pc = "answer" /\ Started = {}
        /\ job' = [job EXCEPT ![First(Where("recorded"))] = "real"]
    BY <1>15 DEF Answered, BatchOK
  <2>2. First(Where("recorded")) \in Where("recorded") /\ First(Where("recorded")) \in DOMAIN job
    BY <2>1, JobSets, FirstIsOne DEF BatchOK
  <2>3. Unrecorded' = Unrecorded /\ Unrecorded = {}
    BY <1>3, <1>13, <2>1, <2>2 DEF Where
  <2>4. pc' \in {"answer", "stub", "dispatch", "loop", "finish"}
    BY <1>15, AnswerLeads
  <2>. QED
    BY <1>5, <2>1, <2>3, <2>4
<1>16. CASE Stubbed
  <2>1. UNCHANGED <<plan, calls, effects, reported, abandoned, orphans>> /\ pc = "stub" /\ pc' = "stub"
    BY <1>16 DEF Stubbed, GoesOn
  <2>2. Unrecorded = {} /\ Unrecorded' = {}
    BY <2>1 DEF BatchOK, Acting, Active, Started, Unrecorded
  <2>. QED
    BY <1>5, <2>1, <2>2
<1>17. ASSUME NEW i \in DOMAIN job, ToolEnds(i)
       PROVE  AccountOK'
  <2>1. /\ job' = [job EXCEPT ![i] = "done"] /\ UNCHANGED <<plan, calls, pc, stop, reported, abandoned, orphans>>
        /\ effects' = (IF calls[i].kind = "write" THEN effects + 1 ELSE effects)
        /\ i \notin Unrecorded /\ pc \in {"dispatch", "tools", "stopping"}
    BY <1>17 DEF ToolEnds, Unrecorded, Where
  <2>2. Unrecorded' = IF calls[i].kind = "write" THEN Unrecorded \cup {i} ELSE Unrecorded
    BY <2>1, JobSet DEF Unrecorded
  <2>3. IsFiniteSet(Unrecorded) /\ Cardinality(Unrecorded) \in Nat
    BY JobSets DEF Unrecorded
  <2>4. Cardinality(Unrecorded') = IF calls[i].kind = "write" THEN Cardinality(Unrecorded) + 1 ELSE Cardinality(Unrecorded)
    BY <2>1, <2>2, <2>3, FS_AddElement
  <2>5. effects' + orphans' = reported' + abandoned' + Cardinality(Unrecorded')
    BY <1>1, <2>1, <2>3, <2>4
  <2>. QED
    BY <1>1, <2>1, <2>5 DEF AccountOK
<1>18. ASSUME NEW i \in DOMAIN job, Record(i) \/ StopJob(i)
       PROVE  AccountOK'
  <2>1. /\ \E st \in {"recorded", "dropped", "late"} : job' = [job EXCEPT ![i] = st]
        /\ UNCHANGED <<plan, calls, effects, abandoned, orphans>>
        /\ reported' = (IF calls[i].kind = "write" THEN reported + 1 ELSE reported)
        /\ job[i] = "done" /\ pc \in {"tools", "stopping"} /\ pc' \in {"answer", "tools", "stopping"}
        /\ pc' = "stopping" => pc = "stopping" /\ stop' = stop
    BY <1>18 DEF Record, StopJob, GoesOn
  <2>2. Unrecorded' = IF calls[i].kind = "write" THEN Unrecorded \ {i} ELSE Unrecorded
    <3>1. PICK st \in {"recorded", "dropped", "late"} : job' = [job EXCEPT ![i] = st]
      BY <2>1
    <3>2. Where("done")' = Where("done") \ {i}
      BY <3>1, JobSet
    <3>. QED
      BY <2>1, <3>2 DEF Unrecorded
  <2>3. IsFiniteSet(Unrecorded) /\ Cardinality(Unrecorded) \in Nat
    BY JobSets DEF Unrecorded
  <2>4. calls[i].kind = "write" => i \in Unrecorded
    BY <2>1 DEF Unrecorded, Where
  <2>5. Cardinality(Unrecorded') = IF calls[i].kind = "write" THEN Cardinality(Unrecorded) - 1 ELSE Cardinality(Unrecorded)
    BY <2>2, <2>3, <2>4, FS_RemoveElement
  <2>6. effects' + orphans' = reported' + abandoned' + Cardinality(Unrecorded')
    BY <1>1, <2>1, <2>3, <2>5
  <2>. QED
    BY <1>1, <2>1, <2>6 DEF AccountOK
<1>19. CASE OrphanEnds
  <2>1. /\ orphans > 0 /\ orphans' = orphans - 1 /\ effects' = effects + 1
        /\ UNCHANGED <<plan, calls, job, pc, stop, reported, abandoned>>
    BY <1>19 DEF OrphanEnds
  <2>2. IsFiniteSet(Unrecorded) /\ Cardinality(Unrecorded) \in Nat
    BY JobSets DEF Unrecorded
  <2>3. ~InTime
    BY <1>1, <2>1
  <2>4. effects' + orphans' = effects + orphans
    BY <2>1
  <2>. QED
    BY <1>1, <1>4, <2>1, <2>2, <2>3, <2>4 DEF AccountOK
\* a write that is given up runs alone
<1>20. CASE StopInterrupted \/ \E i \in DOMAIN job : StopGivesUp(i)
  <2>1. PICK S \in SUBSET Started :
           /\ GiveUp(S) /\ pc = "stopping" /\ UNCHANGED <<pc, calls, effects, reported, plan>>
           /\ \/ Fault("stuck")
              \/ stop # "cancelled" /\ Fault("cancel")
              \/ stop = "cancelled" /\ Fault("deadline")
    BY <1>20, GivesUp
  <2>2. ~InTime
    BY <1>1, <1>2, <2>1
  <2>3. Unrecorded' = Unrecorded \ S /\ abandoned' \in Nat /\ orphans' \in Nat
    BY <2>1, GaveUp DEF Unrecorded
  <2>4. effects' + orphans' = reported' + abandoned' + Cardinality(Unrecorded')
    <3>1. CASE \A i \in S : calls[i].kind # "write"
      <4>1. abandoned' = abandoned /\ orphans' = orphans
        BY <2>1, <3>1 DEF GiveUp
      <4>2. Unrecorded' = Unrecorded
        BY <2>3, <3>1 DEF Unrecorded
      <4>. QED
        BY <1>1, <2>1, <4>1, <4>2
    <3>2. CASE \E i \in S : calls[i].kind = "write"
      <4>1. PICK i \in S : calls[i].kind = "write"
        BY <3>2
      <4>2. Started = {i} /\ S = {i} /\ i \in DOMAIN job /\ job[i] \in {"running", "done"}
        BY <2>1, <4>1 DEF LoneOK, Mutating, Started, Where
      <4>3. abandoned' = abandoned + 1 /\ orphans' = IF job[i] = "running" THEN orphans + 1 ELSE orphans
        BY <2>1, <4>1, <4>2 DEF GiveUp
      <4>4. Unrecorded' = {} /\ Unrecorded = IF job[i] = "running" THEN {} ELSE {i}
        BY <2>3, <4>1, <4>2 DEF Unrecorded, Started, Where
      <4>5. Cardinality({i}) = 1
        BY FS_Singleton
      <4>6. Cardinality(Unrecorded) = (IF job[i] = "running" THEN 0 ELSE 1) /\ Cardinality(Unrecorded') = 0
        BY <1>3, <4>4, <4>5
      <4>. QED
        BY <1>1, <2>1, <4>3, <4>6
    <3>. QED
      BY <3>1, <3>2
  <2>. QED
    BY <2>1, <2>2, <2>4 DEF AccountOK
<1>. QED
  BY <1>6, <1>7, <1>8, <1>9, <1>10, <1>11, <1>12, <1>14, <1>15, <1>16, <1>17, <1>18, <1>19, <1>20, Steps

\* Every step keeps the copy of a process that keeps its session and its store.
LEMMA HeldStep ==
  ASSUME RunInv, [Next]_vars
  PROVE  HeldOK'
<1>. USE DEF conversation, batch, counters
<1>. BatchType /\ BatchOK
  BY DEF RunInv
<1>0. plan' = plan
  <2>1. StopInterrupted \/ (\E i \in DOMAIN job : StopGivesUp(i)) => plan' = plan
    BY GivesUp
  <2>. QED
    BY <2>1, Steps DEF UserSaid, OutOfSteps, Request, ModelFails, Said, OwnerLost, Finish, StubsDone, Stopped, Compact,
       Load, Cancel, Deadline, StoreFails, Restart, LockLost, LockTaken, OthersGoOn, OpenedElsewhere, OrphanEnds, vars,
       StartRun, Crash, AutoVerifies, ModelAnswers, Batch, Reject, Dispatch, Answered, Stubbed, ToolEnds,
       Record, StopJob
<1>. SUFFICES ASSUME Held
              PROVE  HeldOK'
  BY <1>0 DEF Held, HeldOK
<1>1. /\ held
      /\ cache \in {None, store} /\ (pc = "loading" => cache = None)
      /\ pc \notin {"idle", "down", "loading"} => cache = store
  BY DEF RunInv, HeldOK
<1>2. \A f \in {"lock", "db", "open"} : ~Fault(f)
  BY DEF Held, Fault
<1>3. CASE UserSaid \/ OutOfSteps \/ Request \/ ModelFails \/ Said \/ StubsDone \/ Answered \/ Stubbed \/ AutoVerifies
  <2>1. UNCHANGED held /\ cache = store /\ pc \notin {"loading", "idle", "down"} /\ pc' # "loading"
    BY <1>1, <1>3, AnswerLeads DEF UserSaid, OutOfSteps, Request, ModelFails, Said, StubsDone, Answered, Stubbed,
       AutoVerifies, Ends, GoesOn, BatchType
  <2>2. cache' = store'
    BY <1>3, <2>1 DEF UserSaid, OutOfSteps, Request, ModelFails, Said, StubsDone, Answered, Stubbed, AutoVerifies,
       Persist
  <2>. QED
    BY <1>1, <2>1, <2>2 DEF HeldOK
<1>4. CASE pc = "loop" /\ \E D \in Droppable(cache) : Compact(D)
  <2>1. UNCHANGED held /\ cache' = store' /\ pc' # "loading"
    BY <1>4 DEF Compact, Ends, GoesOn
  <2>. QED
    BY <1>1, <2>1 DEF HeldOK
<1>5. CASE Finish \/ Stopped \/ Cancel \/ Deadline \/ Batch \/ Reject \/ Dispatch \/ OrphanEnds \/ LockTaken
           \/ UNCHANGED vars
  <2>1. UNCHANGED <<cache, store>> /\ held'
    BY <1>1, <1>5 DEF Finish, Stopped, Cancel, Deadline, Batch, Reject, Dispatch, OrphanEnds, LockTaken, vars
  <2>2. pc' = pc \/ (pc \notin {"loading", "idle", "down"} /\ pc' # "loading")
    BY <1>5 DEF Finish, Stopped, Cancel, Deadline, Batch, Reject, Dispatch, OrphanEnds, LockTaken, vars,
       Ends, GoesOn, Interrupted, AtAwait
  <2>. QED
    BY <1>1, <2>1, <2>2 DEF HeldOK
<1>6. CASE \/ \E i \in DOMAIN job : ToolEnds(i) \/ Record(i) \/ StopJob(i)
           \/ \E b \in Batches, r \in {"stop", "length", "cancelled"} : ModelAnswers(b, r)
  <2>1. /\ UNCHANGED <<cache, store, held>> /\ pc \notin {"idle", "down", "loading"} /\ pc' # "loading"
    BY <1>6 DEF ToolEnds, Record, StopJob, ModelAnswers, GoesOn
  <2>. QED
    BY <1>1, <2>1 DEF HeldOK
<1>7. CASE StopInterrupted \/ \E i \in DOMAIN job : StopGivesUp(i)
  <2>1. UNCHANGED <<cache, store, held, pc>>
    BY <1>7, GivesUp
  <2>. QED
    BY <1>1, <2>1 DEF HeldOK
<1>8. CASE Load
  <2>1. UNCHANGED held /\ pc = "loading" /\ cache = None
    BY <1>1, <1>8 DEF Load
  <2>2. (cache' = store' /\ pc' = "created") \/ (cache' = None /\ pc' = "loading")
    BY <1>8, <2>1 DEF Load
  <2>. QED
    BY <1>1, <2>1, <2>2 DEF HeldOK
<1>9. CASE OwnerLost \/ StoreFails \/ LockLost \/ OpenedElsewhere \/ OthersGoOn
  BY <1>1, <1>2, <1>9 DEF OwnerLost, StoreFails, LockLost, OpenedElsewhere, OthersGoOn
<1>10. CASE Restart \/ Crash
  <2>1. UNCHANGED <<held, store>> /\ cache' \in {None, store} /\ pc' \in {"idle", "down"}
    BY <1>1, <1>10 DEF Restart, Crash
  <2>. QED
    BY <1>1, <2>1 DEF HeldOK
<1>11. CASE StartRun
  BY <1>1, <1>11 DEF StartRun, HeldOK
<1>. QED
  BY <1>3, <1>4, <1>5, <1>6, <1>7, <1>8, <1>9, <1>10, <1>11, Steps

-----------------------------------------------------------------------------
(* A run accounts for all it did *)

\* The first states are as the invariant says.
LEMMA RunInvInit ==
  ASSUME Init
  PROVE  RunInv
<1>. USE DEF Init
<1>1. calls \in [1..0 -> Call] /\ DOMAIN job = 1..0
  OBVIOUS
<1>2. Active = {} /\ Started = {} /\ Unrecorded = {} /\ Cardinality({}) = 0
  BY FS_EmptySet DEF Active, Started, Unrecorded, Where
<1>3. BatchType
  BY <1>1 DEF BatchType
<1>. QED
  BY <1>2, <1>3, EngineAssumption DEF RunInv, BatchOK, BudgetOK, LoneOK, AccountOK, HeldOK, Acting

\* Every reachable state of the engine is as the invariant says.
THEOREM RunInvariant == Spec => []RunInv
<1>1. RunInv /\ [Next]_vars => RunInv'
  BY BatchStep, LoneStep, BudgetStep, AccountStep, HeldStep DEF RunInv
<1>. QED
  BY <1>1, RunInvInit, PTL DEF Spec

\* A run accounts for all it did: when it is over, every write it made, or that is still at work, is
\* in its records or is one the engine gave up on; it gives up on none for a cancel alone; and no
\* more calls run than the budget allows.
THEOREM RunsAccount == Spec => []RunAccounts
<1>1. RunInv => RunAccounts
  <2>. SUFFICES ASSUME RunInv
                PROVE  RunAccounts
    OBVIOUS
  <2>1. pc = "finish" => Cardinality(Unrecorded) = 0
    BY FS_EmptySet DEF RunInv, AccountOK
  <2>2. ChangesReported
    BY <2>1 DEF ChangesReported, RunInv, AccountOK, BatchType
  <2>3. WithinToolBudget
    BY DEF WithinToolBudget, RunInv, BudgetOK, Active, Started
  <2>. QED
    BY <2>2, <2>3 DEF RunAccounts
<1>. QED
  BY <1>1, RunInvariant, PTL

\* What a process that keeps its session and its store remembers of the conversation is what is
\* stored, whatever is cancelled, compacted, crashed or repaired.
THEOREM CopyStands == Spec => []CopyIsStored
<1>1. RunInv => CopyIsStored
  BY DEF RunInv, HeldOK, CopyIsStored
<1>. QED
  BY <1>1, RunInvariant, PTL

\* A call whose result the run took gets that result, even when its group is interrupted then.
THEOREM RecordedAnswersReal == Spec => FinishedAnswersReal
<1>. DEFINE Kept == \A i \in DOMAIN job : job[i] = "recorded" /\ calls' = calls => job'[i] \in {"recorded", "real"}
<1>1. RunInv /\ [Next]_vars => [Kept]_vars
  <2>. SUFFICES ASSUME RunInv, [Next]_vars, NEW k \in DOMAIN job, job[k] = "recorded", calls' = calls
                PROVE  job'[k] \in {"recorded", "real"}
    OBVIOUS
  <2>. USE DEF conversation, batch, counters
  <2>. BatchType /\ BatchOK
    BY DEF RunInv
  <2>1. pc \in Acting \cup {"finish", "idle"} /\ calls # <<>>
    BY DEF BatchOK, Active, Where, BatchType
  <2>2. ASSUME NEW i \in DOMAIN job, job[i] # "recorded", NEW st, job' = [job EXCEPT ![i] = st]
        PROVE  job'[k] = job[k]
    BY <2>2
  <2>3. CASE UserSaid \/ OutOfSteps \/ Request \/ ModelFails \/ Said \/ OwnerLost \/ Finish \/ StubsDone \/ Stopped
             \/ (pc = "loop" /\ \E D \in Droppable(cache) : Compact(D)) \/ Load \/ Cancel \/ Deadline
             \/ StoreFails \/ Restart \/ LockLost \/ LockTaken \/ OthersGoOn \/ OpenedElsewhere \/ OrphanEnds \/ UNCHANGED vars
    <3>1. UNCHANGED job
      BY <2>3 DEF UserSaid, OutOfSteps, Request, ModelFails, Said, OwnerLost, Finish, StubsDone, Stopped, Compact,
         Load, Cancel, Deadline, StoreFails, Restart, LockLost, LockTaken, OthersGoOn, OpenedElsewhere, OrphanEnds, vars
    <3>. QED
      BY <3>1
  <2>4. CASE StartRun \/ Crash
    BY <2>1, <2>4 DEF StartRun, Crash
  <2>5. CASE AutoVerifies \/ Batch \/ Stubbed \/ \E b \in Batches, r \in {"stop", "length", "cancelled"} : ModelAnswers(b, r)
    BY <2>1, <2>5 DEF AutoVerifies, Batch, Stubbed, ModelAnswers, Acting
  <2>6. CASE Reject \/ Dispatch
    <3>1. First(Where("wait")) \in Where("wait")
      BY <2>6, JobSets, FirstIsOne DEF BatchOK, Reject, Dispatch
    <3>2. \E st \in {"recorded", "running"} : job' = [job EXCEPT ![First(Where("wait"))] = st]
      BY <2>6 DEF Reject, Dispatch
    <3>. QED
      BY <2>2, <3>1, <3>2 DEF Where
  <2>7. CASE Answered
    BY <2>7 DEF Answered
  <2>8. CASE \E i \in DOMAIN job : ToolEnds(i) \/ Record(i) \/ StopJob(i)
    <3>1. PICK i \in DOMAIN job : ToolEnds(i) \/ Record(i) \/ StopJob(i)
      BY <2>8
    <3>2. job[i] # "recorded" /\ \E st \in {"done", "recorded", "dropped", "late"} : job' = [job EXCEPT ![i] = st]
      BY <3>1 DEF ToolEnds, Record, StopJob
    <3>. QED
      BY <2>2, <3>2
  <2>9. CASE StopInterrupted \/ \E i \in DOMAIN job : StopGivesUp(i)
    <3>1. job'[k] = job[k]
      BY <2>9, GivesUp, GaveUp DEF Started, Where
    <3>. QED
      BY <3>1
  <2>. QED
    BY <2>3, <2>4, <2>5, <2>6, <2>7, <2>8, <2>9, Steps
<1>. QED
  BY <1>1, RunInvariant, PTL DEF Spec, FinishedAnswersReal

-----------------------------------------------------------------------------
(* Sequences and folds *)

Fresh0 == [out |-> <<>>, pending |-> <<>>]

\* The largest number of a set that has one.
LEMMA MaxIs ==
  ASSUME NEW S \in SUBSET Nat, NEW m \in S, \A j \in S : j <= m
  PROVE  Max(S) = m
<1>1. \A x \in S : (\A y \in S : x >= y) <=> x = m
  OBVIOUS
<1>. QED
  BY <1>1 DEF Max

\* A history is repaired message by message.
LEMMA RepairedStepwise ==
  ASSUME NEW h, Len(h) \in Nat, DOMAIN h = 1..Len(h)
  PROVE  \E f : /\ f[0] = Fresh0
                /\ \A n \in 1..Len(h) : f[n] = RepairStep(f[n - 1], h[n])
                /\ FoldLeft(RepairStep, Fresh0, h) = f[Len(h)]
<1> DEFINE Is(f, k) == f = [s \in SUBSET (1..k) |-> IF s = {} THEN Fresh0 ELSE RepairStep(f[s \ {Max(s)}], h[Max(s)])]
           Bad == {k \in 0..Len(h) : ~\E f : Is(f, k)}
<1>1. \E f : Is(f, 0)
  <2>1. Is([s \in SUBSET (1..0) |-> Fresh0], 0)
    OBVIOUS
  <2>. QED
    BY <2>1
<1>2. ASSUME NEW k \in Nat, NEW f, Is(f, k)
      PROVE  \E g : Is(g, k + 1)
  <2> DEFINE g == [s \in SUBSET (1..k + 1) |-> IF k + 1 \in s THEN RepairStep(f[s \ {k + 1}], h[k + 1]) ELSE f[s]]
  <2>1. ASSUME NEW s \in SUBSET (1..k + 1), s # {}
        PROVE  g[s] = RepairStep(g[s \ {Max(s)}], h[Max(s)])
    <3>1. CASE k + 1 \in s
      <4>1. Max(s) = k + 1
        BY <3>1, MaxIs
      <4>2. s \ {k + 1} \in SUBSET (1..k) /\ s \ {k + 1} \in SUBSET (1..k + 1) /\ k + 1 \notin s \ {k + 1}
        OBVIOUS
      <4>. QED
        BY <3>1, <4>1, <4>2
    <3>2. CASE k + 1 \notin s
      <4>1. s \in SUBSET (1..k)
        BY <3>2
      <4>2. s \ {Max(s)} \in SUBSET (1..k + 1) /\ k + 1 \notin s \ {Max(s)}
        BY <3>2
      <4>3. g[s] = f[s] /\ g[s \ {Max(s)}] = f[s \ {Max(s)}]
        BY <3>2, <4>2
      <4>4. f[s] = RepairStep(f[s \ {Max(s)}], h[Max(s)])
        BY <1>2, <2>1, <4>1
      <4>. QED
        BY <4>3, <4>4
    <3>. QED
      BY <3>1, <3>2
  <2>2. g[{}] = Fresh0
    <3>1. {} \in SUBSET (1..k) /\ {} \in SUBSET (1..k + 1) /\ k + 1 \notin {}
      OBVIOUS
    <3>. QED
      BY <1>2, <3>1
  <2>3. Is(g, k + 1)
    <3> DEFINE r == [s \in SUBSET (1..k + 1) |-> IF s = {} THEN Fresh0 ELSE RepairStep(g[s \ {Max(s)}], h[Max(s)])]
    <3>1. \A s \in SUBSET (1..k + 1) : g[s] = r[s]
      BY <2>1, <2>2
    <3>2. DOMAIN g = DOMAIN r /\ g = [s \in DOMAIN g |-> g[s]] /\ r = [s \in DOMAIN r |-> r[s]]
      OBVIOUS
    <3>3. g = r
      <4> HIDE DEF g, r
      <4>. QED
        BY <3>1, <3>2, DOMAIN g = SUBSET (1..k + 1) DEF g
    <3>. QED
      BY <3>3
  <2>. QED
    BY <2>3
<1>3. Bad = {}
  <2> HIDE DEF Is
  <2>1. Bad \subseteq Nat /\ 0 \notin Bad
    BY <1>1
  <2>2. \A k \in 0..Len(h) : k \in Bad <=> ~\E f : Is(f, k)
    OBVIOUS
  <2> SUFFICES ASSUME Bad # {} PROVE FALSE
    OBVIOUS
  <2>3. PICK b \in Bad : \A j \in Bad : b <= j
    BY <2>1, FirstIsOne
  <2>4. b \in 1..Len(h)
    BY <2>1, <2>3
  <2> HIDE DEF Bad
  <2>5. b - 1 \in Nat /\ b - 1 \notin Bad /\ b - 1 \in 0..Len(h) /\ b \in 0..Len(h) /\ (b - 1) + 1 = b
    BY <2>3, <2>4
  <2>6. PICK f : Is(f, b - 1)
    BY <2>2, <2>5
  <2>7. \E g : Is(g, (b - 1) + 1)
    BY <1>2, <2>5, <2>6
  <2>. QED
    BY <2>2, <2>3, <2>5, <2>7
<1>4. PICK it : Is(it, Len(h))
  <2> HIDE DEF Is
  <2>1. \A k \in 0..Len(h) : (\E f : Is(f, k)) \/ k \in Bad
    OBVIOUS
  <2> HIDE DEF Bad
  <2>. QED
    BY <1>3, <2>1
<1>5. FoldLeft(RepairStep, Fresh0, h) = (CHOOSE f : Is(f, Len(h)))[1..Len(h)]
  BY DEF FoldLeft, MapThenFoldSet
<1> DEFINE f == CHOOSE f : Is(f, Len(h))
           run == [n \in 0..Len(h) |-> f[1..n]]
<1>6. Is(f, Len(h))
  BY <1>4
<1>7. \A s \in SUBSET (1..Len(h)) : f[s] = IF s = {} THEN Fresh0 ELSE RepairStep(f[s \ {Max(s)}], h[Max(s)])
  BY <1>6
<1> HIDE DEF f, Is
<1>8. ASSUME NEW n \in 1..Len(h)
      PROVE  run[n] = RepairStep(run[n - 1], h[n])
  <2>1. 1..n \in SUBSET (1..Len(h)) /\ n \in 1..n /\ n - 1 \in 0..Len(h) /\ n \in 0..Len(h)
    OBVIOUS
  <2>3. (1..n) \ {n} = 1..n - 1
    OBVIOUS
  <2>2. Max(1..n) = n
    BY MaxIs
  <2>. QED
    BY <1>7, <2>1, <2>2, <2>3
<1>9. run[0] = Fresh0
  <2>1. 1..0 = {} /\ {} \in SUBSET (1..Len(h)) /\ 0 \in 0..Len(h)
    OBVIOUS
  <2>. QED
    BY <1>7, <2>1
<1>10. FoldLeft(RepairStep, Fresh0, h) = run[Len(h)]
  BY <1>5 DEF f
<1>. QED
  BY <1>8, <1>9, <1>10
-----------------------------------------------------------------------------
(* Histories *)

CallId == Id \cup {AutoId}

\* what the engine and the store make: only answers of the model make calls, and a tool's message
\* answers one
StoredMessage ==
  {m \in [role : {"user", "guest", "summary", "assistant", "tool"}, ids : Seq(CallId), real : BOOLEAN] :
     (m.role \in {"user", "guest", "summary"} => m.ids = <<>>) /\ (m.role = "tool" => Len(m.ids) = 1)}

History == Seq(StoredMessage)

\* what users say, here or to another process
Spoken == {User, Guest}

\* Neither of them is a summary or makes calls.
LEMMA SpokenIs ==
  ASSUME NEW x \in Spoken
  PROVE  x \in StoredMessage /\ x.role \in {"user", "guest"} /\ x # Summary /\ User # Guest
<1>1. <<>> \in Seq(CallId)
  OBVIOUS
<1>2. /\ User.role = "user" /\ Guest.role = "guest" /\ Summary.role = "summary"
      /\ User \in StoredMessage /\ Guest \in StoredMessage
  BY <1>1 DEF User, Guest, Summary, Message, StoredMessage
<1>. QED
  BY <1>2 DEF Spoken

Perms(n) ==
  {f \in [1..n -> 1..n] : (\A i, j \in 1..n : f[i] = f[j] => i = j) /\ \A i \in 1..n : \E j \in 1..n : f[j] = i}

\* f says which call the j-th message after the k-th answers
BlockAt(h, k, f) ==
  /\ \A j \in 1..Len(h[k].ids) : k + j <= Len(h) => h[k + j].role = "tool" /\ h[k + j].ids[1] = h[k].ids[f[j]]
  /\ k + Len(h[k].ids) < Len(h) => h[k + Len(h[k].ids) + 1].role # "tool"

\* paired, but for answers that are missing at the end
Partly(h) ==
  /\ h # <<>> => h[1].role # "tool"
  /\ \A k \in 1..Len(h) : h[k].role # "tool" => \E f \in Perms(Len(h[k].ids)) : BlockAt(h, k, f)

Complete(h) == \A k \in 1..Len(h) : h[k].role # "tool" => k + Len(h[k].ids) <= Len(h)

\* the answers owed after the first m messages are p: those to the calls of the k-th that the
\* messages since have not answered
Owed(h, m, p) ==
  /\ p \in Seq(CallId)
  /\ m = 0 => p = <<>>
  /\ m # 0 => \E k \in 1..m : \E f, b \in Perms(Len(h[k].ids)) :
       /\ h[k].role # "tool" /\ BlockAt(h, k, f)
       /\ m - k <= Len(h[k].ids) /\ Len(p) = Len(h[k].ids) - (m - k)
       /\ \A j \in 1..m - k : b[j] = f[j]
       /\ \A i \in 1..Len(p) : p[i] = h[k].ids[b[m - k + i]]

\* A message of a history and its calls.
LEMMA MessageOf ==
  ASSUME NEW h \in History, NEW k \in 1..Len(h)
  PROVE  /\ h[k] \in StoredMessage /\ h[k].ids \in Seq(CallId) /\ Len(h[k].ids) \in Nat
         /\ h[k].role = "tool" => h[k].ids[1] \in CallId
BY DEF History, StoredMessage

\* A history that is complete and only lacks answers at its end lacks none.
LEMMA PairedIs ==
  ASSUME NEW h \in History, Partly(h), Complete(h)
  PROVE  Paired(h)
<1>1. ASSUME NEW k \in 1..Len(h), h[k].role # "tool"
      PROVE  LET n == Len(h[k].ids) IN
             /\ k + n <= Len(h)
             /\ \A j \in 1..n : h[k + j].role = "tool"
             /\ k + n < Len(h) => h[k + n + 1].role # "tool"
             /\ \E f \in [1..n -> 1..n] :
                  \A j \in 1..n : h[k + j].ids[1] = h[k].ids[f[j]] /\ \A i \in 1..n : f[i] = f[j] => i = j
  <2> DEFINE n == Len(h[k].ids)
  <2>1. n \in Nat /\ k + n <= Len(h)
    BY <1>1, MessageOf DEF Complete
  <2>2. PICK f \in Perms(n) : BlockAt(h, k, f)
    BY <1>1 DEF Partly
  <2>3. \A j \in 1..n : k + j <= Len(h)
    BY <2>1
  <2>4. /\ \A j \in 1..n : h[k + j].role = "tool" /\ h[k + j].ids[1] = h[k].ids[f[j]]
        /\ k + n < Len(h) => h[k + n + 1].role # "tool"
    BY <2>2, <2>3 DEF BlockAt
  <2>5. f \in [1..n -> 1..n] /\ \A i, j \in 1..n : f[i] = f[j] => i = j
    BY <2>2 DEF Perms
  <2> HIDE DEF n
  <2>6. \A j \in 1..n : h[k + j].ids[1] = h[k].ids[f[j]] /\ \A i \in 1..n : f[i] = f[j] => i = j
    BY <2>4, <2>5
  <2>7. \E g \in [1..n -> 1..n] :
          \A j \in 1..n : h[k + j].ids[1] = h[k].ids[g[j]] /\ \A i \in 1..n : g[i] = g[j] => i = j
    BY <2>5, <2>6
  <2>. QED
    BY <2>1, <2>4, <2>7 DEF n
<1>. QED
  BY <1>1 DEF Paired, Partly

\* Before the last message that is no answer all calls are answered.
LEMMA BlockEnds ==
  ASSUME NEW h \in History, NEW k \in 1..Len(h), NEW f, BlockAt(h, k, f),
         NEW j \in 1..Len(h), k < j, h[j].role # "tool"
  PROVE  k + Len(h[k].ids) < j
<1> DEFINE n == Len(h[k].ids)
<1>1. n \in Nat
  BY MessageOf
<1>2. CASE j <= k + n
  <2>1. j - k \in 1..n /\ k + (j - k) = j /\ k + (j - k) <= Len(h)
    BY <1>1, <1>2
  <2>2. h[k + (j - k)].role = "tool"
    BY <2>1 DEF BlockAt
  <2>. QED
    BY <2>1, <2>2
<1>. QED
  BY <1>1, <1>2

\* The same order is an order.
LEMMA SameOrder ==
  ASSUME NEW n \in Nat
  PROVE  [i \in 1..n |-> i] \in Perms(n)
BY DEF Perms

\* One order after another is an order.
LEMMA OrderOfOrder ==
  ASSUME NEW n \in Nat, NEW b \in Perms(n), NEW t \in Perms(n)
  PROVE  [i \in 1..n |-> b[t[i]]] \in Perms(n)
<1> DEFINE c == [i \in 1..n |-> b[t[i]]]
<1>1. /\ b \in [1..n -> 1..n] /\ t \in [1..n -> 1..n]
      /\ \A i, j \in 1..n : b[i] = b[j] => i = j
      /\ \A i, j \in 1..n : t[i] = t[j] => i = j
      /\ \A i \in 1..n : \E j \in 1..n : b[j] = i
      /\ \A i \in 1..n : \E j \in 1..n : t[j] = i
  BY DEF Perms
<1>2. c \in [1..n -> 1..n] /\ \A i, j \in 1..n : c[i] = c[j] => i = j
  BY <1>1
<1>3. ASSUME NEW i \in 1..n PROVE \E j \in 1..n : c[j] = i
  <2>1. PICK k \in 1..n : b[k] = i
    BY <1>1
  <2>2. PICK j \in 1..n : t[j] = k
    BY <1>1
  <2>. QED
    BY <2>1, <2>2
<1> HIDE DEF c
<1>4. c \in Perms(n)
  BY <1>2, <1>3 DEF Perms
<1>. QED
  BY <1>4 DEF c

\* One place is taken to another and what lies between moves up.
LEMMA TakenFirst ==
  ASSUME NEW n \in Nat, NEW a \in Nat, NEW q \in Nat, NEW k \in Nat,
         a < q, q <= n, a < k, k <= n
  PROVE  [i \in 1..n |-> IF i <= a THEN i
                         ELSE IF i = a + 1 THEN k
                         ELSE IF (IF i <= q THEN i - 1 ELSE i) = k THEN q
                         ELSE IF i <= q THEN i - 1 ELSE i] \in Perms(n)
<1> DEFINE t == [i \in 1..n |-> IF i <= a THEN i
                         ELSE IF i = a + 1 THEN k
                         ELSE IF (IF i <= q THEN i - 1 ELSE i) = k THEN q
                         ELSE IF i <= q THEN i - 1 ELSE i]
<1>1. t \in [1..n -> 1..n]
  OBVIOUS
<1>2. \A i, j \in 1..n : t[i] = t[j] => i = j
  OBVIOUS
<1>3. ASSUME NEW y \in 1..n PROVE \E i \in 1..n : t[i] = y
  <2>1. CASE y <= a
    BY <2>1
  <2>2. CASE y = k
    BY <2>2
  <2>3. CASE y > a /\ y = q /\ y # k
    <3> DEFINE i == IF k < q THEN k + 1 ELSE k
    <3>1. i \in 1..n /\ t[i] = y
      BY <2>3
    <3>. QED
      BY <3>1
  <2>4. CASE y > a /\ y # q /\ y # k
    <3> DEFINE i == IF y < q THEN y + 1 ELSE y
    <3>1. i \in 1..n /\ t[i] = y
      BY <2>4
    <3>. QED
      BY <3>1
  <2>. QED
    BY <2>1, <2>2, <2>3, <2>4
<1> HIDE DEF t
<1>4. t \in Perms(n)
  BY <1>1, <1>2, <1>3 DEF Perms
<1>. QED
  BY <1>4 DEF t

-----------------------------------------------------------------------------
(* Repairs *)

\* What is left of a sequence without one of its elements.
LEMMA RemoveFirstIs ==
  ASSUME NEW S, NEW s \in Seq(S), NEW e, \E i \in 1..Len(s) : s[i] = e
  PROVE  \E p \in 1..Len(s) :
           /\ s[p] = e
           /\ RemoveFirst(s, e) \in Seq(S) /\ Len(RemoveFirst(s, e)) = Len(s) - 1
           /\ \A q \in 1..Len(s) - 1 : RemoveFirst(s, e)[q] = IF q < p THEN s[q] ELSE s[q + 1]
<1> DEFINE I == {i \in 1..Len(s) : s[i] = e}
<1>1. Len(s) \in Nat /\ I # {} /\ I \in SUBSET Nat
  OBVIOUS
<1>2. PICK p \in I : \A j \in I : p <= j
  BY <1>1, FirstIsOne
<1>3. \A x \in I : (\A y \in I : x <= y) <=> x = p
  BY <1>2, <1>1
<1>4. Min(I) = p
  BY <1>2, <1>3 DEF Min
<1>5. RemoveFirst(s, e) = RemoveAt(s, p)
  BY <1>1, <1>4 DEF RemoveFirst, SelectInSeq
<1>6. p \in 1..Len(s) /\ s[p] = e
  BY <1>2
<1> HIDE DEF I
<1> DEFINE a == SubSeq(s, 1, p - 1)
           b == SubSeq(s, p + 1, Len(s))
<1>7. /\ a \in Seq(S) /\ Len(a) = p - 1 /\ \A i \in 1..p - 1 : a[i] = s[i]
      /\ b \in Seq(S) /\ Len(b) = Len(s) - p /\ \A i \in 1..Len(s) - p : b[i] = s[p + i]
  BY <1>1, <1>6
<1>8. RemoveFirst(s, e) = a \o b
  BY <1>5 DEF RemoveAt
<1> HIDE DEF a, b
<1>9. a \o b \in Seq(S) /\ Len(a \o b) = Len(s) - 1
  BY <1>1, <1>6, <1>7
<1>10. ASSUME NEW q \in 1..Len(s) - 1
       PROVE  (a \o b)[q] = IF q < p THEN s[q] ELSE s[q + 1]
  <2>1. CASE q < p
    BY <1>1, <1>6, <1>7, <2>1
  <2>2. CASE q >= p
    <3>3. q \in Nat /\ q > Len(a) /\ q <= Len(a) + Len(b) /\ Len(a) \in Nat /\ Len(b) \in Nat
      BY <1>1, <1>6, <1>7, <2>2
    <3>4. (a \o b)[q] = b[q - Len(a)]
      BY <1>7, <3>3
    <3>1. (a \o b)[q] = b[q - (p - 1)] /\ q - (p - 1) \in 1..Len(s) - p
      BY <1>1, <1>6, <1>7, <3>3, <3>4
    <3>2. p + (q - (p - 1)) = q + 1
      BY <1>1, <1>6
    <3>. QED
      BY <1>7, <2>2, <3>1, <3>2, <1>6
  <2>3. q < p \/ q >= p
    BY <1>1, <1>6
  <2>. QED
    BY <2>1, <2>2, <2>3
<1>. QED
  BY <1>6, <1>8, <1>9, <1>10
\* An answer that belongs to a history is owed, and not any more.
LEMMA OwedTool ==
  ASSUME NEW h \in History, Partly(h), NEW m \in 1..Len(h) - 1, NEW p, Owed(h, m, p), h[m + 1].role = "tool"
  PROVE  Owed(h, m + 1, RemoveFirst(p, h[m + 1].ids[1]))
<1>0. Len(h) \in Nat /\ m \in Nat /\ m # 0 /\ m + 1 <= Len(h)
  BY DEF History
<1>1. PICK k \in 1..m : \E f, b \in Perms(Len(h[k].ids)) :
         /\ h[k].role # "tool" /\ BlockAt(h, k, f)
         /\ m - k <= Len(h[k].ids) /\ Len(p) = Len(h[k].ids) - (m - k)
         /\ \A j \in 1..m - k : b[j] = f[j]
         /\ \A i \in 1..Len(p) : p[i] = h[k].ids[b[m - k + i]]
  BY <1>0 DEF Owed
<1>a. k \in 1..Len(h) /\ k \in Nat /\ k <= m
  BY <1>0, <1>1
<1>b. Len(h[k].ids) \in Nat
  BY <1>a, MessageOf
<1>c. p \in Seq(CallId) /\ Len(p) \in Nat
  BY DEF Owed
<1> DEFINE n == Len(h[k].ids)
           a == m - k
           e == h[m + 1].ids[1]
<1>2. PICK f \in Perms(n), b \in Perms(n) :
         /\ h[k].role # "tool" /\ BlockAt(h, k, f)
         /\ a <= n /\ Len(p) = n - a
         /\ \A j \in 1..a : b[j] = f[j]
         /\ \A i \in 1..Len(p) : p[i] = h[k].ids[b[a + i]]
  BY <1>1
<1>3. /\ Len(h) \in Nat /\ k \in 1..Len(h) /\ n \in Nat /\ a \in Nat /\ m = k + a
      /\ p \in Seq(CallId) /\ Len(p) \in Nat /\ m \in Nat /\ m + 1 <= Len(h)
  BY <1>0, <1>a, <1>b, <1>c
<1> HIDE DEF n, a, e
<1>4. a < n
  <2>1. CASE a = n
    <3>1. k + n < Len(h) /\ k + n + 1 = m + 1
      BY <1>3, <2>1
    <3>2. h[k + n + 1].role # "tool"
      BY <1>2, <3>1 DEF BlockAt, n
    <3>. QED
      BY <3>1, <3>2
  <2>. QED
    BY <1>2, <1>3, <2>1
<1>5. e = h[k].ids[f[a + 1]]
  <2>1. a + 1 \in 1..n /\ k + (a + 1) = m + 1 /\ k + (a + 1) <= Len(h)
    BY <1>3, <1>4
  <2>. QED
    BY <1>2, <2>1 DEF BlockAt, n, e
<1>6. /\ f \in [1..n -> 1..n] /\ b \in [1..n -> 1..n]
      /\ \A i, j \in 1..n : f[i] = f[j] => i = j
      /\ \A i \in 1..n : \E j \in 1..n : b[j] = i
  BY <1>2 DEF Perms
<1>7. a + 1 \in 1..n /\ f[a + 1] \in 1..n
  <2>1. a + 1 \in 1..n
    BY <1>3, <1>4
  <2>. QED
    BY <1>6, <2>1
<1>8. PICK j0 \in 1..n : b[j0] = f[a + 1]
  BY <1>6, <1>7
<1>9. j0 > a
  <2>1. CASE j0 <= a
    <3>1. f[j0] = f[a + 1] /\ j0 # a + 1
      BY <1>2, <1>3, <1>8, <2>1
    <3>. QED
      BY <1>6, <1>7, <3>1
  <2>. QED
    BY <1>3, <2>1
<1>10. p[j0 - a] = e /\ j0 - a \in 1..Len(p)
  <2>1. j0 - a \in 1..Len(p) /\ a + (j0 - a) = j0
    BY <1>2, <1>3, <1>9
  <2>. QED
    BY <1>2, <1>5, <1>8, <2>1
<1>d. \E i \in 1..Len(p) : p[i] = e
  BY <1>10
<1> DEFINE r == RemoveFirst(p, e)
<1>11. PICK q \in 1..Len(p) :
          /\ p[q] = e /\ r \in Seq(CallId) /\ Len(r) = Len(p) - 1
          /\ \A i \in 1..Len(p) - 1 : r[i] = IF i < q THEN p[i] ELSE p[i + 1]
  BY <1>c, <1>d, RemoveFirstIs
<1> HIDE DEF r
<1> DEFINE z == a + q
           t == [i \in 1..n |-> IF i <= a THEN i
                         ELSE IF i = a + 1 THEN j0
                         ELSE IF (IF i <= z THEN i - 1 ELSE i) = j0 THEN z
                         ELSE IF i <= z THEN i - 1 ELSE i]
           c == [i \in 1..n |-> b[t[i]]]
<1>12. z \in Nat /\ a < z /\ z <= n /\ j0 \in Nat /\ j0 <= n /\ q = z - a
  BY <1>2, <1>3, <1>11
<1> HIDE DEF z
<1>13. t \in Perms(n)
  BY <1>3, <1>9, <1>12, TakenFirst
<1>14. c \in Perms(n)
  <2> HIDE DEF t
  <2>. QED
    BY <1>2, <1>3, <1>13, OrderOfOrder
<1>15. \A j \in 1..a + 1 : c[j] = f[j]
  <2>1. ASSUME NEW j \in 1..a PROVE c[j] = f[j]
    BY <1>2, <1>3, <1>4, <2>1
  <2>2. c[a + 1] = f[a + 1]
    <3>1. t[a + 1] = j0
      BY <1>3, <1>7
    <3> HIDE DEF t
    <3>2. c[a + 1] = b[t[a + 1]]
      BY <1>7
    <3>. QED
      BY <1>8, <3>1, <3>2
  <2>3. \A j \in 1..a + 1 : j \in 1..a \/ j = a + 1
    BY <1>3
  <2>. QED
    BY <2>1, <2>2, <2>3
<1>16. h[k].ids[b[z]] = e /\ h[k].ids[b[j0]] = e
  <2>1. a + q = z
    BY <1>3, <1>12
  <2>2. p[q] = h[k].ids[b[a + q]]
    BY <1>2, <1>11
  <2>. QED
    BY <1>5, <1>8, <1>11, <2>1, <2>2
<1>17. ASSUME NEW i \in 1..Len(r)
       PROVE  r[i] = h[k].ids[c[a + 1 + i]]
  <2> DEFINE x == a + 1 + i
             y == IF i < q THEN i ELSE i + 1
  <2>1. /\ x \in 1..n /\ x > a + 1 /\ y \in 1..Len(p) /\ i \in 1..Len(p) - 1
        /\ (IF x <= z THEN x - 1 ELSE x) = a + y
    BY <1>2, <1>3, <1>11, <1>12
  <2>2. r[i] = p[y]
    BY <1>11, <2>1
  <2>3. p[y] = h[k].ids[b[a + y]]
    BY <1>2, <2>1
  <2> HIDE DEF x, y
  <2>4. t[x] = IF a + y = j0 THEN z ELSE a + y
    <3>1. t[x] = IF x <= a THEN x
                         ELSE IF x = a + 1 THEN j0
                         ELSE IF (IF x <= z THEN x - 1 ELSE x) = j0 THEN z
                         ELSE IF x <= z THEN x - 1 ELSE x
      BY <2>1
    <3>2. ~(x <= a) /\ x # a + 1
      BY <1>3, <2>1
    <3> HIDE DEF t
    <3>. QED
      BY <2>1, <3>1, <3>2
  <2> HIDE DEF t
  <2>5. c[x] = b[t[x]]
    BY <2>1
  <2>6. h[k].ids[c[x]] = h[k].ids[b[a + y]]
    BY <1>16, <2>4, <2>5
  <2>. QED
    BY <2>2, <2>3, <2>6 DEF x
<1> HIDE DEF c, t
<1>18. (m + 1) - k = a + 1 /\ k \in 1..m + 1 /\ m + 1 # 0 /\ a + 1 <= n /\ Len(r) = n - (a + 1)
  BY <1>2, <1>3, <1>4, <1>11
<1>19. Owed(h, m + 1, r)
  <2>1. /\ h[k].role # "tool" /\ BlockAt(h, k, f)
        /\ (m + 1) - k <= n /\ Len(r) = n - ((m + 1) - k)
        /\ \A j \in 1..(m + 1) - k : c[j] = f[j]
        /\ \A i \in 1..Len(r) : r[i] = h[k].ids[c[(m + 1) - k + i]]
    BY <1>2, <1>15, <1>17, <1>18
  <2>2. \E f1, b1 \in Perms(n) :
         /\ h[k].role # "tool" /\ BlockAt(h, k, f1)
         /\ (m + 1) - k <= n /\ Len(r) = n - ((m + 1) - k)
         /\ \A j \in 1..(m + 1) - k : b1[j] = f1[j]
         /\ \A i \in 1..Len(r) : r[i] = h[k].ids[b1[(m + 1) - k + i]]
    BY <1>2, <1>14, <2>1
  <2>. QED
    BY <1>11, <1>18, <2>2 DEF Owed, n
<1>. QED
  BY <1>19 DEF r, e

\* When another message comes nothing is owed, but for its own calls.
LEMMA OwedNext ==
  ASSUME NEW h \in History, Partly(h), NEW m \in 0..Len(h) - 1, NEW p, Owed(h, m, p), h[m + 1].role # "tool"
  PROVE  p = <<>> /\ Owed(h, m + 1, h[m + 1].ids)
<1>0. Len(h) \in Nat /\ m + 1 \in 1..Len(h) /\ m \in Nat
  BY DEF History
<1>1. p = <<>>
  <2>1. CASE m # 0
    <3>1. PICK k \in 1..m : \E f \in Perms(Len(h[k].ids)) :
             /\ BlockAt(h, k, f) /\ m - k <= Len(h[k].ids) /\ Len(p) = Len(h[k].ids) - (m - k)
      BY <2>1 DEF Owed
    <3>2. k + Len(h[k].ids) < m + 1 /\ Len(h[k].ids) \in Nat /\ k \in 1..Len(h)
      <4>1. PICK f \in Perms(Len(h[k].ids)) : BlockAt(h, k, f)
        BY <3>1
      <4>2. k \in 1..Len(h) /\ k < m + 1
        BY <1>0
      <4>3. Len(h[k].ids) \in Nat
        BY <4>2, MessageOf
      <4>. QED
        BY <1>0, <4>1, <4>2, <4>3, BlockEnds
    <3>. QED
      BY <1>0, <3>1, <3>2, EmptySeq DEF Owed
  <2>. QED
    BY <2>1 DEF Owed
<1> DEFINE n == Len(h[m + 1].ids)
           id == [i \in 1..n |-> i]
<1>2. n \in Nat /\ h[m + 1].ids \in Seq(CallId)
  BY <1>0, MessageOf
<1>3. PICK f \in Perms(n) : BlockAt(h, m + 1, f)
  BY <1>0 DEF Partly
<1>4. id \in Perms(n)
  BY <1>2, SameOrder
<1>5. /\ (m + 1) - (m + 1) = 0 /\ 1..0 = {} /\ \A i \in 1..n : id[0 + i] = i
  BY <1>0, <1>2
<1> HIDE DEF n, id
<1>6. /\ (m + 1) - (m + 1) <= n /\ n = n - ((m + 1) - (m + 1))
      /\ \A j \in 1..(m + 1) - (m + 1) : id[j] = f[j]
      /\ \A i \in 1..n : h[m + 1].ids[i] = h[m + 1].ids[id[(m + 1) - (m + 1) + i]]
  BY <1>2, <1>5
<1>7. \E f1, b1 \in Perms(n) :
         /\ h[m + 1].role # "tool" /\ BlockAt(h, m + 1, f1)
         /\ (m + 1) - (m + 1) <= n /\ n = n - ((m + 1) - (m + 1))
         /\ \A j \in 1..(m + 1) - (m + 1) : b1[j] = f1[j]
         /\ \A i \in 1..n : h[m + 1].ids[i] = h[m + 1].ids[b1[(m + 1) - (m + 1) + i]]
  BY <1>3, <1>4, <1>6
<1>8. m + 1 \in 1..m + 1 /\ m + 1 # 0
  BY <1>0
<1>. QED
  BY <1>1, <1>2, <1>7, <1>8 DEF Owed, n
-----------------------------------------------------------------------------
(* Messages of a kind *)

\* f says what is kept of the first n messages
Keeps(f, s, S) ==
  /\ f[0] = <<>>
  /\ \A n \in 1..Len(s) : f[n] = IF s[n] \in S THEN Append(f[n - 1], s[n]) ELSE f[n - 1]

\* What is kept of the first n is kept of the first n - 1, with the n-th if it is to be kept.
LEMMA ThoseStepwise ==
  ASSUME NEW s, Len(s) \in Nat, NEW S
  PROVE  \E f : Those(s, S) = f[Len(s)] /\ Keeps(f, s, S)
<1> DEFINE Is(f, k) == f = [n \in 0..k |-> IF n = 0 THEN <<>> ELSE IF s[n] \in S THEN Append(f[n - 1], s[n]) ELSE f[n - 1]]
           Bad == {k \in 0..Len(s) : ~\E f : Is(f, k)}
<1>1. \E f : Is(f, 0)
  <2>1. Is([n \in 0..0 |-> <<>>], 0)
    OBVIOUS
  <2>. QED
    BY <2>1
<1>2. ASSUME NEW k \in Nat, NEW f, Is(f, k)
      PROVE  \E g : Is(g, k + 1)
  <2> DEFINE g == [n \in 0..k + 1 |-> IF n <= k THEN f[n] ELSE IF s[n] \in S THEN Append(f[n - 1], s[n]) ELSE f[n - 1]]
  <2>1. \A n \in 0..k + 1 : g[n] = IF n = 0 THEN <<>> ELSE IF s[n] \in S THEN Append(g[n - 1], s[n]) ELSE g[n - 1]
    <3>1. \A n \in 0..k : g[n] = f[n]
      OBVIOUS
    <3>2. \A n \in 0..k : f[n] = IF n = 0 THEN <<>> ELSE IF s[n] \in S THEN Append(f[n - 1], s[n]) ELSE f[n - 1]
      BY <1>2
    <3>3. g[k + 1] = IF s[k + 1] \in S THEN Append(g[k], s[k + 1]) ELSE g[k]
      BY <3>1
    <3> HIDE DEF g
    <3>4. ASSUME NEW n \in 0..k + 1
          PROVE  g[n] = IF n = 0 THEN <<>> ELSE IF s[n] \in S THEN Append(g[n - 1], s[n]) ELSE g[n - 1]
      <4>1. CASE n = k + 1
        BY <4>1, <3>3
      <4>2. CASE n \in 0..k
        <5>1. n # 0 => g[n - 1] = f[n - 1]
          BY <4>2, <3>1
        <5>. QED
          BY <4>2, <5>1, <3>1, <3>2
      <4>. QED
        BY <4>1, <4>2
    <3>. QED
      BY <3>4
  <2>2. g = [n \in 0..k + 1 |-> g[n]]
    OBVIOUS
  <2> HIDE DEF g
  <2>3. Is(g, k + 1)
    BY <2>1, <2>2
  <2>. QED
    BY <2>3
<1>3. Bad = {}
  <2>1. ASSUME Bad # {}
        PROVE  FALSE
    <3>1. Bad \in SUBSET Nat
      OBVIOUS
    <3>2. PICK k \in Bad : \A y \in Bad : k <= y
      BY <2>1, <3>1, FirstIsOne
    <3>3. k # 0
      BY <1>1, <3>2
    <3>4. k \in 0..Len(s) /\ ~\E f : Is(f, k)
      BY <3>2
    <3>5. k - 1 \in 0..Len(s) /\ k - 1 \in Nat /\ (k - 1) + 1 = k /\ ~(k <= k - 1)
      BY <3>3, <3>4
    <3>6. k - 1 \notin Bad
      BY <3>2, <3>5
    <3> HIDE DEF Is
    <3>7. PICK f : Is(f, k - 1)
      BY <3>5, <3>6
    <3>8. \E g : Is(g, (k - 1) + 1)
      BY <3>5, <3>7, <1>2
    <3>. QED
      BY <3>8, <3>4, <3>5
  <2>. QED
    BY <2>1
<1>4. \E f : Is(f, Len(s))
  BY <1>3
<1> DEFINE f == CHOOSE f : Is(f, Len(s))
<1>5. Is(f, Len(s))
  BY <1>4
<1>6. Those(s, S) = f[Len(s)]
  BY DEF Those
<1> HIDE DEF f
<1>7. \A n \in 0..Len(s) :
         f[n] = IF n = 0 THEN <<>> ELSE IF s[n] \in S THEN Append(f[n - 1], s[n]) ELSE f[n - 1]
  <2>1. ASSUME NEW g, Is(g, Len(s)), NEW n \in 0..Len(s)
        PROVE  g[n] = IF n = 0 THEN <<>> ELSE IF s[n] \in S THEN Append(g[n - 1], s[n]) ELSE g[n - 1]
    BY <2>1
  <2> HIDE DEF Is
  <2>. QED
    BY <2>1, <1>5
<1>8. Keeps(f, s, S)
  BY <1>7 DEF Keeps
<1>. QED
  BY <1>6, <1>8

\* One more at the end of two sequences put together is one more at the end of the second.
LEMMA AppendJoined ==
  ASSUME NEW T, NEW w \in Seq(T), NEW x \in Seq(T), NEW y \in T, NEW s \in Seq(T), s = w \o x
  PROVE  Append(s, y) = w \o Append(x, y)
<1>1. w \o x \in Seq(T) /\ <<y>> \in Seq(T)
  OBVIOUS
<1>2. Append(s, y) = (w \o x) \o <<y>>
  BY <1>1, AppendIsConcat
<1>3. Append(x, y) = x \o <<y>>
  BY AppendIsConcat
<1>4. (w \o x) \o <<y>> = w \o (x \o <<y>>)
  BY <1>1, ConcatAssociative
<1>. QED
  BY <1>2, <1>3, <1>4

\* c is a followed by b, and a followed by m
Joined(c, a, b) == c = a \o b
OneMore(c, a, m) == c = Append(a, m)

\* What is kept of two sequences put together is what is kept of each.
LEMMA ThoseJoined ==
  ASSUME NEW T, NEW a \in Seq(T), NEW b \in Seq(T), NEW c, Joined(c, a, b), NEW S
  PROVE  Joined(Those(c, S), Those(a, S), Those(b, S)) /\ Those(a, S) \in Seq(T)
<1>0. c = a \o b
  BY DEF Joined
<1>1. /\ c \in Seq(T) /\ Len(c) = Len(a) + Len(b) /\ Len(a) \in Nat /\ Len(b) \in Nat /\ Len(c) \in Nat
      /\ \A i \in 1..Len(a) : c[i] = a[i] /\ a[i] \in T
      /\ \A i \in 1..Len(b) : c[Len(a) + i] = b[i] /\ b[i] \in T
  BY <1>0
<1>l. Len(a) \in Nat /\ Len(b) \in Nat /\ Len(c) \in Nat
  BY <1>1
<1>2. PICK f : Those(a, S) = f[Len(a)] /\ Keeps(f, a, S)
  BY <1>l, ThoseStepwise
<1>3. PICK g : Those(b, S) = g[Len(b)] /\ Keeps(g, b, S)
  BY <1>l, ThoseStepwise
<1>4. PICK h : Those(c, S) = h[Len(c)] /\ Keeps(h, c, S)
  BY <1>l, ThoseStepwise
<1>f. f[0] = <<>> /\ \A n \in 1..Len(a) : f[n] = IF a[n] \in S THEN Append(f[n - 1], a[n]) ELSE f[n - 1]
  BY <1>2 DEF Keeps
<1>g. g[0] = <<>> /\ \A n \in 1..Len(b) : g[n] = IF b[n] \in S THEN Append(g[n - 1], b[n]) ELSE g[n - 1]
  BY <1>3 DEF Keeps
<1>h. h[0] = <<>> /\ \A n \in 1..Len(c) : h[n] = IF c[n] \in S THEN Append(h[n - 1], c[n]) ELSE h[n - 1]
  BY <1>4 DEF Keeps
<1> DEFINE Good(n) == h[n] = f[n] /\ f[n] \in Seq(T)
           Bad == {n \in 0..Len(a) : ~Good(n)}
<1>5. Bad = {}
  <2>1. Good(0)
    BY <1>f, <1>h
  <2>2. ASSUME NEW n \in 1..Len(a), Good(n - 1)
        PROVE  Good(n)
    <3>1. n \in 1..Len(c) /\ c[n] = a[n] /\ a[n] \in T
      BY <1>1
    <3>2. h[n] = f[n]
      BY <1>f, <1>h, <2>2, <3>1
    <3>3. f[n] \in Seq(T)
      <4>1. f[n] = IF a[n] \in S THEN Append(f[n - 1], a[n]) ELSE f[n - 1]
        BY <1>f
      <4>2. f[n - 1] \in Seq(T)
        BY <2>2
      <4>. QED
        BY <3>1, <4>1, <4>2
    <3>. QED
      BY <3>2, <3>3
  <2> HIDE DEF Good
  <2> SUFFICES ASSUME Bad # {} PROVE FALSE
    OBVIOUS
  <2>3. Bad \in SUBSET Nat
    OBVIOUS
  <2>4. PICK n \in Bad : \A y \in Bad : n <= y
    BY <2>3, FirstIsOne
  <2>5. n \in 1..Len(a) /\ n - 1 \in 0..Len(a) /\ ~(n <= n - 1)
    BY <1>1, <2>1, <2>4
  <2>6. Good(n - 1)
    BY <2>4, <2>5
  <2>. QED
    BY <2>2, <2>4, <2>5, <2>6
<1>6. h[Len(a)] = f[Len(a)] /\ f[Len(a)] \in Seq(T)
  BY <1>1, <1>5
<1> HIDE DEF Good, Bad
<1> DEFINE w == f[Len(a)]
           Fine(n) == h[Len(a) + n] = w \o g[n] /\ g[n] \in Seq(T)
           Lost == {n \in 0..Len(b) : ~Fine(n)}
<1>7. w \in Seq(T) /\ h[Len(a)] = w
  BY <1>6
<1> HIDE DEF w
<1>8. Lost = {}
  <2>1. Fine(0)
    <3>1. Len(a) + 0 = Len(a) /\ w \o <<>> = w
      BY <1>1, <1>7
    <3>. QED
      BY <1>g, <1>7, <3>1
  <2>2. ASSUME NEW n \in 1..Len(b), Fine(n - 1)
        PROVE  Fine(n)
    <3>1. /\ Len(a) + n \in 1..Len(c) /\ (Len(a) + n) - 1 = Len(a) + (n - 1)
          /\ c[Len(a) + n] = b[n] /\ b[n] \in T
      BY <1>1
    <3>2. h[Len(a) + n] = IF b[n] \in S THEN Append(h[Len(a) + (n - 1)], b[n]) ELSE h[Len(a) + (n - 1)]
      BY <1>h, <3>1
    <3>3. h[Len(a) + (n - 1)] = w \o g[n - 1] /\ g[n - 1] \in Seq(T)
      BY <2>2
    <3>4. g[n] = IF b[n] \in S THEN Append(g[n - 1], b[n]) ELSE g[n - 1]
      BY <1>g
    <3>5. g[n] \in Seq(T)
      BY <3>1, <3>3, <3>4
    <3>6. Append(h[Len(a) + (n - 1)], b[n]) = w \o Append(g[n - 1], b[n])
      <4>1. w \in Seq(T) /\ g[n - 1] \in Seq(T) /\ b[n] \in T
        BY <1>7, <3>1, <3>3
      <4>2. h[Len(a) + (n - 1)] \in Seq(T)
        BY <3>3, <4>1
      <4>. QED
        BY <3>3, <4>1, <4>2, AppendJoined
    <3>. QED
      BY <3>2, <3>3, <3>4, <3>5, <3>6
  <2> HIDE DEF Fine
  <2> SUFFICES ASSUME Lost # {} PROVE FALSE
    OBVIOUS
  <2>3. Lost \in SUBSET Nat
    OBVIOUS
  <2>4. PICK n \in Lost : \A y \in Lost : n <= y
    BY <2>3, FirstIsOne
  <2>5. n \in 1..Len(b) /\ n - 1 \in 0..Len(b) /\ ~(n <= n - 1)
    BY <1>1, <2>1, <2>4
  <2>6. Fine(n - 1)
    BY <2>4, <2>5
  <2>. QED
    BY <2>2, <2>4, <2>5, <2>6
<1>9. h[Len(a) + Len(b)] = w \o g[Len(b)]
  BY <1>1, <1>8
<1>. QED
  BY <1>1, <1>2, <1>3, <1>4, <1>7, <1>9 DEF w, Joined

\* What is kept of one message.
LEMMA ThoseOne ==
  ASSUME NEW m, NEW S
  PROVE  Those(<<>>, S) = <<>> /\ Those(<<m>>, S) = IF m \in S THEN <<m>> ELSE <<>>
<1>1. Those(<<>>, S) = <<>>
  <2>1. Len(<<>>) = 0 /\ Len(<<>>) \in Nat
    OBVIOUS
  <2>. QED
    BY <2>1, ThoseStepwise DEF Keeps
<1>2. Those(<<m>>, S) = IF m \in S THEN <<m>> ELSE <<>>
  <2> DEFINE h == <<m>>
  <2>1. Len(h) = 1 /\ Len(h) \in Nat /\ h[1] = m
    OBVIOUS
  <2> HIDE DEF h
  <2>0. PICK f : Those(h, S) = f[Len(h)] /\ Keeps(f, h, S)
    BY <2>1, ThoseStepwise
  <2>2. /\ Those(h, S) = f[Len(h)] /\ f[0] = <<>>
        /\ \A n \in 1..Len(h) : f[n] = IF h[n] \in S THEN Append(f[n - 1], h[n]) ELSE f[n - 1]
    BY <2>0 DEF Keeps
  <2>3. f[1] = IF m \in S THEN Append(f[0], m) ELSE f[0]
    <3>1. 1 \in 1..Len(h) /\ 1 - 1 = 0
      BY <2>1
    <3>. QED
      BY <2>1, <2>2, <3>1
  <2>4. Append(<<>>, m) = <<m>>
    OBVIOUS
  <2>. QED
    BY <2>1, <2>2, <2>3, <2>4 DEF h
<1>. QED
  BY <1>1, <1>2

\* What is kept when messages come of which none is kept.
LEMMA ThoseMore ==
  ASSUME NEW T, NEW a \in Seq(T), NEW b \in Seq(T), NEW c, Joined(c, a, b), NEW S, Those(b, S) = <<>>
  PROVE  Those(c, S) = Those(a, S)
<1>1. Joined(Those(c, S), Those(a, S), Those(b, S)) /\ Those(a, S) \in Seq(T)
  BY ThoseJoined
<1> DEFINE k == Those(a, S)
           t == Those(c, S)
<1>2. k \in Seq(T) /\ Joined(t, k, <<>>)
  BY <1>1
<1> HIDE DEF k, t
<1>3. t = k
  BY <1>2 DEF Joined
<1>. QED
  BY <1>3 DEF k, t

\* What is kept when one message comes.
LEMMA ThoseAppended ==
  ASSUME NEW T, NEW a \in Seq(T), NEW m \in T, NEW c, OneMore(c, a, m), NEW S
  PROVE  /\ m \in S => OneMore(Those(c, S), Those(a, S), m)
         /\ m \notin S => Those(c, S) = Those(a, S)
         /\ Those(a, S) \in Seq(T)
<1> DEFINE b == <<m>>
<1>1. c = a \o b /\ b \in Seq(T)
  BY AppendIsConcat DEF OneMore
<1>2. Those(b, S) = IF m \in S THEN b ELSE <<>>
  BY ThoseOne
<1>0. Joined(c, a, b)
  BY <1>1 DEF Joined
<1>b. b = <<m>>
  OBVIOUS
<1> HIDE DEF b
<1>3. Joined(Those(c, S), Those(a, S), Those(b, S)) /\ Those(a, S) \in Seq(T)
  BY <1>0, <1>1, ThoseJoined
<1>4. CASE m \notin S
  BY <1>0, <1>1, <1>2, <1>3, <1>4, ThoseMore
<1>5. CASE m \in S
  <2> DEFINE k == Those(a, S)
  <2>1. k \in Seq(T) /\ Those(c, S) = k \o b
    BY <1>2, <1>3, <1>5 DEF Joined
  <2> HIDE DEF k
  <2>2. Append(k, m) = k \o b
    BY <1>b, <2>1, AppendIsConcat
  <2>3. k \in Seq(T) /\ OneMore(Those(c, S), k, m)
    BY <2>1, <2>2 DEF OneMore
  <2>. QED
    BY <1>5, <2>3 DEF k
<1>. QED
  BY <1>4, <1>5
\* Nothing is kept of messages that are not in the set.
LEMMA ThoseNone ==
  ASSUME NEW b, Len(b) \in Nat, NEW S, \A i \in 1..Len(b) : b[i] \notin S
  PROVE  Those(b, S) = <<>>
<1>0. PICK g : Those(b, S) = g[Len(b)] /\ Keeps(g, b, S)
  BY ThoseStepwise
<1>1. /\ Those(b, S) = g[Len(b)] /\ g[0] = <<>>
      /\ \A n \in 1..Len(b) : g[n] = IF b[n] \in S THEN Append(g[n - 1], b[n]) ELSE g[n - 1]
  BY <1>0 DEF Keeps
<1> DEFINE Bad == {n \in 0..Len(b) : g[n] # <<>>}
<1>2. Bad = {}
  <2> SUFFICES ASSUME Bad # {} PROVE FALSE
    OBVIOUS
  <2>1. Bad \in SUBSET Nat
    OBVIOUS
  <2>2. PICK n \in Bad : \A y \in Bad : n <= y
    BY <2>1, FirstIsOne
  <2>3. n \in 1..Len(b) /\ n - 1 \in 0..Len(b) /\ ~(n <= n - 1) /\ n \in 0..Len(b) /\ g[n] # <<>>
    BY <1>1, <2>2
  <2>4. g[n - 1] = <<>>
    BY <2>2, <2>3
  <2>. QED
    BY <1>1, <2>3, <2>4
<1>. QED
  BY <1>1, <1>2

\* Placeholders are answers, and neither real nor of the user's.
LEMMA StubsAre ==
  ASSUME NEW p \in Seq(CallId)
  PROVE  /\ Stubs(p) \in History /\ Len(Stubs(p)) = Len(p)
         /\ \A i \in 1..Len(p) : Stubs(p)[i] = Stub(p[i])
         /\ Those(Stubs(p), Real) = <<>> /\ \A x \in Spoken : Those(Stubs(p), {x}) = <<>>
<1> DEFINE q == Stubs(p)
<1>1. Len(q) = Len(p) /\ Len(p) \in Nat /\ \A i \in 1..Len(p) : q[i] = Stub(p[i]) /\ p[i] \in CallId
  BY DEF Stubs
<1>2. \A c \in CallId : Stub(c) \in StoredMessage /\ Stub(c) \notin Real /\ Stub(c) \notin Spoken
  <2> TAKE c \in CallId
  <2>1. <<c>> \in Seq(CallId) /\ Len(<<c>>) = 1
    OBVIOUS
  <2>2. Stub(c).real = FALSE /\ Stub(c).role = "tool" /\ Stub(c).ids = <<c>>
    BY DEF Stub, Message
  <2>3. Stub(c) \in StoredMessage
    BY <2>1 DEF Stub, Message, StoredMessage
  <2>. QED
    <3> DEFINE m == Stub(c)
    <3> HIDE DEF m
    <3>1. m.real = FALSE /\ m.role = "tool"
      BY <2>2 DEF m
    <3>2. m \notin Real
      BY <3>1 DEF Real
    <3>3. m \notin Spoken
      BY <3>1, SpokenIs
    <3>. QED
      BY <2>3, <3>2, <3>3 DEF m
<1>3. q \in History
  BY <1>1, <1>2 DEF Stubs, History
<1> HIDE DEF q
<1>4. Those(q, Real) = <<>>
  BY <1>1, <1>2, ThoseNone
<1>5. \A x \in Spoken : Those(q, {x}) = <<>>
  BY <1>1, <1>2, ThoseNone
<1>. QED
  BY <1>1, <1>3, <1>4, <1>5 DEF q

\* The first messages of a sequence, one more of them.
LEMMA FirstGrow ==
  ASSUME NEW T, NEW h \in Seq(T), NEW n \in 1..Len(h)
  PROVE  /\ SubSeq(h, 1, n - 1) \in Seq(T)
         /\ SubSeq(h, 1, n) = Append(SubSeq(h, 1, n - 1), h[n])
         /\ SubSeq(h, 1, n) = SubSeq(h, 1, n - 1) \o <<h[n]>>
<1> DEFINE a == SubSeq(h, 1, n - 1)
           b == SubSeq(h, 1, n)
<1>1. /\ a \in Seq(T) /\ Len(a) = n - 1 /\ \A i \in 1..n - 1 : a[i] = h[i]
      /\ b \in Seq(T) /\ Len(b) = n /\ \A i \in 1..n : b[i] = h[i]
      /\ h[n] \in T /\ n \in Nat /\ n - 1 \in Nat
  OBVIOUS
<1> HIDE DEF a, b
<1>2. b = Append(a, h[n])
  BY <1>1
<1>3. Append(a, h[n]) = a \o <<h[n]>>
  BY <1>1, AppendIsConcat
<1>. QED
  BY <1>1, <1>2, <1>3 DEF a, b

\* Repairing a history that only lacks answers at its end adds placeholders there.
LEMMA RepairAdds ==
  ASSUME NEW h \in History, Partly(h)
  PROVE  \E p : Owed(h, Len(h), p) /\ Repair(h) = h \o Stubs(p)
<1>1. Len(h) \in Nat /\ DOMAIN h = 1..Len(h) /\ h \in Seq(StoredMessage)
  BY DEF History
<1>2. PICK f : /\ f[0] = Fresh0
               /\ \A n \in 1..Len(h) : f[n] = RepairStep(f[n - 1], h[n])
               /\ FoldLeft(RepairStep, Fresh0, h) = f[Len(h)]
  BY <1>1, RepairedStepwise
<1> DEFINE Good(n) == f[n].out = SubSeq(h, 1, n) /\ Owed(h, n, f[n].pending)
           Bad == {n \in 0..Len(h) : ~Good(n)}
<1>3. Good(0)
  <2>1. f[0].out = <<>> /\ f[0].pending = <<>>
    BY <1>2 DEF Fresh0
  <2>2. SubSeq(h, 1, 0) = <<>>
    BY <1>1
  <2>3. Owed(h, 0, <<>>)
    BY DEF Owed
  <2>. QED
    BY <2>1, <2>2, <2>3
<1>4. ASSUME NEW n \in 1..Len(h), Good(n - 1)
      PROVE  Good(n)
  <2> DEFINE acc == f[n - 1]
             p == f[n - 1].pending
  <2>1. /\ acc.out = SubSeq(h, 1, n - 1) /\ Owed(h, n - 1, p)
        /\ f[n] = RepairStep(acc, h[n])
        /\ SubSeq(h, 1, n) = Append(SubSeq(h, 1, n - 1), h[n])
    BY <1>1, <1>2, <1>4, FirstGrow
  <2>2. n - 1 \in 0..Len(h) - 1 /\ (n - 1) + 1 = n /\ n \in 1..Len(h)
    BY <1>1
  <2>3. CASE h[n].role = "tool"
    <3>1. f[n].out = Append(acc.out, h[n]) /\ f[n].pending = RemoveFirst(p, h[n].ids[1])
      BY <2>1, <2>3 DEF RepairStep
    <3>2. n - 1 \in 1..Len(h) - 1
      <4>1. n # 1
        BY <1>1, <2>3 DEF Partly
      <4>. QED
        BY <1>1, <4>1
    <3>3. Owed(h, (n - 1) + 1, RemoveFirst(p, h[(n - 1) + 1].ids[1]))
      BY <2>1, <2>2, <2>3, <3>2, OwedTool
    <3>. QED
      BY <2>1, <2>2, <3>1, <3>3
  <2>4. CASE h[n].role # "tool"
    <3>1. p = <<>> /\ Owed(h, (n - 1) + 1, h[(n - 1) + 1].ids)
      BY <2>1, <2>2, <2>4, OwedNext
    <3>2. f[n].out = Append(acc.out \o Stubs(p), h[n]) /\ f[n].pending = h[n].ids
      BY <2>1, <2>4 DEF RepairStep
    <3>3. Stubs(p) = <<>>
      BY <3>1 DEF Stubs
    <3>4. acc.out \o <<>> = acc.out
      <4>1. acc.out \in Seq(StoredMessage)
        BY <1>1, <2>1, FirstGrow
      <4> HIDE DEF acc
      <4>. QED
        BY <4>1
    <3>. QED
      BY <2>1, <2>2, <3>1, <3>2, <3>3, <3>4
  <2>. QED
    BY <2>3, <2>4
<1>5. Bad = {}
  <2> HIDE DEF Good
  <2> SUFFICES ASSUME Bad # {} PROVE FALSE
    OBVIOUS
  <2>1. Bad \in SUBSET Nat
    OBVIOUS
  <2>2. PICK n \in Bad : \A y \in Bad : n <= y
    BY <2>1, FirstIsOne
  <2>3. n \in 1..Len(h) /\ n - 1 \in 0..Len(h) /\ ~(n <= n - 1) /\ ~Good(n)
    BY <1>1, <1>3, <2>2
  <2>4. Good(n - 1)
    BY <2>2, <2>3
  <2>. QED
    BY <1>4, <2>3, <2>4
<1>6. f[Len(h)].out = SubSeq(h, 1, Len(h)) /\ Owed(h, Len(h), f[Len(h)].pending)
  <2>1. Good(Len(h))
    <3> HIDE DEF Good
    <3>. QED
      BY <1>1, <1>5
  <2>. QED
    BY <2>1
<1>7. SubSeq(h, 1, Len(h)) = h
  BY <1>1
<1>8. Repair(h) = f[Len(h)].out \o Stubs(f[Len(h)].pending)
  BY <1>2 DEF Repair, Fresh0
<1>. QED
  BY <1>6, <1>7, <1>8
\* With the placeholders that are owed a history is complete.
LEMMA OwedStubs ==
  ASSUME NEW h \in History, Partly(h), NEW p, Owed(h, Len(h), p)
  PROVE  LET r == h \o Stubs(p) IN
         /\ r \in History /\ Partly(r) /\ Complete(r)
         /\ Complete(h) => p = <<>>
<1> DEFINE r == h \o Stubs(p)
           L == Len(h)
<1>1. p \in Seq(CallId) /\ Len(p) \in Nat /\ L \in Nat /\ h \in Seq(StoredMessage)
  BY DEF Owed, History
<1>2. /\ Stubs(p) \in Seq(StoredMessage) /\ Len(Stubs(p)) = Len(p)
      /\ \A i \in 1..Len(p) : Stubs(p)[i] = Stub(p[i])
  BY <1>1, StubsAre DEF History
<1>3. /\ r \in Seq(StoredMessage) /\ Len(r) = L + Len(p)
      /\ \A i \in 1..L : r[i] = h[i]
      /\ \A i \in 1..Len(p) : r[L + i] = Stub(p[i])
  <2> DEFINE q == Stubs(p)
  <2> HIDE DEF q
  <2>1. /\ h \o q \in Seq(StoredMessage) /\ Len(h \o q) = L + Len(q)
        /\ \A i \in 1..L : (h \o q)[i] = h[i]
        /\ \A i \in 1..Len(q) : (h \o q)[L + i] = q[i]
    BY <1>1, <1>2 DEF q
  <2>. QED
    BY <1>2, <2>1 DEF q
<1> HIDE DEF r, L
<1>4. \A i \in 1..Len(p) : r[L + i].role = "tool" /\ r[L + i].ids[1] = p[i]
  <2>1. \A c : Stub(c).role = "tool" /\ Stub(c).ids[1] = c
    BY DEF Stub, Message
  <2>. QED
    BY <1>3, <2>1
<1>5. CASE L = 0
  <2>1. p = <<>>
    BY <1>5 DEF Owed, L
  <2>2. Len(p) = 0 /\ Len(r) = 0
    BY <1>3, <1>5, <2>1
  <2>3. r = <<>>
    BY <1>1, <1>3, <2>2
  <2>. QED
    BY <1>3, <2>1, <2>2, <2>3 DEF History, Partly, Complete, r
<1>6. CASE L # 0
  <2>1. PICK k \in 1..L : \E f, b \in Perms(Len(h[k].ids)) :
           /\ h[k].role # "tool" /\ BlockAt(h, k, f)
           /\ L - k <= Len(h[k].ids) /\ Len(p) = Len(h[k].ids) - (L - k)
           /\ \A j \in 1..L - k : b[j] = f[j]
           /\ \A i \in 1..Len(p) : p[i] = h[k].ids[b[L - k + i]]
    BY <1>6 DEF Owed, L
  <2> DEFINE n == Len(h[k].ids)
             a == L - k
  <2>2. PICK f \in Perms(n), b \in Perms(n) :
           /\ h[k].role # "tool" /\ BlockAt(h, k, f)
           /\ a <= n /\ Len(p) = n - a
           /\ \A j \in 1..a : b[j] = f[j]
           /\ \A i \in 1..Len(p) : p[i] = h[k].ids[b[a + i]]
    BY <2>1
  <2>3. n \in Nat /\ a \in Nat /\ k \in Nat /\ k \in 1..L /\ L = k + a
    <3>1. k \in 1..Len(h)
      BY DEF L
    <3>2. Len(h[k].ids) \in Nat
      BY <3>1, MessageOf
    <3>. QED
      BY <1>1, <3>2
  <2>4. h[k].role = r[k].role /\ h[k].ids = r[k].ids /\ r[k].role # "tool"
    BY <1>3, <2>2
  <2> HIDE DEF n, a
  <2>5. BlockAt(r, k, b) /\ k + n = Len(r)
    <3>1. ASSUME NEW j \in 1..n
          PROVE  r[k + j].role = "tool" /\ r[k + j].ids[1] = r[k].ids[b[j]]
      <4>1. CASE j <= a
        <5>1. k + j \in 1..L /\ k + j <= Len(h) /\ j \in 1..a /\ j \in 1..Len(h[k].ids)
          BY <2>3, <4>1 DEF n, L
        <5>2. h[k + j].role = "tool" /\ h[k + j].ids[1] = h[k].ids[f[j]]
          BY <2>2, <5>1 DEF BlockAt
        <5>3. b[j] = f[j] /\ r[k + j] = h[k + j]
          BY <1>3, <2>2, <5>1
        <5>. QED
          BY <2>4, <5>2, <5>3
      <4>2. CASE j > a
        <5>1. j - a \in 1..Len(p) /\ L + (j - a) = k + j /\ a + (j - a) = j
          BY <2>2, <2>3, <4>2
        <5>2. r[L + (j - a)].role = "tool" /\ r[L + (j - a)].ids[1] = p[j - a] /\ p[j - a] = h[k].ids[b[a + (j - a)]]
          BY <1>4, <2>2, <5>1
        <5>. QED
          BY <2>4, <5>1, <5>2
      <4>. QED
        BY <2>3, <4>1, <4>2
    <3>2. k + n = Len(r)
      BY <1>3, <2>2, <2>3
    <3>3. n = Len(r[k].ids) /\ ~(k + n < Len(r))
      BY <1>3, <2>3, <2>4, <3>2 DEF n
    <3>. QED
      BY <3>1, <3>2, <3>3 DEF BlockAt
  <2>6. ASSUME NEW i \in 1..Len(r), r[i].role # "tool"
        PROVE  i \in 1..k /\ h[i] = r[i] /\ h[i].role # "tool" /\ (i # k => i + Len(h[i].ids) < k)
    <3>1. i \in 1..L
      <4>1. CASE i > L
        <5>1. i - L \in 1..Len(p) /\ L + (i - L) = i
          BY <1>1, <1>3, <4>1
        <5>. QED
          BY <1>4, <2>6, <5>1
      <4>. QED
        BY <1>1, <4>1
    <3>2. h[i] = r[i] /\ h[i].role # "tool"
      BY <1>3, <2>6, <3>1
    <3>3. k \in 1..Len(h) /\ i \in 1..Len(h)
      BY <2>3, <3>1 DEF L
    <3>4. CASE i > k
      <4>1. k + n < i
        BY <2>2, <3>2, <3>3, <3>4, BlockEnds DEF n
      <4>. QED
        BY <2>2, <2>3, <3>1, <4>1
    <3>5. CASE i < k
      <4>1. PICK g \in Perms(Len(h[i].ids)) : BlockAt(h, i, g)
        BY <3>2, <3>3 DEF Partly
      <4>2. i + Len(h[i].ids) < k
        BY <2>2, <3>3, <3>5, <4>1, BlockEnds
      <4>. QED
        BY <3>2, <3>1, <2>3, <3>5, <4>2
    <3>. QED
      BY <2>3, <3>1, <3>2, <3>4, <3>5
  <2>7. Complete(r)
    <3> SUFFICES ASSUME NEW i \in 1..Len(r), r[i].role # "tool" PROVE i + Len(r[i].ids) <= Len(r)
      BY DEF Complete
    <3>1. i \in 1..k /\ h[i] = r[i] /\ (i # k => i + Len(h[i].ids) < k)
      BY <2>6
    <3>2. k <= Len(r) /\ Len(r) \in Nat
      BY <1>1, <1>3, <2>3
    <3>3. Len(h[i].ids) \in Nat
      <4>1. i \in 1..Len(h)
        BY <2>3, <3>1 DEF L
      <4>. QED
        BY <4>1, MessageOf
    <3>. QED
      BY <2>3, <2>5, <3>1, <3>2, <3>3 DEF n
  <2>8. Partly(r)
    <3>1. ASSUME NEW i \in 1..Len(r), r[i].role # "tool" PROVE \E g \in Perms(Len(r[i].ids)) : BlockAt(r, i, g)
      <4>1. i \in 1..k /\ h[i] = r[i] /\ h[i].role # "tool" /\ (i # k => i + Len(h[i].ids) < k)
        BY <2>6, <3>1
      <4>2. CASE i = k
        BY <2>2, <2>4, <2>5, <4>2 DEF n
      <4>3. CASE i # k
        <5>1. i \in 1..Len(h) /\ i + Len(h[i].ids) < k
          BY <2>3, <4>1, <4>3 DEF L
        <5>2. PICK g \in Perms(Len(h[i].ids)) : BlockAt(h, i, g)
          BY <4>1, <5>1 DEF Partly
        <5>3. Len(h[i].ids) \in Nat
          BY <5>1, MessageOf
        <5>4. ASSUME NEW j \in 1..Len(r[i].ids) + 1
              PROVE  h[i + j] = r[i + j] /\ i + j <= Len(h)
          <6>1. i + j \in 1..L
            BY <2>3, <4>1, <5>1, <5>3
          <6>. QED
            BY <1>1, <1>3, <6>1 DEF L
        <5>5. ASSUME NEW j \in 1..Len(r[i].ids)
              PROVE  r[i + j].role = "tool" /\ r[i + j].ids[1] = r[i].ids[g[j]]
          <6>1. j \in 1..Len(r[i].ids) + 1 /\ j \in 1..Len(h[i].ids)
            BY <4>1, <5>3
          <6>2. h[i + j] = r[i + j] /\ i + j <= Len(h)
            BY <5>4, <6>1
          <6>. QED
            BY <4>1, <5>2, <6>1, <6>2 DEF BlockAt
        <5>6. r[i + Len(r[i].ids) + 1].role # "tool"
          <6>1. Len(r[i].ids) + 1 \in 1..Len(r[i].ids) + 1 /\ i + (Len(r[i].ids) + 1) = i + Len(r[i].ids) + 1
            BY <4>1, <5>3
          <6>2. h[i + Len(r[i].ids) + 1] = r[i + Len(r[i].ids) + 1]
            BY <5>4, <6>1
          <6>3. i + Len(h[i].ids) < Len(h)
            BY <2>3, <5>1, <5>3 DEF L
          <6>. QED
            BY <4>1, <5>2, <6>2, <6>3 DEF BlockAt
        <5>7. BlockAt(r, i, g)
          BY <5>5, <5>6 DEF BlockAt
        <5>. QED
          BY <4>1, <5>2, <5>7
      <4>. QED
        BY <4>2, <4>3
    <3>2. r[1].role # "tool"
      <4>1. h # <<>> /\ 1 \in 1..L
        BY <1>1, <1>6 DEF L
      <4>. QED
        BY <1>3, <4>1 DEF Partly
    <3>. QED
      BY <3>1, <3>2 DEF Partly
  <2>9. Complete(h) => p = <<>>
    <3> SUFFICES ASSUME Complete(h) PROVE p = <<>>
      OBVIOUS
    <3>1. k + n <= L
      BY <2>2, <2>3 DEF Complete, n, L
    <3>2. Len(p) = 0
      BY <1>1, <2>2, <2>3, <3>1
    <3>. QED
      BY <1>1, <3>2, EmptySeq
  <2>. QED
    BY <1>3, <2>7, <2>8, <2>9 DEF History, r
<1>. QED
  BY <1>1, <1>5, <1>6

\* The beginning of a history that only lacks answers at its end only lacks answers at its end.
LEMMA BeginningHolds ==
  ASSUME NEW r \in History, Partly(r), NEW h \in History, Len(h) <= Len(r), \A i \in 1..Len(h) : h[i] = r[i]
  PROVE  Partly(h)
<1>1. Len(h) \in Nat /\ Len(r) \in Nat
  BY DEF History
<1>2. ASSUME NEW k \in 1..Len(h), h[k].role # "tool" PROVE \E f \in Perms(Len(h[k].ids)) : BlockAt(h, k, f)
  <2>1. k \in 1..Len(r) /\ r[k] = h[k] /\ Len(h[k].ids) \in Nat
    BY <1>1, MessageOf
  <2>2. PICK f \in Perms(Len(h[k].ids)) : BlockAt(r, k, f)
    BY <1>2, <2>1 DEF Partly
  <2> DEFINE n == Len(h[k].ids)
  <2>3. ASSUME NEW j \in 1..n, k + j <= Len(h)
        PROVE  h[k + j].role = "tool" /\ h[k + j].ids[1] = h[k].ids[f[j]]
    <3>1. k + j <= Len(r) /\ k + j \in 1..Len(h)
      BY <1>1, <2>1, <2>3
    <3>. QED
      BY <2>1, <2>2, <3>1 DEF BlockAt
  <2>4. k + n < Len(h) => h[k + n + 1].role # "tool"
    <3> SUFFICES ASSUME k + n < Len(h) PROVE h[k + n + 1].role # "tool"
      OBVIOUS
    <3>1. k + n < Len(r) /\ k + n + 1 \in 1..Len(h)
      BY <1>1, <2>1
    <3>. QED
      BY <2>1, <2>2, <3>1 DEF BlockAt
  <2>5. BlockAt(h, k, f)
    BY <2>3, <2>4 DEF BlockAt
  <2>. QED
    BY <2>2, <2>5
<1>3. h # <<>> => h[1].role # "tool"
  <2> SUFFICES ASSUME h # <<>> PROVE h[1].role # "tool"
    OBVIOUS
  <2>1. 1 \in 1..Len(h) /\ 1 \in 1..Len(r)
    BY <1>1 DEF History
  <2>2. r # <<>>
    BY <1>1, <2>1
  <2>. QED
    BY <2>1, <2>2 DEF Partly
<1>. QED
  BY <1>2, <1>3 DEF Partly
\* What a repair of a history that only lacks answers at its end gives.
LEMMA RepairIs ==
  ASSUME NEW h \in History, Partly(h)
  PROVE  LET r == Repair(h) IN
         /\ \E p \in Seq(CallId) : r = h \o Stubs(p)
         /\ r \in History /\ Partly(r) /\ Complete(r)
         /\ Complete(h) => r = h
<1>1. PICK p : Owed(h, Len(h), p) /\ Repair(h) = h \o Stubs(p)
  BY RepairAdds
<1>2. p \in Seq(CallId)
  BY <1>1 DEF Owed
<1>3. /\ Repair(h) \in History /\ Partly(Repair(h)) /\ Complete(Repair(h))
      /\ Complete(h) => p = <<>>
  BY <1>1, OwedStubs
<1>4. Complete(h) => Repair(h) = h
  <2> SUFFICES ASSUME Complete(h) PROVE Repair(h) = h
    OBVIOUS
  <2>1. Stubs(p) = <<>>
    BY <1>3 DEF Stubs
  <2>2. h \o <<>> = h
    BY DEF History
  <2>. QED
    BY <1>1, <2>1, <2>2
<1>. QED
  BY <1>1, <1>2, <1>3, <1>4

\* Such a repair is sound.
LEMMA RepairFine ==
  ASSUME NEW h \in History, Partly(h)
  PROVE  /\ Paired(Repair(h)) /\ Repair(Repair(h)) = Repair(h)
         /\ Those(Repair(h), Real) = Those(h, Real)
<1>1. PICK p \in Seq(CallId) : Repair(h) = h \o Stubs(p)
  BY RepairIs
<1>2. Repair(h) \in History /\ Partly(Repair(h)) /\ Complete(Repair(h))
  BY RepairIs
<1>3. Paired(Repair(h))
  BY <1>2, PairedIs
<1>4. Repair(Repair(h)) = Repair(h)
  BY <1>2, RepairIs
<1>5. Those(Repair(h), Real) = Those(h, Real)
  <2>1. Stubs(p) \in Seq(StoredMessage) /\ Those(Stubs(p), Real) = <<>> /\ h \in Seq(StoredMessage)
    BY <1>1, StubsAre DEF History
  <2>2. Joined(Repair(h), h, Stubs(p))
    BY <1>1 DEF Joined
  <2>. QED
    BY <2>1, <2>2, ThoseMore
<1>. QED
  BY <1>3, <1>4, <1>5

\* One message that a repair adds.
LEMMA LoadOne ==
  ASSUME NEW h \in History, Partly(h), Repair(h) # h
  PROVE  Append(h, Repair(h)[Len(h) + 1]) \in History /\ Partly(Append(h, Repair(h)[Len(h) + 1]))
<1> DEFINE r == Repair(h)
           L == Len(h)
<1>1. PICK p \in Seq(CallId) : r = h \o Stubs(p)
  BY RepairIs
<1>2. r \in History /\ Partly(r)
  BY RepairIs
<1>3. Stubs(p) \in Seq(StoredMessage) /\ h \in Seq(StoredMessage) /\ r \in Seq(StoredMessage) /\ r # h
  BY <1>1, <1>2, StubsAre DEF History
<1> HIDE DEF r
<1>4. Len(r) > L /\ L \in Nat /\ Len(r) \in Nat /\ \A i \in 1..L : r[i] = h[i]
  <2> DEFINE q == Stubs(p)
  <2> HIDE DEF q
  <2>1. q \in Seq(StoredMessage) /\ r = h \o q
    BY <1>1, <1>3 DEF q
  <2>2. q # <<>>
    BY <1>3, <2>1
  <2>3. Len(q) > 0
    BY <2>1, <2>2
  <2>. QED
    BY <1>3, <2>1, <2>3
<1>5. L + 1 \in 1..Len(r) /\ r[L + 1] \in StoredMessage
  BY <1>3, <1>4
<1> DEFINE x == r[L + 1]
           a == Append(h, x)
<1>6. /\ a \in Seq(StoredMessage) /\ Len(a) = L + 1 /\ a[L + 1] = x
      /\ \A i \in 1..L : a[i] = h[i]
  <2> HIDE DEF x
  <2>1. x \in StoredMessage
    BY <1>5 DEF x
  <2>. QED
    BY <1>3, <2>1
<1> HIDE DEF a
<1>7. \A i \in 1..Len(a) : a[i] = r[i]
  <2>1. \A i \in 1..Len(a) : i \in 1..L \/ i = L + 1
    BY <1>4, <1>6
  <2>. QED
    BY <1>4, <1>6, <2>1
<1>8. Partly(a)
  BY <1>2, <1>4, <1>6, <1>7, BeginningHolds DEF History
<1>. QED
  BY <1>6, <1>8 DEF a, x, r, History

\* One message more after the same messages of a kind.
LEMMA SameMore ==
  ASSUME NEW T, NEW a \in Seq(T), NEW b \in Seq(T), NEW m \in T, NEW c, NEW d, NEW S,
         OneMore(c, a, m), OneMore(d, b, m), Those(a, S) = Those(b, S)
  PROVE  Those(c, S) = Those(d, S)
<1>1. /\ m \in S => OneMore(Those(c, S), Those(a, S), m)
      /\ m \notin S => Those(c, S) = Those(a, S)
  BY ThoseAppended
<1>2. /\ m \in S => OneMore(Those(d, S), Those(b, S), m)
      /\ m \notin S => Those(d, S) = Those(b, S)
  BY ThoseAppended
<1>. QED
  BY <1>1, <1>2 DEF OneMore

\* A repair of any history is one, with the same messages of the user's.
LEMMA RepairTyped ==
  ASSUME NEW h \in History, NEW x \in Spoken
  PROVE  Repair(h) \in History /\ Those(Repair(h), {x}) = Those(h, {x})
<1>1. Len(h) \in Nat /\ DOMAIN h = 1..Len(h) /\ h \in Seq(StoredMessage)
  BY DEF History
<1>2. PICK f : /\ f[0] = Fresh0
               /\ \A n \in 1..Len(h) : f[n] = RepairStep(f[n - 1], h[n])
               /\ FoldLeft(RepairStep, Fresh0, h) = f[Len(h)]
  BY <1>1, RepairedStepwise
<1> DEFINE U == {x}
           Good(n) == /\ f[n].out \in Seq(StoredMessage) /\ f[n].pending \in Seq(CallId)
                      /\ Those(f[n].out, U) = Those(SubSeq(h, 1, n), U)
           Bad == {n \in 0..Len(h) : ~Good(n)}
<1>s. \A p \in Seq(CallId) : Stubs(p) \in Seq(StoredMessage) /\ Those(Stubs(p), U) = <<>>
  BY StubsAre DEF History
<1> HIDE DEF U
<1>3. Good(0)
  <2>1. f[0].out = <<>> /\ f[0].pending = <<>>
    BY <1>2 DEF Fresh0
  <2>2. SubSeq(h, 1, 0) = <<>>
    BY <1>1
  <2>3. <<>> \in Seq(StoredMessage) /\ <<>> \in Seq(CallId)
    OBVIOUS
  <2>. QED
    BY <2>1, <2>2, <2>3
<1>4. ASSUME NEW n \in 1..Len(h), Good(n - 1)
      PROVE  Good(n)
  <2> DEFINE o == f[n - 1].out
             p == f[n - 1].pending
             b == SubSeq(h, 1, n - 1)
             c == SubSeq(h, 1, n)
             m == h[n]
  <2>1. /\ o \in Seq(StoredMessage) /\ p \in Seq(CallId) /\ Those(o, U) = Those(b, U)
        /\ b \in Seq(StoredMessage) /\ c = Append(b, m)
    BY <1>1, <1>4, FirstGrow
  <2>a. m \in StoredMessage /\ m.ids \in Seq(CallId) /\ (m.role = "tool" => m.ids[1] \in CallId)
    BY MessageOf
  <2>2. f[n] = RepairStep(f[n - 1], m)
    BY <1>2
  <2>b. OneMore(c, b, m)
    BY <2>1 DEF OneMore
  <2>3. CASE m.role = "tool"
    <3>1. f[n].out = Append(o, m) /\ f[n].pending = RemoveFirst(p, m.ids[1])
      BY <2>2, <2>3 DEF RepairStep
    <3> HIDE DEF o, p, b, m, c
    <3>2. RemoveFirst(p, m.ids[1]) \in Seq(CallId)
      <4>1. CASE \E i \in 1..Len(p) : p[i] = m.ids[1]
        BY <2>1, <4>1, RemoveFirstIs
      <4>2. CASE ~\E i \in 1..Len(p) : p[i] = m.ids[1]
        BY <2>1, <4>2 DEF RemoveFirst
      <4>. QED
        BY <4>1, <4>2
    <3>3. f[n].out \in Seq(StoredMessage) /\ OneMore(f[n].out, o, m)
      BY <2>1, <2>a, <3>1 DEF OneMore
    <3>4. Those(f[n].out, U) = Those(c, U)
      BY <2>1, <2>a, <2>b, <3>3, SameMore
    <3>. QED
      BY <3>1, <3>2, <3>3, <3>4 DEF c
  <2>4. CASE m.role # "tool"
    <3> DEFINE q == Stubs(p)
               d == o \o q
    <3>1. f[n].out = Append(d, m) /\ f[n].pending = m.ids
      <4>1. f[n] = [out |-> Append(d, m), pending |-> m.ids]
        BY <2>2, <2>4 DEF RepairStep
      <4> HIDE DEF d, m
      <4>. QED
        BY <4>1
    <3>2. q \in Seq(StoredMessage) /\ Those(q, U) = <<>>
      BY <1>s, <2>1
    <3> HIDE DEF o, p, b, m, c, q
    <3>3. d \in Seq(StoredMessage) /\ Joined(d, o, q)
      BY <2>1, <3>2 DEF Joined
    <3> HIDE DEF d
    <3>4. Those(d, U) = Those(b, U)
      BY <2>1, <3>2, <3>3, ThoseMore
    <3>5. f[n].out \in Seq(StoredMessage) /\ OneMore(f[n].out, d, m)
      BY <2>a, <3>1, <3>3 DEF OneMore
    <3>6. Those(f[n].out, U) = Those(c, U)
      BY <2>1, <2>a, <2>b, <3>3, <3>4, <3>5, SameMore
    <3>. QED
      BY <2>a, <3>1, <3>5, <3>6 DEF c
  <2>. QED
    BY <2>3, <2>4
<1>5. Bad = {}
  <2> HIDE DEF Good
  <2> SUFFICES ASSUME Bad # {} PROVE FALSE
    OBVIOUS
  <2>1. Bad \in SUBSET Nat
    OBVIOUS
  <2>2. PICK n \in Bad : \A y \in Bad : n <= y
    BY <2>1, FirstIsOne
  <2>3. n \in 1..Len(h) /\ n - 1 \in 0..Len(h) /\ ~(n <= n - 1) /\ ~Good(n)
    BY <1>1, <1>3, <2>2
  <2>4. Good(n - 1)
    BY <2>2, <2>3
  <2>. QED
    BY <1>4, <2>3, <2>4
<1>6. Good(Len(h))
  <2> HIDE DEF Good
  <2>. QED
    BY <1>1, <1>5
<1>7. SubSeq(h, 1, Len(h)) = h
  BY <1>1
<1> DEFINE o == f[Len(h)].out
           q == Stubs(f[Len(h)].pending)
<1>8. Repair(h) = o \o q
  BY <1>2 DEF Repair, Fresh0
<1>9. o \in Seq(StoredMessage) /\ q \in Seq(StoredMessage) /\ Those(q, U) = <<>> /\ Those(o, U) = Those(h, U)
  BY <1>6, <1>7, <1>s
<1> HIDE DEF o, q
<1>10. Repair(h) \in Seq(StoredMessage) /\ Joined(Repair(h), o, q)
  BY <1>8, <1>9 DEF Joined
<1>11. Those(Repair(h), U) = Those(h, U)
  BY <1>9, <1>10, ThoseMore
<1>. QED
  BY <1>10, <1>11 DEF History, U
-----------------------------------------------------------------------------
(* Messages that are appended *)

\* h ends with the message that makes the calls ids and with answers to those that are in A
Open(h, ids, A) ==
  \E k \in 1..Len(h) :
    /\ h[k].role = "assistant" /\ h[k].ids = ids
    /\ Len(h) <= k + Len(ids)
    /\ \E f \in Perms(Len(ids)) :
         BlockAt(h, k, f) /\ \A j \in 1..Len(ids) : k + j <= Len(h) <=> f[j] \in A

\* One message more.
LEMMA MoreIs ==
  ASSUME NEW h \in History, NEW m \in StoredMessage, NEW r, OneMore(r, h, m)
  PROVE  /\ r \in History /\ Len(h) \in Nat /\ Len(r) = Len(h) + 1 /\ r[Len(h) + 1] = m
         /\ \A i \in 1..Len(h) : r[i] = h[i]
BY DEF History, OneMore

\* A message that is no answer comes when all calls are answered.
LEMMA NewMessage ==
  ASSUME NEW h \in History, Partly(h), Complete(h), NEW m \in StoredMessage, m.role # "tool",
         NEW r, OneMore(r, h, m)
  PROVE  /\ r \in History /\ Partly(r)
         /\ m.ids = <<>> => Complete(r)
         /\ m.role = "assistant" => Open(r, m.ids, {})
<1> DEFINE L == Len(h)
<1>1. /\ r \in History /\ L \in Nat /\ Len(r) = L + 1 /\ r[L + 1] = m
      /\ \A i \in 1..L : r[i] = h[i]
  BY MoreIs
<1> HIDE DEF L
<1>2. ASSUME NEW k \in 1..L, r[k].role # "tool"
      PROVE  /\ k + Len(r[k].ids) <= L
             /\ \E f \in Perms(Len(r[k].ids)) : BlockAt(r, k, f)
  <2>1. k \in 1..Len(h) /\ r[k] = h[k] /\ Len(h[k].ids) \in Nat
    BY <1>1, MessageOf DEF L
  <2> DEFINE n == Len(h[k].ids)
  <2>2. k + n <= L
    BY <1>2, <2>1 DEF Complete, L
  <2>3. PICK f \in Perms(n) : BlockAt(h, k, f)
    BY <1>2, <2>1 DEF Partly
  <2>4. ASSUME NEW j \in 1..n
        PROVE  r[k + j].role = "tool" /\ r[k + j].ids[1] = r[k].ids[f[j]]
    <3>1. k + j <= Len(h) /\ k + j \in 1..L
      BY <1>1, <2>1, <2>2 DEF L
    <3>2. h[k + j].role = "tool" /\ h[k + j].ids[1] = h[k].ids[f[j]]
      BY <2>3, <3>1 DEF BlockAt
    <3>. QED
      BY <1>1, <2>1, <3>1, <3>2
  <2>5. r[k + n + 1].role # "tool"
    <3>1. CASE k + n = L
      BY <1>1, <3>1
    <3>2. CASE k + n < L
      <4>1. h[k + n + 1].role # "tool" /\ k + n + 1 \in 1..L
        BY <1>1, <2>1, <2>3, <3>2 DEF BlockAt, L
      <4>. QED
        BY <1>1, <4>1
    <3>. QED
      BY <1>1, <2>1, <2>2, <3>1, <3>2
  <2>6. BlockAt(r, k, f)
    BY <2>1, <2>4, <2>5 DEF BlockAt
  <2>. QED
    BY <2>1, <2>2, <2>3, <2>6
<1> DEFINE n == Len(m.ids)
           id == [i \in 1..n |-> i]
<1>3. n \in Nat
  BY DEF StoredMessage
<1>4. id \in Perms(n)
  BY <1>3, SameOrder
<1> HIDE DEF n, id
<1>5. BlockAt(r, L + 1, id)
  <2>1. \A j \in 1..n : ~((L + 1) + j <= Len(r))
    BY <1>1, <1>3
  <2>2. ~((L + 1) + n < Len(r))
    BY <1>1, <1>3
  <2>. QED
    BY <1>1, <2>1, <2>2 DEF BlockAt, n
<1>6. L + 1 \in 1..Len(r) /\ \A k \in 1..Len(r) : k \in 1..L \/ k = L + 1
  BY <1>1
<1>7. \A k \in 1..Len(r) : r[k].role # "tool" => \E f \in Perms(Len(r[k].ids)) : BlockAt(r, k, f)
  BY <1>1, <1>2, <1>4, <1>5, <1>6 DEF n
<1>8. r[1].role # "tool"
  <2>1. CASE L = 0
    BY <1>1, <2>1
  <2>2. CASE L # 0
    <3>1. h # <<>> /\ 1 \in 1..L
      BY <1>1, <2>2 DEF L
    <3>. QED
      BY <1>1, <3>1 DEF Partly
  <2>. QED
    BY <2>1, <2>2
<1>9. Partly(r)
  BY <1>7, <1>8 DEF Partly
<1>10. m.ids = <<>> => Complete(r)
  <2> SUFFICES ASSUME m.ids = <<>>, NEW k \in 1..Len(r), r[k].role # "tool" PROVE k + Len(r[k].ids) <= Len(r)
    BY DEF Complete
  <2>1. CASE k = L + 1
    <3>1. Len(r[k].ids) = 0
      <4>1. r[k].ids = <<>>
        BY <1>1, <2>1
      <4>. QED
        BY <4>1
    <3> DEFINE e == Len(r[k].ids)
    <3>2. e = 0
      BY <3>1
    <3> HIDE DEF e
    <3>3. k + e <= Len(r)
      BY <1>1, <2>1, <3>2
    <3>. QED
      BY <3>3 DEF e
  <2>2. CASE k \in 1..L
    <3>1. k + Len(r[k].ids) <= L
      BY <1>2, <2>2
    <3>2. Len(r[k].ids) \in Nat
      BY <1>1, MessageOf
    <3>. QED
      BY <1>1, <3>1, <3>2
  <2>. QED
    BY <1>6, <2>1, <2>2
<1>11. m.role = "assistant" => Open(r, m.ids, {})
  <2> SUFFICES ASSUME m.role = "assistant" PROVE Open(r, m.ids, {})
    OBVIOUS
  <2>1. \A j \in 1..n : (L + 1) + j <= Len(r) <=> id[j] \in {}
    BY <1>1, <1>3
  <2>2. Len(r) <= (L + 1) + n
    BY <1>1, <1>3
  <2>3. \E f \in Perms(n) : BlockAt(r, L + 1, f) /\ \A j \in 1..n : (L + 1) + j <= Len(r) <=> f[j] \in {}
    BY <1>4, <1>5, <2>1
  <2>. QED
    BY <1>1, <1>6, <2>2, <2>3 DEF Open, n
<1>. QED
  BY <1>1, <1>9, <1>10, <1>11

\* When all its calls are answered a history is complete.
LEMMA AllAnswered ==
  ASSUME NEW h \in History, Partly(h), NEW ids \in Seq(CallId), NEW A, Open(h, ids, A), 1..Len(ids) \subseteq A
  PROVE  Complete(h)
<1> DEFINE n == Len(ids)
<1>1. PICK k \in 1..Len(h) :
         /\ h[k].role = "assistant" /\ h[k].ids = ids
         /\ Len(h) <= k + n
         /\ \E f \in Perms(n) : BlockAt(h, k, f) /\ \A j \in 1..n : k + j <= Len(h) <=> f[j] \in A
  BY DEF Open
<1>2. PICK f \in Perms(n) : BlockAt(h, k, f) /\ \A j \in 1..n : k + j <= Len(h) <=> f[j] \in A
  BY <1>1
<1>3. Len(h) \in Nat /\ n \in Nat /\ k \in Nat
  BY DEF History
<1> HIDE DEF n
<1>4. k + n <= Len(h)
  <2>1. CASE n = 0
    BY <1>3, <2>1
  <2>2. CASE n # 0
    <3>1. n \in 1..n /\ f[n] \in 1..n
      BY <1>2, <1>3, <2>2 DEF Perms
    <3>. QED
      BY <1>2, <3>1 DEF n
  <2>. QED
    BY <2>1, <2>2
<1>5. ASSUME NEW i \in 1..Len(h), h[i].role # "tool" PROVE i + Len(h[i].ids) <= Len(h)
  <2>1. CASE i = k
    BY <1>1, <1>4, <2>1 DEF n
  <2>2. CASE i > k
    <3>1. k + Len(h[k].ids) < i
      BY <1>2, <1>5, <2>2, BlockEnds
    <3>. QED
      BY <1>1, <1>3, <3>1 DEF n
  <2>3. CASE i < k
    <3>1. PICK g \in Perms(Len(h[i].ids)) : BlockAt(h, i, g)
      BY <1>5 DEF Partly
    <3>2. i + Len(h[i].ids) < k
      BY <1>1, <2>3, <3>1, BlockEnds
    <3>3. Len(h[i].ids) \in Nat
      BY MessageOf
    <3>. QED
      BY <1>3, <3>2, <3>3
  <2>. QED
    BY <1>3, <2>1, <2>2, <2>3
<1>. QED
  BY <1>5 DEF Complete

\* Two places of an order change.
LEMMA Swapped ==
  ASSUME NEW n \in Nat, NEW f \in Perms(n), NEW x \in 1..n, NEW y \in 1..n
  PROVE  [j \in 1..n |-> IF j = x THEN f[y] ELSE IF j = y THEN f[x] ELSE f[j]] \in Perms(n)
<1> DEFINE g == [j \in 1..n |-> IF j = x THEN f[y] ELSE IF j = y THEN f[x] ELSE f[j]]
<1>1. /\ f \in [1..n -> 1..n] /\ (\A i, j \in 1..n : f[i] = f[j] => i = j)
      /\ \A i \in 1..n : \E j \in 1..n : f[j] = i
  BY DEF Perms
<1>2. g \in [1..n -> 1..n] /\ \A i, j \in 1..n : g[i] = g[j] => i = j
  BY <1>1
<1>3. ASSUME NEW i \in 1..n PROVE \E j \in 1..n : g[j] = i
  <2>1. PICK j \in 1..n : f[j] = i
    BY <1>1
  <2>2. CASE j = x
    BY <2>1, <2>2
  <2>3. CASE j = y
    BY <2>1, <2>3
  <2>4. CASE j # x /\ j # y
    BY <2>1, <2>4
  <2>. QED
    BY <2>2, <2>3, <2>4
<1> HIDE DEF g
<1>4. g \in Perms(n)
  BY <1>2, <1>3 DEF Perms
<1>. QED
  BY <1>4 DEF g

\* An answer comes to a call that has none.
LEMMA NewAnswer ==
  ASSUME NEW h \in History, Partly(h), NEW ids \in Seq(CallId), NEW A, Open(h, ids, A),
         NEW i \in 1..Len(ids), i \notin A, NEW m \in StoredMessage, m.role = "tool", m.ids[1] = ids[i],
         NEW r, OneMore(r, h, m)
  PROVE  r \in History /\ Partly(r) /\ Open(r, ids, A \cup {i})
<1> DEFINE n == Len(ids)
           L == Len(h)
<1>1. PICK k \in 1..Len(h) :
         /\ h[k].role = "assistant" /\ h[k].ids = ids
         /\ Len(h) <= k + n
         /\ \E f \in Perms(n) : BlockAt(h, k, f) /\ \A j \in 1..n : k + j <= Len(h) <=> f[j] \in A
  BY DEF Open
<1>2. PICK f \in Perms(n) : BlockAt(h, k, f) /\ \A j \in 1..n : k + j <= Len(h) <=> f[j] \in A
  BY <1>1
<1>3. /\ r \in History /\ L \in Nat /\ Len(r) = L + 1 /\ r[L + 1] = m
      /\ \A j \in 1..L : r[j] = h[j]
  BY MoreIs
<1>4. n \in Nat /\ k \in Nat /\ k \in 1..L /\ L <= k + n
  BY <1>1, <1>3
<1>b. \A j \in 1..n : k + j <= L => r[k + j].role = "tool" /\ r[k + j].ids[1] = ids[f[j]]
  <2> SUFFICES ASSUME NEW j \in 1..n, k + j <= L PROVE r[k + j].role = "tool" /\ r[k + j].ids[1] = ids[f[j]]
    OBVIOUS
  <2>1. h[k + j].role = "tool" /\ h[k + j].ids[1] = ids[f[j]]
    BY <1>1, <1>2 DEF BlockAt
  <2>2. k + j \in 1..L
    BY <1>4
  <2>. QED
    BY <1>3, <2>1, <2>2
<1>5. PICK y \in 1..n : f[y] = i
  BY <1>2 DEF Perms
<1>6. k + y > L
  BY <1>2, <1>4, <1>5
<1> DEFINE x == L + 1 - k
           g == [j \in 1..n |-> IF j = x THEN f[y] ELSE IF j = y THEN f[x] ELSE f[j]]
<1>7. x \in 1..n /\ x <= y /\ k + x = L + 1 /\ x \in Nat
  BY <1>3, <1>4, <1>6
<1> HIDE DEF n, L, x
<1>8. g \in Perms(n)
  BY <1>2, <1>4, <1>5, <1>7, Swapped
<1>9. /\ g[x] = i
      /\ \A j \in 1..n : j < x => g[j] = f[j]
      /\ \A j \in 1..n : j > x => \E v \in 1..n : v >= x /\ v # y /\ g[j] = f[v]
  <2>1. g[x] = i
    BY <1>5, <1>7
  <2>2. \A j \in 1..n : j < x => g[j] = f[j]
    BY <1>5, <1>7
  <2>3. ASSUME NEW j \in 1..n, j > x PROVE \E v \in 1..n : v >= x /\ v # y /\ g[j] = f[v]
    <3>1. CASE j = y
      BY <1>7, <2>3, <3>1
    <3>2. CASE j # y
      BY <1>7, <2>3, <3>2
    <3>. QED
      BY <3>1, <3>2
  <2>. QED
    BY <2>1, <2>2, <2>3
<1> HIDE DEF g
<1>10. BlockAt(r, k, g)
  <2>1. ASSUME NEW j \in 1..n, k + j <= Len(r)
        PROVE  r[k + j].role = "tool" /\ r[k + j].ids[1] = ids[g[j]]
    <3>1. CASE j = x
      BY <1>3, <1>7, <1>9, <3>1
    <3>2. CASE j # x
      <4>1. j < x /\ k + j <= L
        BY <1>3, <1>4, <1>7, <2>1, <3>2
      <4>. QED
        BY <1>b, <1>9, <4>1
    <3>. QED
      BY <3>1, <3>2
  <2>2. ~(k + n < Len(r))
    BY <1>3, <1>4, <1>7
  <2>3. r[k].ids = ids
    BY <1>1, <1>3, <1>4
  <2>. QED
    BY <2>1, <2>2, <2>3 DEF BlockAt, n
<1>11. \A j \in 1..n : k + j <= Len(r) <=> g[j] \in A \cup {i}
  <2> SUFFICES ASSUME NEW j \in 1..n PROVE k + j <= Len(r) <=> g[j] \in A \cup {i}
    OBVIOUS
  <2>1. CASE j = x
    BY <1>3, <1>7, <1>9, <2>1
  <2>2. CASE j < x
    <3>1. k + j <= L /\ k + j <= Len(r)
      BY <1>3, <1>4, <1>7, <2>2
    <3>. QED
      BY <1>2, <1>9, <2>2, <3>1 DEF L, n
  <2>3. CASE j > x
    <3>1. PICK v \in 1..n : v >= x /\ v # y /\ g[j] = f[v]
      BY <1>9, <2>3
    <3>2. ~(k + v <= L) /\ ~(k + j <= Len(r))
      BY <1>3, <1>4, <1>7, <2>3, <3>1
    <3>3. f[v] \notin A
      BY <1>2, <3>2 DEF L, n
    <3>4. f[v] # i
      BY <1>2, <1>5, <3>1 DEF Perms, n
    <3>. QED
      BY <3>1, <3>2, <3>3, <3>4
  <2>. QED
    BY <1>7, <2>1, <2>2, <2>3
<1>12. Open(r, ids, A \cup {i})
  <2>1. k \in 1..Len(r) /\ r[k].role = "assistant" /\ r[k].ids = ids /\ Len(r) <= k + Len(ids)
    BY <1>1, <1>3, <1>4, <1>7 DEF n
  <2>2. \E f1 \in Perms(Len(ids)) : BlockAt(r, k, f1) /\ \A j \in 1..Len(ids) : k + j <= Len(r) <=> f1[j] \in A \cup {i}
    BY <1>8, <1>10, <1>11 DEF n
  <2>. QED
    BY <2>1, <2>2 DEF Open
<1>13. ASSUME NEW q \in 1..Len(r), r[q].role # "tool" PROVE \E f1 \in Perms(Len(r[q].ids)) : BlockAt(r, q, f1)
  <2>1. q \in 1..L /\ h[q] = r[q]
    <3>1. q # L + 1
      BY <1>3, <1>13
    <3>. QED
      BY <1>3, <3>1
  <2>2. CASE q = k
    BY <1>1, <1>8, <1>10, <2>1, <2>2 DEF n
  <2>3. CASE q > k
    <3>1. k + Len(h[k].ids) < q
      BY <1>2, <1>13, <2>1, <2>3, BlockEnds DEF L
    <3>. QED
      BY <1>1, <1>3, <1>4, <1>7, <2>1, <3>1 DEF n
  <2>4. CASE q < k
    <3>1. PICK f1 \in Perms(Len(h[q].ids)) : BlockAt(h, q, f1)
      BY <1>13, <2>1 DEF Partly, L
    <3>2. q + Len(h[q].ids) < k /\ Len(h[q].ids) \in Nat
      BY <1>1, <2>1, <2>4, <3>1, BlockEnds, MessageOf DEF L
    <3>3. ASSUME NEW j \in 1..Len(h[q].ids) + 1
          PROVE  q + j \in 1..L /\ r[q + j] = h[q + j] /\ q + j <= Len(h)
      <4>1. q + j \in 1..L
        BY <1>3, <1>4, <2>1, <3>2
      <4>. QED
        BY <1>3, <4>1 DEF L
    <3>4. ASSUME NEW j \in 1..Len(r[q].ids)
          PROVE  r[q + j].role = "tool" /\ r[q + j].ids[1] = r[q].ids[f1[j]]
      <4>1. j \in 1..Len(h[q].ids) /\ j \in 1..Len(h[q].ids) + 1
        BY <2>1, <3>2
      <4>2. r[q + j] = h[q + j] /\ q + j <= Len(h)
        BY <3>3, <4>1
      <4>. QED
        BY <2>1, <3>1, <4>1, <4>2 DEF BlockAt
    <3>5. r[q + Len(r[q].ids) + 1].role # "tool"
      <4>1. /\ Len(h[q].ids) + 1 \in 1..Len(h[q].ids) + 1
            /\ q + (Len(h[q].ids) + 1) = q + Len(h[q].ids) + 1
            /\ q + Len(h[q].ids) < Len(h)
        <5> DEFINE e == Len(h[q].ids)
        <5>1. e \in Nat /\ q \in Nat /\ k \in Nat /\ L \in Nat /\ k <= L /\ q + e < k /\ L = Len(h)
          BY <1>3, <1>4, <2>1, <3>2 DEF L
        <5> HIDE DEF e
        <5>2. e + 1 \in 1..e + 1 /\ q + (e + 1) = q + e + 1 /\ q + e < L
          BY <5>1
        <5>. QED
          BY <5>1, <5>2 DEF e
      <4>2. r[q + Len(h[q].ids) + 1] = h[q + Len(h[q].ids) + 1]
        BY <3>3, <4>1
      <4>. QED
        BY <2>1, <3>1, <4>1, <4>2 DEF BlockAt
    <3>6. BlockAt(r, q, f1)
      BY <3>4, <3>5 DEF BlockAt
    <3>. QED
      BY <2>1, <3>1, <3>6
  <2>. QED
    BY <1>3, <1>4, <2>1, <2>2, <2>3, <2>4
<1>14. r[1].role # "tool"
  <2>1. 1 \in 1..L /\ h # <<>>
    BY <1>3, <1>4 DEF L
  <2>. QED
    BY <1>3, <2>1 DEF Partly
<1>. QED
  BY <1>3, <1>12, <1>13, <1>14 DEF Partly
-----------------------------------------------------------------------------
(* Compaction *)

\* A sequence of sequences is flattened piece by piece.
LEMMA Flattened ==
  ASSUME NEW q, Len(q) \in Nat, Len(q) # 0
  PROVE  \E f : /\ FlattenSeq(q) = f[Len(q)]
                /\ f[1] = q[1]
                /\ \A n \in 2..Len(q) : f[n] = f[n - 1] \o q[n]
<1> DEFINE Is(f, k) == f = [i \in 1..k |-> IF i = 1 THEN q[i] ELSE f[i - 1] \o q[i]]
           Bad == {k \in 1..Len(q) : ~\E f : Is(f, k)}
<1>1. \E f : Is(f, 1)
  <2>1. Is([i \in 1..1 |-> q[1]], 1)
    OBVIOUS
  <2>. QED
    BY <2>1
<1>2. ASSUME NEW k \in Nat, k # 0, NEW f, Is(f, k)
      PROVE  \E g : Is(g, k + 1)
  <2> DEFINE g == [i \in 1..k + 1 |-> IF i <= k THEN f[i] ELSE f[k] \o q[k + 1]]
  <2>1. \A i \in 1..k + 1 : g[i] = IF i = 1 THEN q[i] ELSE g[i - 1] \o q[i]
    <3>1. \A i \in 1..k : g[i] = f[i]
      OBVIOUS
    <3>2. \A i \in 1..k : f[i] = IF i = 1 THEN q[i] ELSE f[i - 1] \o q[i]
      BY <1>2
    <3>3. g[k + 1] = g[k] \o q[k + 1]
      <4>1. g[k] = f[k] /\ k + 1 \in 1..k + 1 /\ ~(k + 1 <= k)
        BY <1>2, <3>1
      <4>. QED
        BY <4>1
    <3> HIDE DEF g
    <3>4. ASSUME NEW i \in 1..k + 1
          PROVE  g[i] = IF i = 1 THEN q[i] ELSE g[i - 1] \o q[i]
      <4>1. CASE i = k + 1
        <5>1. i # 1 /\ i - 1 = k
          BY <1>2, <4>1
        <5>. QED
          BY <4>1, <5>1, <3>3
      <4>2. CASE i \in 1..k
        <5>1. i # 1 => g[i - 1] = f[i - 1]
          BY <4>2, <3>1
        <5>. QED
          BY <4>2, <5>1, <3>1, <3>2
      <4>. QED
        BY <4>1, <4>2
    <3>. QED
      BY <3>4
  <2>2. g = [i \in 1..k + 1 |-> g[i]]
    OBVIOUS
  <2> HIDE DEF g
  <2>3. Is(g, k + 1)
    BY <2>1, <2>2
  <2>. QED
    BY <2>3
<1>3. Bad = {}
  <2>1. ASSUME Bad # {}
        PROVE  FALSE
    <3>1. Bad \in SUBSET Nat
      <4> HIDE DEF Is
      <4>. QED
        OBVIOUS
    <3>2. PICK k \in Bad : \A y \in Bad : k <= y
      BY <2>1, <3>1, FirstIsOne
    <3>3. k # 1
      BY <1>1, <3>2
    <3>4. k \in 1..Len(q) /\ ~\E f : Is(f, k)
      BY <3>2
    <3>5. k - 1 \in 1..Len(q) /\ k - 1 \in Nat /\ k - 1 # 0 /\ (k - 1) + 1 = k /\ ~(k <= k - 1)
      BY <3>3, <3>4
    <3>6. k - 1 \notin Bad
      BY <3>2, <3>5
    <3> HIDE DEF Is
    <3>7. PICK f : Is(f, k - 1)
      BY <3>5, <3>6
    <3>8. \E g : Is(g, (k - 1) + 1)
      BY <3>5, <3>7, <1>2
    <3>. QED
      BY <3>8, <3>4, <3>5
  <2>. QED
    BY <2>1
<1>4. \E f : Is(f, Len(q))
  <2>1. Len(q) \in 1..Len(q)
    OBVIOUS
  <2>. QED
    BY <1>3, <2>1
<1> DEFINE f == CHOOSE f : Is(f, Len(q))
<1>5. Is(f, Len(q))
  BY <1>4
<1>6. FlattenSeq(q) = f[Len(q)]
  BY DEF FlattenSeq
<1>7. f[1] = q[1] /\ \A n \in 2..Len(q) : f[n] = f[n - 1] \o q[n]
  <2> HIDE DEF f
  <2>1. ASSUME NEW g, Is(g, Len(q)), NEW i \in 1..Len(q)
        PROVE  g[i] = IF i = 1 THEN q[i] ELSE g[i - 1] \o q[i]
    BY <2>1
  <2> HIDE DEF Is
  <2>2. f[1] = q[1]
    BY <2>1, <1>5
  <2>3. ASSUME NEW n \in 2..Len(q)
        PROVE  f[n] = f[n - 1] \o q[n]
    <3>1. n \in 1..Len(q) /\ n # 1
      OBVIOUS
    <3>. QED
      BY <3>1, <2>1, <1>5
  <2>. QED
    BY <2>2, <2>3
<1>. QED
  BY <1>6, <1>7

\* r is q flattened, up to its n-th piece, g says which piece each element comes from
Picks(q, r, g, n) ==
  /\ \A j \in 1..Len(r) : g[j] \in 1..n /\ q[g[j]] = <<r[j]>>
  /\ \A j, k \in 1..Len(r) : j < k => g[j] < g[k]
  /\ \A i \in 1..n : q[i] # <<>> => \E j \in 1..Len(r) : g[j] = i

\* One piece more.
LEMMA PickOne ==
  ASSUME NEW T, NEW q, NEW r \in Seq(T), NEW n \in Nat, NEW g, Picks(q, r, g, n),
         NEW p \in Seq(T), p = q[n + 1], Len(p) <= 1, NEW s, Joined(s, r, p)
  PROVE  s \in Seq(T) /\ \E b : Picks(q, s, b, n + 1)
<1>a. s = r \o p
  BY DEF Joined
<1>b. Len(r) \in Nat /\ Len(p) \in {0, 1}
  <2>1. Len(r) \in Nat /\ Len(p) \in Nat
    OBVIOUS
  <2>2. \A l \in Nat : l <= 1 => l \in {0, 1}
    OBVIOUS
  <2>. QED
    BY <2>1, <2>2
<1>c. r \o p \in Seq(T)
  OBVIOUS
<1>1. s \in Seq(T) /\ s = r \o p /\ Len(r) \in Nat /\ Len(p) \in {0, 1}
  BY <1>a, <1>b, <1>c
<1>2. CASE Len(p) = 0
  <2>1. p = <<>> /\ s = r
    BY <1>1, <1>2
  <2>2. \A i \in 1..n + 1 : i \in 1..n \/ i = n + 1
    OBVIOUS
  <2>3. Picks(q, s, g, n + 1)
    <3>1. q[n + 1] = <<>> /\ \A x \in 1..n : x \in 1..n + 1
      BY <2>1
    <3>2. \A j \in 1..Len(r) : g[j] \in 1..n + 1 /\ q[g[j]] = <<r[j]>>
      BY <3>1 DEF Picks
    <3>3. \A j, k \in 1..Len(r) : j < k => g[j] < g[k]
      BY DEF Picks
    <3>4. \A i \in 1..n + 1 : q[i] # <<>> => \E j \in 1..Len(r) : g[j] = i
      BY <2>2, <3>1 DEF Picks
    <3>. QED
      BY <2>1, <3>2, <3>3, <3>4 DEF Picks
  <2>. QED
    BY <1>1, <2>3
<1>3. CASE Len(p) = 1
  <2> DEFINE x == p[1]
             b == [j \in 1..Len(r) + 1 |-> IF j <= Len(r) THEN g[j] ELSE n + 1]
  <2>1. p = <<x>> /\ x \in T
    BY <1>3
  <2> HIDE DEF x
  <2>a. s = r \o <<x>>
    BY <1>a, <2>1
  <2>2. Len(s) = Len(r) + 1 /\ s[Len(r) + 1] = x /\ \A j \in 1..Len(r) : s[j] = r[j]
    BY <2>1, <2>a
  <2>b. \A j \in 1..Len(r) : g[j] \in 1..n /\ q[g[j]] = <<r[j]>>
    BY DEF Picks
  <2>3. b[Len(r) + 1] = n + 1 /\ \A j \in 1..Len(r) : b[j] = g[j]
    BY <1>b
  <2> HIDE DEF b
  <2>4. \A j \in 1..Len(s) : j \in 1..Len(r) \/ j = Len(r) + 1
    BY <1>1, <2>2
  <2>5. \A j \in 1..Len(s) : b[j] \in 1..n + 1 /\ q[b[j]] = <<s[j]>>
    <3> SUFFICES ASSUME NEW j \in 1..Len(s) PROVE b[j] \in 1..n + 1 /\ q[b[j]] = <<s[j]>>
      OBVIOUS
    <3>1. CASE j \in 1..Len(r)
      <4>1. b[j] = g[j] /\ s[j] = r[j] /\ g[j] \in 1..n /\ q[g[j]] = <<r[j]>>
        BY <2>2, <2>3, <2>b, <3>1
      <4>. QED
        BY <4>1
    <3>2. CASE j = Len(r) + 1
      <4>1. b[j] = n + 1 /\ s[j] = x /\ q[n + 1] = <<x>>
        BY <2>1, <2>2, <2>3, <3>2
      <4>. QED
        BY <4>1
    <3>. QED
      BY <2>4, <3>1, <3>2
  <2>6. \A j, k \in 1..Len(s) : j < k => b[j] < b[k]
    <3> SUFFICES ASSUME NEW j \in 1..Len(s), NEW k \in 1..Len(s), j < k PROVE b[j] < b[k]
      OBVIOUS
    <3>1. j \in 1..Len(r)
      BY <1>1, <2>2
    <3>2. CASE k \in 1..Len(r)
      BY <2>3, <3>1, <3>2 DEF Picks
    <3>3. CASE k = Len(r) + 1
      BY <2>3, <2>b, <3>1, <3>3
    <3>. QED
      BY <2>4, <3>2, <3>3
  <2>7. \A i \in 1..n + 1 : q[i] # <<>> => \E j \in 1..Len(s) : b[j] = i
    <3> SUFFICES ASSUME NEW i \in 1..n + 1, q[i] # <<>> PROVE \E j \in 1..Len(s) : b[j] = i
      OBVIOUS
    <3>1. CASE i \in 1..n
      <4>1. PICK j \in 1..Len(r) : g[j] = i
        BY <3>1 DEF Picks
      <4>2. j \in 1..Len(s) /\ b[j] = i
        BY <1>1, <2>2, <2>3, <4>1
      <4>. QED
        BY <4>2
    <3>2. CASE i = n + 1
      <4>1. Len(r) + 1 \in 1..Len(s)
        BY <1>1, <2>2
      <4>. QED
        BY <2>3, <3>2, <4>1
    <3>. QED
      BY <3>1, <3>2
  <2>8. Picks(q, s, b, n + 1)
    BY <2>5, <2>6, <2>7 DEF Picks
  <2>. QED
    BY <1>1, <2>8
<1>. QED
  BY <1>1, <1>2, <1>3

\* What is left of a sequence of pieces of one element or none.
LEMMA PicksAre ==
  ASSUME NEW T, NEW q \in Seq(Seq(T)), \A i \in 1..Len(q) : Len(q[i]) <= 1
  PROVE  FlattenSeq(q) \in Seq(T) /\ \E g : Picks(q, FlattenSeq(q), g, Len(q))
<1>1. Len(q) \in Nat /\ \A i \in 1..Len(q) : q[i] \in Seq(T)
  OBVIOUS
<1>e. <<>> \in Seq(T) /\ Picks(q, <<>>, <<>>, 0)
  BY DEF Picks
<1>2. CASE Len(q) = 0
  <2>1. q = <<>> /\ FlattenSeq(q) = <<>>
    BY <1>2 DEF FlattenSeq
  <2>. QED
    BY <1>2, <1>e, <2>1
<1>3. CASE Len(q) # 0
  <2>1. PICK f : /\ FlattenSeq(q) = f[Len(q)]
                 /\ f[1] = q[1]
                 /\ \A n \in 2..Len(q) : f[n] = f[n - 1] \o q[n]
    BY <1>1, <1>3, Flattened
  <2> DEFINE Good(n) == f[n] \in Seq(T) /\ \E g : Picks(q, f[n], g, n)
             Bad == {n \in 1..Len(q) : ~Good(n)}
  <2>2. Good(1)
    <3>1. q[1] \in Seq(T) /\ Len(q[1]) <= 1
      BY <1>1, <1>3
    <3>2. Joined(f[1], <<>>, q[1])
      BY <2>1, <3>1 DEF Joined
    <3>3. q[1] = q[0 + 1] /\ 0 + 1 = 1
      OBVIOUS
    <3>4. f[1] \in Seq(T) /\ \E b : Picks(q, f[1], b, 0 + 1)
      BY <1>e, <3>1, <3>2, <3>3, PickOne
    <3>. QED
      BY <3>3, <3>4
  <2>3. ASSUME NEW n \in 2..Len(q), Good(n - 1)
        PROVE  Good(n)
    <3>1. q[n] \in Seq(T) /\ Len(q[n]) <= 1 /\ n - 1 \in Nat /\ q[n] = q[(n - 1) + 1] /\ (n - 1) + 1 = n
      BY <1>1
    <3>2. Joined(f[n], f[n - 1], q[n])
      BY <2>1 DEF Joined
    <3>3. PICK g : Picks(q, f[n - 1], g, n - 1)
      BY <2>3
    <3>4. f[n - 1] \in Seq(T)
      BY <2>3
    <3>5. f[n] \in Seq(T) /\ \E b : Picks(q, f[n], b, (n - 1) + 1)
      BY <3>1, <3>2, <3>3, <3>4, PickOne
    <3>. QED
      BY <3>1, <3>5
  <2> HIDE DEF Good
  <2>4. Bad = {}
    <3> SUFFICES ASSUME Bad # {} PROVE FALSE
      OBVIOUS
    <3>1. Bad \in SUBSET Nat
      OBVIOUS
    <3>2. PICK n \in Bad : \A y \in Bad : n <= y
      BY <3>1, FirstIsOne
    <3>3. n \in 2..Len(q) /\ n - 1 \in 1..Len(q) /\ ~(n <= n - 1) /\ ~Good(n)
      BY <1>1, <2>2, <3>2
    <3>4. Good(n - 1)
      BY <3>2, <3>3
    <3>. QED
      BY <2>3, <3>3, <3>4
  <2>5. Good(Len(q))
    BY <1>1, <1>3, <2>4
  <2>. QED
    BY <2>1, <2>5 DEF Good
<1>. QED
  BY <1>1, <1>2, <1>3
\* k is the message whose calls the j-th message answers
HeadOf(h, j, k) ==
  /\ h[k].role = "assistant" /\ j <= k + Len(h[k].ids)
  /\ \A x \in k + 1..j : h[x].role = "tool"
  /\ \E v \in 1..Len(h[k].ids) : h[k].ids[v] = h[j].ids[1]

\* An answer belongs to the last message before it that is none.
LEMMA AnswersHead ==
  ASSUME NEW h \in History, Partly(h), NEW j \in 1..Len(h), h[j].role = "tool"
  PROVE  \E k \in 1..j - 1 : HeadOf(h, j, k)
<1> DEFINE D == {d \in 1..j - 1 : h[j - d].role # "tool"}
<1>1. Len(h) \in Nat /\ j \in Nat /\ j # 1 /\ h # <<>> /\ h[1].role # "tool"
  BY DEF History, Partly
<1>2. D # {}
  <2>1. j - 1 \in 1..j - 1 /\ j - (j - 1) = 1
    BY <1>1
  <2>2. j - 1 \in D
    BY <1>1, <2>1
  <2>. QED
    BY <2>2
<1>3. D \in SUBSET Nat
  OBVIOUS
<1>4. PICK d \in D : \A x \in D : d <= x
  BY <1>2, <1>3, FirstIsOne
<1> DEFINE k == j - d
<1>5. d \in 1..j - 1 /\ k \in 1..j - 1 /\ k \in Nat /\ h[k].role # "tool" /\ k \in 1..Len(h)
  BY <1>1, <1>4
<1>6. \A x \in k + 1..j - 1 : h[x].role = "tool"
  <2> SUFFICES ASSUME NEW x \in k + 1..j - 1 PROVE h[x].role = "tool"
    OBVIOUS
  <2>1. j - x \in 1..j - 1 /\ j - (j - x) = x /\ ~(d <= j - x)
    BY <1>1, <1>5
  <2>2. j - x \notin D
    BY <1>4, <2>1
  <2>. QED
    BY <2>1, <2>2
<1> HIDE DEF k, D
<1>7. \A x \in k + 1..j : h[x].role = "tool"
  <2>1. \A x \in k + 1..j : x \in k + 1..j - 1 \/ x = j
    BY <1>1, <1>5
  <2>. QED
    BY <1>6, <2>1
<1> DEFINE n == Len(h[k].ids)
<1>8. PICK f \in Perms(n) : BlockAt(h, k, f)
  BY <1>5 DEF Partly
<1>9. n \in Nat
  BY <1>5, MessageOf
<1> HIDE DEF n
<1>10. j <= k + n
  <2> SUFFICES ASSUME j > k + n PROVE FALSE
    BY <1>1, <1>5, <1>9
  <2>1. k + n < Len(h) /\ k + n + 1 \in k + 1..j
    BY <1>1, <1>5, <1>9
  <2>2. h[k + n + 1].role # "tool"
    BY <1>8, <2>1 DEF BlockAt, n
  <2>. QED
    BY <1>7, <2>1, <2>2
<1>11. j - k \in 1..n /\ k + (j - k) = j /\ j <= Len(h)
  BY <1>1, <1>5, <1>9, <1>10
<1>12. h[j].ids[1] = h[k].ids[f[j - k]] /\ f[j - k] \in 1..n
  <2>1. h[k + (j - k)].ids[1] = h[k].ids[f[j - k]]
    BY <1>8, <1>11 DEF BlockAt, n
  <2>. QED
    BY <1>8, <1>11, <2>1 DEF Perms
<1>13. h[k].role = "assistant"
  <2>1. h[k] \in StoredMessage /\ h[k].ids # <<>>
    <3>1. h[k] \in StoredMessage
      BY <1>5, MessageOf
    <3>2. n # 0
      BY <1>9, <1>11
    <3>3. h[k].ids # <<>>
      BY <3>2 DEF n
    <3>. QED
      BY <3>1, <3>3
  <2>. QED
    BY <1>5, <2>1 DEF StoredMessage
<1>14. HeadOf(h, j, k)
  BY <1>7, <1>10, <1>12, <1>13 DEF HeadOf, n
<1>. QED
  BY <1>5, <1>14

\* It belongs to no other.
LEMMA HeadIsLast ==
  ASSUME NEW h \in History, NEW j \in 1..Len(h), NEW k \in 1..j - 1, HeadOf(h, j, k),
         NEW i \in 1..j - 1, h[i].role # "tool"
  PROVE  i <= k
<1>1. Len(h) \in Nat
  BY DEF History
<1>2. CASE i > k
  <2>1. i \in k + 1..j
    BY <1>1, <1>2
  <2>. QED
    BY <2>1 DEF HeadOf
<1>. QED
  BY <1>1, <1>2

\* The group of a message and of no other has its answers.
LEMMA GroupIs ==
  ASSUME NEW h \in History, Partly(h), NEW j \in 1..Len(h), NEW k \in 1..j - 1, HeadOf(h, j, k),
         NEW i \in Heads(h)
  PROVE  j \in Group(h, i) <=> i = k
<1>1. Len(h) \in Nat /\ j \in Nat /\ DOMAIN h = 1..Len(h) /\ k \in Nat
  BY DEF History
<1>2. h[j].role = "tool" /\ h[k].role = "assistant"
  <2>1. j \in k + 1..j
    BY <1>1
  <2>. QED
    BY <2>1 DEF HeadOf
<1>3. i \in 1..Len(h) /\ h[i].role = "assistant" /\ i # j
  BY <1>1, <1>2 DEF Heads
<1>4. k \in GroupHead(h, j)
  <2>1. k \in 1..Len(h)
    BY <1>1
  <2>2. Len(h[k].ids) \in Nat /\ h[k].ids \in Seq(CallId)
    BY <2>1, MessageOf
  <2>3. DOMAIN h[k].ids = 1..Len(h[k].ids)
    BY <2>2
  <2>. QED
    BY <1>2, <2>3 DEF GroupHead, HeadOf
<1>5. \A x \in GroupHead(h, j) : x <= k
  <2> SUFFICES ASSUME NEW x \in GroupHead(h, j) PROVE x <= k
    OBVIOUS
  <2>1. x \in 1..j - 1 /\ h[x].role # "tool"
    BY DEF GroupHead
  <2>. QED
    BY <2>1, HeadIsLast
<1>6. j \in Group(h, i) <=> i \in GroupHead(h, j) /\ \A x \in GroupHead(h, j) : x <= i
  BY <1>1, <1>2, <1>3 DEF Group
<1>7. i \in Nat
  BY <1>1, <1>3
<1>. QED
  BY <1>1, <1>4, <1>5, <1>6, <1>7
\* what goes with the groups of d
Removed(h, d) == UNION {Group(h, i) : i \in d}

\* its first message leaves the summary there; earlier summaries go too
KeptAt(h, d, i) == i = First(Removed(h, d)) \/ (i \notin Removed(h, d) /\ h[i].role # "summary")

\* r is what is left of h, and g says where each message was
Leaves(h, d, r, g) ==
  /\ \A q \in 1..Len(r) : /\ g[q] \in 1..Len(h) /\ KeptAt(h, d, g[q])
                          /\ r[q] = IF g[q] = First(Removed(h, d)) THEN Summary ELSE h[g[q]]
  /\ \A p, q \in 1..Len(r) : p < q => g[p] < g[q]
  /\ \A i \in 1..Len(h) : KeptAt(h, d, i) => \E q \in 1..Len(r) : g[q] = i

\* Only answers of the model and of tools go.
LEMMA RemovedOf ==
  ASSUME NEW h \in History, NEW d \in SUBSET Heads(h), d # {}
  PROVE  /\ \A j : j \in Removed(h, d) <=> \E i \in d : j \in Group(h, i)
         /\ \A j \in Removed(h, d) : j \in 1..Len(h) /\ h[j].role \in {"assistant", "tool"}
         /\ First(Removed(h, d)) \in Removed(h, d)
         /\ \A j \in Removed(h, d) : First(Removed(h, d)) <= j
         /\ d \subseteq Removed(h, d)
<1>0. Len(h) \in Nat /\ DOMAIN h = 1..Len(h)
  BY DEF History
<1>1. \A j : j \in Removed(h, d) <=> \E i \in d : j \in Group(h, i)
  BY DEF Removed
<1>2. \A i \in d : i \in Group(h, i) /\ \A j \in Group(h, i) : j \in 1..Len(h) /\ h[j].role \in {"assistant", "tool"}
  BY <1>0 DEF Group, Heads
<1>3. \A j \in Removed(h, d) : j \in 1..Len(h) /\ h[j].role \in {"assistant", "tool"}
  BY <1>1, <1>2
<1>4. Removed(h, d) # {} /\ Removed(h, d) \in SUBSET Nat
  BY <1>0, <1>1, <1>2, <1>3
<1>5. First(Removed(h, d)) \in Removed(h, d) /\ \A j \in Removed(h, d) : First(Removed(h, d)) <= j
  BY <1>4, FirstIsOne
<1>. QED
  BY <1>1, <1>2, <1>3, <1>5

\* What compaction leaves of any history.
LEMMA WithoutIs ==
  ASSUME NEW h \in History, NEW d \in SUBSET Heads(h), d # {}
  PROVE  LET r == WithoutGroups(h, d) IN
         r \in History /\ \E g : Leaves(h, d, r, g)
<1> DEFINE F == First(Removed(h, d))
           q == [i \in DOMAIN h |->
                  IF i = F THEN <<Summary>>
                  ELSE IF i \in Removed(h, d) \/ h[i].role = "summary" THEN <<>> ELSE <<h[i]>>]
           r == FlattenSeq(q)
<1>1. Len(h) \in Nat /\ DOMAIN h = 1..Len(h) /\ \A i \in 1..Len(h) : h[i] \in StoredMessage
  BY DEF History
<1>2. WithoutGroups(h, d) = r
  BY DEF WithoutGroups, Removed
<1>3. Summary \in StoredMessage
  <2>1. <<>> \in Seq(CallId)
    OBVIOUS
  <2>. QED
    BY <2>1 DEF Summary, Message, StoredMessage
<1>4. F \in 1..Len(h)
  BY RemovedOf
<1> HIDE DEF F
<1>5. /\ q \in Seq(Seq(StoredMessage)) /\ Len(q) = Len(h)
      /\ \A i \in 1..Len(h) :
           q[i] = IF i = F THEN <<Summary>>
                  ELSE IF i \in Removed(h, d) \/ h[i].role = "summary" THEN <<>> ELSE <<h[i]>>
  <2>1. <<>> \in Seq(StoredMessage) /\ <<Summary>> \in Seq(StoredMessage)
        /\ \A i \in 1..Len(h) : <<h[i]>> \in Seq(StoredMessage)
    BY <1>1, <1>3
  <2>2. \A i \in 1..Len(h) : q[i] = IF i = F THEN <<Summary>>
                  ELSE IF i \in Removed(h, d) \/ h[i].role = "summary" THEN <<>> ELSE <<h[i]>>
    BY <1>1
  <2>3. q \in [1..Len(h) -> Seq(StoredMessage)]
    BY <1>1, <2>1
  <2>. QED
    BY <1>1, <2>2, <2>3
<1> HIDE DEF q, r
<1>6. \A i \in 1..Len(q) : Len(q[i]) <= 1
  <2> SUFFICES ASSUME NEW i \in 1..Len(q) PROVE Len(q[i]) <= 1
    OBVIOUS
  <2>1. i \in 1..Len(h) /\ (q[i] = <<>> \/ q[i] = <<Summary>> \/ q[i] = <<h[i]>>)
    BY <1>5
  <2>2. CASE q[i] = <<>>
    BY <2>2
  <2>3. CASE q[i] = <<Summary>>
    BY <2>3
  <2>4. CASE q[i] = <<h[i]>>
    BY <2>4
  <2>. QED
    BY <2>1, <2>2, <2>3, <2>4
<1>7. r \in Seq(StoredMessage) /\ \E g : Picks(q, r, g, Len(q))
  BY <1>5, <1>6, PicksAre DEF r
<1>8. PICK g : Picks(q, r, g, Len(q))
  BY <1>7
<1>9. \A i \in 1..Len(h) : q[i] # <<>> <=> KeptAt(h, d, i)
  <2>1. \A x : <<x>> # <<>>
    OBVIOUS
  <2>. QED
    BY <1>5, <2>1 DEF KeptAt, F
<1>10. ASSUME NEW p \in 1..Len(r)
       PROVE  g[p] \in 1..Len(h) /\ KeptAt(h, d, g[p]) /\ r[p] = IF g[p] = F THEN Summary ELSE h[g[p]]
  <2>1. g[p] \in 1..Len(h) /\ q[g[p]] = <<r[p]>>
    BY <1>5, <1>8 DEF Picks
  <2>2. <<r[p]>> # <<>>
    OBVIOUS
  <2>3. KeptAt(h, d, g[p])
    BY <1>9, <2>1, <2>2
  <2>4. <<r[p]>> = IF g[p] = F THEN <<Summary>> ELSE <<h[g[p]]>>
    BY <1>5, <2>1, <2>2
  <2>5. \A x, y : <<x>> = <<y>> => x = y
    OBVIOUS
  <2>. QED
    BY <2>1, <2>3, <2>4, <2>5
<1>11. \A a, b \in 1..Len(r) : a < b => g[a] < g[b]
  BY <1>8 DEF Picks
<1>12. \A i \in 1..Len(h) : KeptAt(h, d, i) => \E p \in 1..Len(r) : g[p] = i
  BY <1>5, <1>8, <1>9 DEF Picks
<1>13. Leaves(h, d, r, g)
  BY <1>10, <1>11, <1>12 DEF Leaves, F
<1>. QED
  BY <1>2, <1>7, <1>13 DEF History

\* Of a history that is paired it leaves one that is.
LEMMA LeavesPaired ==
  ASSUME NEW h \in History, Partly(h), Complete(h), NEW d \in SUBSET Heads(h), d # {},
         NEW r \in History, NEW g, Leaves(h, d, r, g)
  PROVE  Partly(r) /\ Complete(r)
<1> DEFINE R == Removed(h, d)
           F == First(Removed(h, d))
<1>1. Len(h) \in Nat /\ Len(r) \in Nat /\ DOMAIN h = 1..Len(h)
  BY DEF History
<1>2. /\ \A q \in 1..Len(r) : g[q] \in 1..Len(h) /\ KeptAt(h, d, g[q]) /\ r[q] = IF g[q] = F THEN Summary ELSE h[g[q]]
      /\ \A p, q \in 1..Len(r) : p < q => g[p] < g[q]
      /\ \A i \in 1..Len(h) : KeptAt(h, d, i) => \E q \in 1..Len(r) : g[q] = i
  BY DEF Leaves
<1>3. /\ \A j : j \in R <=> \E i \in d : j \in Group(h, i)
      /\ \A j \in R : j \in 1..Len(h) /\ h[j].role \in {"assistant", "tool"}
      /\ F \in R /\ \A j \in R : F <= j
      /\ d \subseteq R
  BY RemovedOf
<1> HIDE DEF R, F
<1>4. \A i \in 1..Len(h) : KeptAt(h, d, i) <=> i = F \/ (i \notin R /\ h[i].role # "summary")
  BY DEF KeptAt, R, F
<1>5. ASSUME NEW j \in 1..Len(h), NEW k \in 1..j - 1, HeadOf(h, j, k)
      PROVE  j \in R <=> k \in d
  BY <1>3, <1>5, GroupIs
<1>6. ASSUME NEW i \in 1..Len(h), h[i].role # "tool"
      PROVE  i \in R <=> i \in d
  <2>1. \A k \in d : i \in Group(h, k) <=> i = k
    BY <1>6 DEF Group
  <2>. QED
    BY <1>3, <2>1
<1>7. F \in d /\ h[F].role = "assistant" /\ F \in 1..Len(h)
  <2>1. CASE h[F].role = "tool"
    <3>1. F \in 1..Len(h)
      BY <1>3
    <3>2. PICK k \in 1..F - 1 : HeadOf(h, F, k)
      BY <2>1, <3>1, AnswersHead
    <3>3. k \in R /\ ~(F <= k)
      BY <1>1, <1>3, <1>5, <3>1, <3>2
    <3>. QED
      BY <1>3, <3>3
  <2>. QED
    BY <1>3, <1>6, <2>1
<1>8. \A q \in 1..Len(r) : (r[q].role = "tool" <=> h[g[q]].role = "tool") /\ (g[q] # F => r[q] = h[g[q]])
  BY <1>2, <1>7 DEF Summary, Message
\* the head of an answer that is left is left, before it
<1>9. ASSUME NEW q \in 1..Len(r), r[q].role = "tool"
      PROVE  \E p \in 1..q - 1 : HeadOf(h, g[q], g[p]) /\ g[p] \notin R
  <2>1. g[q] \in 1..Len(h) /\ h[g[q]].role = "tool" /\ g[q] \notin R
    BY <1>2, <1>4, <1>7, <1>8, <1>9
  <2>2. PICK k \in 1..g[q] - 1 : HeadOf(h, g[q], k)
    BY <2>1, AnswersHead
  <2>3. k \in 1..Len(h) /\ k \notin d /\ h[k].role = "assistant"
    BY <1>1, <1>5, <2>1, <2>2 DEF HeadOf
  <2>4. k \notin R
    BY <1>6, <2>3
  <2>5. PICK p \in 1..Len(r) : g[p] = k
    BY <1>2, <1>4, <2>3, <2>4
  <2>6. p < q
    <3> SUFFICES ASSUME p >= q PROVE FALSE
      BY <1>1
    <3>1. g[q] <= g[p] /\ g[p] \in 1..Len(h)
      <4>1. CASE p = q
        BY <1>2, <4>1
      <4>2. CASE p > q
        BY <1>2, <4>2
      <4>. QED
        BY <1>1, <4>1, <4>2
    <3>. QED
      BY <1>1, <2>1, <2>2, <2>5, <3>1
  <2>7. p \in 1..q - 1
    BY <1>1, <2>6
  <2>. QED
    BY <2>2, <2>4, <2>5, <2>7
<1>10. r # <<>> => r[1].role # "tool"
  <2> SUFFICES ASSUME r # <<>>, r[1].role = "tool" PROVE FALSE
    OBVIOUS
  <2>1. 1 \in 1..Len(r)
    BY <1>1 DEF History
  <2>2. \E p \in 1..1 - 1 : TRUE
    BY <1>9, <2>1
  <2>. QED
    BY <2>2
\* the messages after a message that is left, up to the next that is no answer
<1>11. ASSUME NEW q \in 1..Len(r), r[q].role # "tool"
       PROVE  q + Len(r[q].ids) <= Len(r) /\ \E f \in Perms(Len(r[q].ids)) : BlockAt(r, q, f)
  <2> DEFINE n == Len(r[q].ids)
             k == g[q]
  <2>1. n \in Nat /\ q \in Nat
    <3>1. Len(r[q].ids) \in Nat
      BY MessageOf
    <3>. QED
      BY <3>1
  <2>2. k \in 1..Len(h) /\ h[k].role # "tool"
    BY <1>2, <1>8, <1>11
  <2> HIDE DEF n, k
  <2>3. /\ q + n <= Len(r)
        /\ k + n <= Len(h) /\ n = Len(r[q].ids) /\ (n = 0 \/ (r[q] = h[k] /\ k \notin R))
        /\ \A v \in 0..n : g[q + v] = k + v
        /\ \A x \in k + 1..k + n : h[x].role = "tool"
        /\ \A j \in 1..Len(h) : k # F /\ HeadOf(h, j, k) => j <= k + n
    <3>1. CASE k = F
      <4>1. r[q] = Summary
        BY <1>2, <3>1 DEF k
      <4>2. n = 0
        <5>1. r[q].ids = <<>>
          BY <4>1 DEF Summary, Message
        <5>. QED
          BY <5>1 DEF n
      <4>3. q + n <= Len(r) /\ k + n <= Len(h) /\ 0..n = {0} /\ q + 0 = q /\ k + 0 = k /\ k + 1..k + n = {}
        BY <1>1, <2>1, <2>2, <4>2
      <4>. QED
        BY <3>1, <4>2, <4>3 DEF k, n
    <3>2. CASE k # F
      <4>1. r[q] = h[k] /\ k \notin R /\ n = Len(h[k].ids)
        BY <1>2, <1>4, <2>2, <3>2 DEF k, n
      <4>2. k + n <= Len(h)
        BY <2>2, <4>1 DEF Complete
      <4>3. PICK f \in Perms(n) : BlockAt(h, k, f)
        BY <2>2, <4>1 DEF Partly
      <4>4. ASSUME NEW v \in 1..n
            PROVE  k + v \in 1..Len(h) /\ h[k + v].role = "tool" /\ KeptAt(h, d, k + v)
        <5>1. k + v \in 1..Len(h) /\ k + v <= Len(h) /\ k \in 1..(k + v) - 1
          BY <1>1, <2>1, <2>2, <4>2
        <5>2. h[k + v].role = "tool"
          BY <4>1, <4>3, <5>1 DEF BlockAt
        <5>3. PICK i \in 1..(k + v) - 1 : HeadOf(h, k + v, i)
          BY <5>1, <5>2, AnswersHead
        <5>4. i = k
          <6>1. k <= i
            BY <2>2, <5>1, <5>3, HeadIsLast
          <6>2. CASE k < i
            <7>1. i - k \in 1..n /\ k + (i - k) = i /\ k + (i - k) <= Len(h)
              BY <1>1, <2>1, <2>2, <5>1, <6>2
            <7>2. h[k + (i - k)].role = "tool"
              BY <4>1, <4>3, <7>1 DEF BlockAt
            <7>. QED
              BY <5>3, <7>1, <7>2 DEF HeadOf
          <6>. QED
            BY <1>1, <2>2, <5>1, <6>1, <6>2
        <5>5. k \notin d
          BY <1>3, <4>1
        <5>6. k + v \notin R
          BY <1>5, <5>1, <5>3, <5>4, <5>5
        <5>. QED
          BY <1>4, <5>1, <5>2, <5>6
      <4>5. \A v \in 0..n : q + v <= Len(r) /\ g[q + v] = k + v
        <5> DEFINE Bad == {v \in 0..n : ~(q + v <= Len(r) /\ g[q + v] = k + v)}
        <5> SUFFICES ASSUME Bad # {} PROVE FALSE
          OBVIOUS
        <5>1. Bad \in SUBSET Nat
          BY <2>1
        <5>2. PICK v \in Bad : \A y \in Bad : v <= y
          BY <5>1, FirstIsOne
        <5>3. v # 0 /\ v \in 0..n /\ ~(q + v <= Len(r) /\ g[q + v] = k + v)
          <6>1. q + 0 = q /\ k + 0 = k /\ q <= Len(r) /\ g[q] = k
            BY <1>1, <2>1, <2>2 DEF k
          <6>. QED
            BY <5>2, <6>1
        <5>4. v - 1 \in 0..n /\ ~(v <= v - 1) /\ v \in 1..n
          BY <2>1, <5>3
        <5>5. q + (v - 1) <= Len(r) /\ g[q + (v - 1)] = k + (v - 1)
          BY <5>2, <5>4
        <5>6. PICK p \in 1..Len(r) : g[p] = k + v
          BY <1>2, <4>4, <5>4
        <5> DEFINE a == q + (v - 1)
        <5>7. a \in 1..Len(r) /\ a \in Nat
          BY <1>1, <2>1, <5>4, <5>5
        <5>8. g[a] + 1 = g[p] /\ g[a] \in Nat /\ g[p] \in Nat
          BY <2>2, <5>4, <5>5, <5>6
        <5>9. q + v = a + 1
          BY <2>1, <5>4
        <5> HIDE DEF a, Bad
        <5>10. p > a
          <6>1. CASE p < a
            <7>1. g[p] < g[a]
              BY <1>2, <5>7, <6>1
            <7>. QED
              BY <5>8, <7>1
          <6>2. CASE p = a
            BY <5>8, <6>2
          <6>. QED
            BY <5>7, <6>1, <6>2
        <5>11. CASE p > a + 1
          <6>1. a + 1 \in 1..Len(r) /\ a < a + 1
            BY <1>1, <5>7, <5>11
          <6>2. g[a] < g[a + 1] /\ g[a + 1] < g[p] /\ g[a + 1] \in 1..Len(h)
            BY <1>2, <5>7, <5>11, <6>1
          <6>. QED
            BY <1>1, <5>8, <6>2
        <5>12. CASE p = a + 1
          BY <5>3, <5>6, <5>9, <5>12
        <5>. QED
          BY <5>7, <5>10, <5>11, <5>12
      <4>6. q + n <= Len(r)
        BY <2>1, <4>5
      <4>7. \A x \in k + 1..k + n : h[x].role = "tool"
        <5> SUFFICES ASSUME NEW x \in k + 1..k + n PROVE h[x].role = "tool"
          OBVIOUS
        <5>1. x - k \in 1..n /\ k + (x - k) = x
          BY <2>1, <2>2
        <5>2. h[k + (x - k)].role = "tool"
          BY <4>4, <5>1
        <5>. QED
          BY <5>1, <5>2
      <4>8. \A j \in 1..Len(h) : HeadOf(h, j, k) => j <= k + n
        BY <4>1 DEF HeadOf
      <4>. QED
        BY <4>1, <4>2, <4>5, <4>6, <4>7, <4>8 DEF n
    <3>. QED
      BY <3>1, <3>2
  <2>4. q + n < Len(r) => r[q + n + 1].role # "tool"
    <3> SUFFICES ASSUME q + n < Len(r), r[q + n + 1].role = "tool" PROVE FALSE
      OBVIOUS
    <3> DEFINE e == q + n + 1
    <3>1. e \in 1..Len(r) /\ e \in Nat
      BY <1>1, <2>1
    <3> HIDE DEF e
    <3>2. PICK p \in 1..e - 1 : HeadOf(h, g[e], g[p]) /\ g[p] \notin R
      BY <1>9, <3>1 DEF e
    <3>3. p \in 1..Len(r) /\ p < e /\ h[g[p]].role = "assistant" /\ g[p] \in 1..Len(h) /\ g[e] \in 1..Len(h)
      BY <1>1, <1>2, <3>1, <3>2 DEF HeadOf
    <3>4. g[p] # F
      BY <1>3, <3>2
    <3>5. g[q] < g[e] /\ g[q] = k
      <4>1. q < e
        BY <2>1 DEF e
      <4>. QED
        BY <1>2, <3>1, <4>1 DEF k
    <3>6. CASE p = q
      <4>1. g[q + n] < g[e] /\ g[q + n] = k + n
        <5>1. q + n \in 1..Len(r) /\ q + n < e /\ n \in 0..n
          BY <1>1, <2>1 DEF e
        <5>. QED
          BY <1>2, <2>3, <3>1, <5>1
      <4>2. g[e] <= k + n
        BY <2>3, <3>2, <3>3, <3>4, <3>5, <3>6
      <4>. QED
        BY <1>1, <2>1, <2>2, <3>3, <4>1, <4>2
    <3>7. CASE p < q
      <4>1. g[p] < k /\ k < g[e]
        BY <1>2, <3>3, <3>5, <3>7
      <4>2. k \in g[p] + 1..g[e]
        BY <1>1, <2>2, <3>3, <4>1
      <4>. QED
        BY <2>2, <3>2, <4>2 DEF HeadOf
    <3>8. CASE p > q
      <4>1. p - q \in 1..n /\ q + (p - q) = p /\ p - q \in 0..n
        BY <1>1, <2>1, <3>1, <3>3, <3>8 DEF e
      <4>2. g[q + (p - q)] = k + (p - q)
        BY <2>3, <4>1
      <4>3. g[p] \in k + 1..k + n
        BY <1>1, <2>1, <2>2, <4>1, <4>2
      <4>. QED
        BY <2>3, <3>3, <4>3
    <3>. QED
      BY <1>1, <2>1, <3>3, <3>6, <3>7, <3>8
  <2>5. CASE n = 0
    <3>1. [i \in 1..0 |-> i] \in Perms(0)
      BY SameOrder
    <3>2. BlockAt(r, q, [i \in 1..0 |-> i])
      <4>1. \A j \in 1..Len(r[q].ids) : FALSE
        BY <2>5 DEF n
      <4>. QED
        BY <2>4, <4>1 DEF BlockAt, n
    <3>3. \E f \in Perms(0) : BlockAt(r, q, f)
      BY <3>1, <3>2
    <3>. QED
      BY <2>3, <2>5, <3>3 DEF n
  <2>6. CASE n # 0
    <3>1. r[q] = h[k] /\ k \notin R
      BY <2>3, <2>6
    <3>2. PICK f \in Perms(n) : BlockAt(h, k, f)
      BY <2>2, <3>1 DEF Partly, n
    <3>3. ASSUME NEW j \in 1..n
          PROVE  r[q + j].role = "tool" /\ r[q + j].ids[1] = r[q].ids[f[j]]
      <4>1. j \in 0..n /\ q + j \in 1..Len(r) /\ k + j \in 1..Len(h) /\ k + j <= Len(h) /\ k + j \in k + 1..k + n
        BY <1>1, <2>1, <2>2, <2>3
      <4>2. g[q + j] = k + j
        BY <2>3, <4>1
      <4>3. h[k + j].role = "tool" /\ h[k + j].ids[1] = h[k].ids[f[j]]
        BY <3>1, <3>2, <4>1 DEF BlockAt, n
      <4>4. k + j # F
        BY <1>7, <4>3
      <4>5. r[q + j] = h[k + j]
        BY <1>8, <4>1, <4>2, <4>4
      <4>. QED
        BY <3>1, <4>3, <4>5
    <3>4. BlockAt(r, q, f)
      BY <2>4, <3>3 DEF BlockAt, n
    <3>. QED
      BY <2>3, <3>2, <3>4 DEF n
  <2>. QED
    BY <2>5, <2>6
<1>12. Partly(r)
  BY <1>10, <1>11 DEF Partly
<1>13. Complete(r)
  BY <1>11 DEF Complete
<1>. QED
  BY <1>12, <1>13
\* What the user said is never dropped.
LEMMA UsersStay ==
  ASSUME NEW h \in History, NEW x \in Spoken, NEW d \in SUBSET Heads(h), d # {}
  PROVE  Those(WithoutGroups(h, d), {x}) = Those(h, {x})
<1> DEFINE F == First(Removed(h, d))
           q == [i \in DOMAIN h |->
                  IF i = F THEN <<Summary>>
                  ELSE IF i \in Removed(h, d) \/ h[i].role = "summary" THEN <<>> ELSE <<h[i]>>]
<1>1. Len(h) \in Nat /\ DOMAIN h = 1..Len(h) /\ \A i \in 1..Len(h) : h[i] \in StoredMessage
  BY DEF History
<1>2. WithoutGroups(h, d) = FlattenSeq(q)
  BY DEF WithoutGroups, Removed
<1>3. Summary \in StoredMessage /\ Summary # x /\ x.role \in {"user", "guest"}
  <2>1. <<>> \in Seq(CallId)
    OBVIOUS
  <2>2. Summary \in StoredMessage
    BY <2>1 DEF Summary, Message, StoredMessage
  <2>. QED
    BY <2>2, SpokenIs
<1>4. F \in 1..Len(h) /\ F \in Removed(h, d) /\ \A i \in Removed(h, d) : h[i].role \notin {"user", "guest"}
  BY RemovedOf
<1> HIDE DEF F
<1>5. Len(q) = Len(h) /\ \A i \in 1..Len(h) :
         q[i] = IF i = F THEN <<Summary>>
                ELSE IF i \in Removed(h, d) \/ h[i].role = "summary" THEN <<>> ELSE <<h[i]>>
  BY <1>1
<1> HIDE DEF q
<1>6. PICK f : /\ FlattenSeq(q) = f[Len(q)]
               /\ f[1] = q[1]
               /\ \A n \in 2..Len(q) : f[n] = f[n - 1] \o q[n]
  <2>1. Len(q) \in Nat /\ Len(q) # 0
    BY <1>1, <1>4, <1>5
  <2>. QED
    BY <2>1, Flattened
<1>7. PICK u : Those(h, {x}) = u[Len(h)] /\ Keeps(u, h, {x})
  BY <1>1, ThoseStepwise
<1> DEFINE Good(n) == f[n] \in History /\ Those(f[n], {x}) = u[n]
\* a piece is the message, or it and the message are none of the user's
<1>8. ASSUME NEW i \in 1..Len(h)
      PROVE  \/ q[i] = <<h[i]>>
             \/ h[i] # x /\ (q[i] = <<>> \/ q[i] = <<Summary>>)
  BY <1>3, <1>4, <1>5
<1>9. ASSUME NEW i \in 1..Len(h)
      PROVE  u[i] = IF h[i] = x THEN Append(u[i - 1], x) ELSE u[i - 1]
  BY <1>7 DEF Keeps
<1>10. Good(1)
  <2>1. 1 \in 1..Len(h) /\ 1 - 1 = 0
    BY <1>1, <1>4
  <2>2. <<>> \in History /\ <<h[1]>> \in History /\ <<Summary>> \in History
    BY <1>1, <1>3, <2>1 DEF History
  <2>3. Those(q[1], {x}) = IF h[1] = x THEN <<x>> ELSE <<>>
    <3>1. /\ Those(<<>>, {x}) = <<>>
          /\ Those(<<h[1]>>, {x}) = IF h[1] \in {x} THEN <<h[1]>> ELSE <<>>
          /\ Those(<<Summary>>, {x}) = IF Summary \in {x} THEN <<Summary>> ELSE <<>>
      BY ThoseOne
    <3>. QED
      BY <1>3, <1>8, <2>1, <3>1
  <2>4. u[0] = <<>>
    BY <1>7 DEF Keeps
  <2>5. Append(<<>>, x) = <<x>>
    OBVIOUS
  <2>6. u[1] = IF h[1] = x THEN <<x>> ELSE <<>>
    BY <1>9, <2>1, <2>4, <2>5
  <2>. QED
    BY <1>6, <1>8, <2>1, <2>2, <2>3, <2>6
<1>11. ASSUME NEW n \in 2..Len(h), Good(n - 1)
       PROVE  Good(n)
  <2>1. n \in 1..Len(h) /\ n \in Nat
    BY <1>1
  <2> DEFINE a == f[n - 1]
             c == f[n]
             m == h[n]
  <2>2. a \in History /\ Those(a, {x}) = u[n - 1] /\ c = a \o q[n] /\ m \in StoredMessage
    BY <1>1, <1>5, <1>6, <1>11, <2>1
  <2>3. u[n] = IF m = x THEN Append(u[n - 1], x) ELSE u[n - 1]
    BY <1>9, <2>1
  <2>4. q[n] = <<m>> \/ (m # x /\ (q[n] = <<>> \/ q[n] = <<Summary>>))
    BY <1>8, <2>1
  <2> SUFFICES c \in History /\ Those(c, {x}) = u[n]
    OBVIOUS
  <2> HIDE DEF a, c, m
  <2>5. CASE q[n] = <<>>
    <3>1. c = a /\ m # x
      <4>1. <<m>> # <<>>
        OBVIOUS
      <4>2. a \o <<>> = a
        BY <2>2 DEF History
      <4>. QED
        BY <2>2, <2>4, <2>5, <4>1, <4>2
    <3>. QED
      BY <2>2, <2>3, <3>1
  <2>6. ASSUME NEW y \in StoredMessage, q[n] = <<y>>
        PROVE  OneMore(c, a, y)
    <3>1. a \o <<y>> = Append(a, y)
      BY <2>2, <2>6 DEF History
    <3>. QED
      BY <2>2, <2>6, <3>1 DEF OneMore
  <2>7. ASSUME NEW y \in StoredMessage, q[n] = <<y>>
        PROVE  /\ c \in History
               /\ y = x => Those(c, {x}) = Append(Those(a, {x}), x)
               /\ y # x => Those(c, {x}) = Those(a, {x})
    <3>1. OneMore(c, a, y)
      BY <2>6, <2>7
    <3>2. c \in History
      BY <2>2, <3>1, MoreIs
    <3>3. a \in Seq(StoredMessage)
      BY <2>2 DEF History
    <3>4. /\ y \in {x} => OneMore(Those(c, {x}), Those(a, {x}), y)
          /\ y \notin {x} => Those(c, {x}) = Those(a, {x})
      BY <3>1, <3>3, ThoseAppended
    <3>. QED
      BY <3>2, <3>4 DEF OneMore
  <2>8. CASE q[n] = <<m>>
    BY <2>2, <2>3, <2>7, <2>8
  <2>9. CASE q[n] = <<Summary>>
    <3>1. m # x
      <4>1. \A v, w : <<v>> = <<w>> => v = w
        OBVIOUS
      <4>2. <<Summary>> # <<>>
        OBVIOUS
      <4>. QED
        BY <1>3, <2>4, <2>9, <4>1, <4>2
    <3>. QED
      BY <1>3, <2>2, <2>3, <2>7, <2>9, <3>1
  <2>. QED
    BY <2>4, <2>5, <2>8, <2>9
<1> HIDE DEF Good
<1>12. \A n \in 1..Len(h) : Good(n)
  <2> DEFINE Bad == {n \in 1..Len(h) : ~Good(n)}
  <2> SUFFICES ASSUME Bad # {} PROVE FALSE
    OBVIOUS
  <2>1. Bad \in SUBSET Nat
    OBVIOUS
  <2>2. PICK n \in Bad : \A y \in Bad : n <= y
    BY <2>1, FirstIsOne
  <2>3. n # 1 /\ n \in 2..Len(h) /\ n - 1 \in 1..Len(h) /\ ~(n <= n - 1)
    BY <1>1, <1>10, <2>2
  <2>4. Good(n - 1)
    BY <2>2, <2>3
  <2>. QED
    BY <1>11, <2>2, <2>3, <2>4
<1>13. Good(Len(h))
  <2>1. Len(h) \in 1..Len(h)
    BY <1>1, <1>4
  <2>. QED
    BY <1>12, <2>1
<1>. QED
  BY <1>2, <1>5, <1>6, <1>7, <1>13 DEF Good
-----------------------------------------------------------------------------
(* What holds of a conversation between any two steps *)

CallIds == [i \in DOMAIN calls |-> calls[i].id]
Told == {i \in DOMAIN job : job[i] \in {"real", "stub"}}

\* jobs that ended while they were stopped
Halted == Where("dropped") \cup Where("late")

\* how often x is said
CountOf(h, x) == Len(Those(h, {x}))

\* the engine's copy is a history, and has what its user said and is stored
Known == cache \in History /\ UsersOf(store) <= UsersOf(cache)

\* what is stored is a history, and so is what the process remembers, once it has loaded it
KnownOK ==
  /\ store \in History
  /\ cache = None \/ Known
  /\ pc \notin {"idle", "down", "loading"} => Known
  /\ pc \in {"down", "loading"} => cache = None

\* a run is somewhere, within its budgets; it only stops jobs when it has a reason to stop
ProgressOK ==
  /\ pc \in {"down", "idle", "loading", "created", "loop", "model", "said", "auto", "batch",
             "dispatch", "tools", "stopping", "answer", "stub", "finish"}
  /\ \A i \in DOMAIN job :
       job[i] \in {"wait", "skip", "running", "done", "recorded", "real", "stub", "dropped", "late"}
  /\ pc \in {"said", "batch"} => \A i \in DOMAIN job : job[i] = "wait"
  /\ stop \in {None, "final", "budget", "cancelled", "model_error", "repeated", "lost", "raised"}
  /\ pc = "stopping" \/ Halted # {} => stop # None
  /\ steps \in 0..StepLimit /\ (pc = "model" => steps < StepLimit)
  /\ autos \in 0..AutoVerify /\ (pc = "auto" => autos < AutoVerify)
  /\ evidence \in {"none", "changed", "passed", "failed"}
  /\ held \in BOOLEAN /\ runs \in 0..plan.runs /\ faults \in 0..MaxFault

\* the answers to the calls being handled come after them; before that all calls are answered
HistoryOK == Held =>
  /\ Partly(store)
  /\ pc \in {"created", "loop", "model", "said", "auto", "finish"} => Complete(store)
  /\ pc = "idle" /\ cache # None => Complete(store)
  /\ pc \in {"batch", "dispatch", "tools", "stopping", "answer", "stub"} => Open(store, CallIds, Told)

HistoryInv == RunInv /\ KnownOK /\ ProgressOK /\ HistoryOK

\* What a message adds to what is said.
LEMMA UsersMore ==
  ASSUME NEW h \in History, NEW m \in StoredMessage, NEW r, OneMore(r, h, m),
         NEW x \in Spoken
  PROVE  /\ r \in History /\ CountOf(h, x) \in Nat
         /\ CountOf(r, x) = CountOf(h, x) + (IF m = x THEN 1 ELSE 0)
<1>1. h \in Seq(StoredMessage)
  BY DEF History
<1>2. /\ m \in {x} => OneMore(Those(r, {x}), Those(h, {x}), m)
      /\ m \notin {x} => Those(r, {x}) = Those(h, {x})
      /\ Those(h, {x}) \in Seq(StoredMessage)
  BY <1>1, ThoseAppended
<1> DEFINE a == Those(h, {x})
           b == Those(r, {x})
<1>3. (m \in {x} => OneMore(b, a, m)) /\ (m \notin {x} => b = a) /\ a \in Seq(StoredMessage)
  BY <1>2
<1>4. CountOf(h, x) = Len(a) /\ CountOf(r, x) = Len(b)
  BY DEF CountOf
<1>5. r \in History
  BY MoreIs
<1> HIDE DEF a, b
<1>6. Len(a) \in Nat /\ (m = x => Len(b) = Len(a) + 1) /\ (m # x => Len(b) = Len(a))
  BY <1>3 DEF OneMore
<1>. QED
  BY <1>4, <1>5, <1>6

\* What a history says is counted, and repairing it leaves the count.
LEMMA UsersCount ==
  ASSUME NEW h \in History
  PROVE  /\ UsersOf(h) = CountOf(h, User) /\ GuestsOf(h) = CountOf(h, Guest)
         /\ UsersOf(h) \in Nat /\ GuestsOf(h) \in Nat
         /\ Repair(h) \in History /\ UsersOf(Repair(h)) = UsersOf(h) /\ GuestsOf(Repair(h)) = GuestsOf(h)
<1>1. User \in Spoken /\ Guest \in Spoken
  BY DEF Spoken
<1>2. OneMore(Append(h, User), h, User)
  BY DEF OneMore
<1>3. User \in StoredMessage
  BY <1>1, SpokenIs
<1>4. CountOf(h, User) \in Nat
  BY <1>1, <1>2, <1>3, UsersMore
<1>5. CountOf(h, Guest) \in Nat
  BY <1>1, <1>2, <1>3, UsersMore
<1>6. /\ Those(Repair(h), {User}) = Those(h, {User}) /\ Repair(h) \in History
      /\ Those(Repair(h), {Guest}) = Those(h, {Guest})
  BY <1>1, RepairTyped
<1>7. \A g : UsersOf(g) = CountOf(g, User) /\ GuestsOf(g) = CountOf(g, Guest)
  BY DEF UsersOf, GuestsOf, CountOf
<1>8. CountOf(Repair(h), User) = CountOf(h, User) /\ CountOf(Repair(h), Guest) = CountOf(h, Guest)
  BY <1>6 DEF CountOf
<1>. QED
  BY <1>4, <1>5, <1>6, <1>7, <1>8

\* One message more: what was said is still said.
LEMMA OneMoreSaid ==
  ASSUME NEW h \in History, NEW m \in StoredMessage, NEW r, OneMore(r, h, m)
  PROVE  /\ r \in History /\ GuestsOf(r) = GuestsOf(h) + (IF m = Guest THEN 1 ELSE 0)
         /\ UsersOf(r) = UsersOf(h) + (IF m = User THEN 1 ELSE 0)
         /\ UsersOf(r) >= UsersOf(h) /\ GuestsOf(r) >= GuestsOf(h)
<1>1. User \in Spoken /\ Guest \in Spoken
  BY DEF Spoken
<1>2. r \in History /\ UsersOf(h) \in Nat /\ GuestsOf(h) \in Nat
  BY <1>1, UsersMore, UsersCount
<1>3. CountOf(r, User) = CountOf(h, User) + (IF m = User THEN 1 ELSE 0)
  BY <1>1, UsersMore
<1>4. CountOf(r, Guest) = CountOf(h, Guest) + (IF m = Guest THEN 1 ELSE 0)
  BY <1>1, UsersMore
<1>5. /\ UsersOf(r) = UsersOf(h) + (IF m = User THEN 1 ELSE 0)
      /\ GuestsOf(r) = GuestsOf(h) + (IF m = Guest THEN 1 ELSE 0)
  BY <1>2, <1>3, <1>4, UsersCount
<1>. QED
  BY <1>2, <1>5

\* no step takes back what was said here, nor what was said elsewhere unless the copy is stale
SaidKept == UsersOf(store') >= UsersOf(store) /\ (Stale \/ GuestsOf(store') >= GuestsOf(store))

\* What a run appends is a message.
LEMMA PendingIs ==
  ASSUME BatchType, BatchOK, Appending
  PROVE  /\ Pending \in StoredMessage
         /\ pc = "created" => Pending = User
         /\ pc = "said" => Pending = Assistant(CallIds)
         /\ pc = "auto" => Pending = Assistant(<<AutoId>>)
         /\ pc = "answer" => /\ First(Where("recorded")) \in Where("recorded")
                             /\ Pending = Answer(calls[First(Where("recorded"))].id)
         /\ pc = "stub" => /\ First(Unanswered) \in Unanswered
                           /\ Pending = Stub(calls[First(Unanswered)].id)
<1>1. \A ids \in Seq(CallId) : Assistant(ids) \in StoredMessage
  BY DEF Assistant, Message, StoredMessage
<1>2. \A e \in CallId : Answer(e) \in StoredMessage /\ Stub(e) \in StoredMessage
  <2>. SUFFICES ASSUME NEW e \in CallId PROVE Answer(e) \in StoredMessage /\ Stub(e) \in StoredMessage
    OBVIOUS
  <2>1. <<e>> \in Seq(CallId) /\ Len(<<e>>) = 1
    OBVIOUS
  <2>. QED
    BY <2>1 DEF Answer, Stub, Message, StoredMessage
<1>3. \A i \in DOMAIN job : calls[i].id \in CallId
  BY JobSets DEF Call, CallId
<1>4. CASE pc = "created"
  <2>1. Pending = User
    BY <1>4 DEF Pending
  <2>2. <<>> \in Seq(CallId)
    OBVIOUS
  <2>. QED
    BY <1>4, <2>1, <2>2 DEF User, Message, StoredMessage
<1>5. CASE pc = "said"
  <2>1. Pending = Assistant(CallIds)
    BY <1>5 DEF Pending, CallIds
  <2>2. CallIds \in Seq(CallId)
    <3>1. PICK n \in Nat : calls \in [1..n -> Call]
      BY DEF BatchType
    <3>2. CallIds \in [1..n -> CallId]
      BY <3>1 DEF CallIds, Call, CallId
    <3>. QED
      BY <3>1, <3>2
  <2>. QED
    BY <1>1, <1>5, <2>1, <2>2
<1>6. CASE pc = "auto"
  <2>1. Pending = Assistant(<<AutoId>>)
    BY <1>6 DEF Pending
  <2>2. <<AutoId>> \in Seq(CallId)
    BY DEF CallId
  <2>. QED
    BY <1>1, <1>6, <2>1, <2>2
<1>7. CASE pc = "answer"
  <2>1. Pending = Answer(calls[First(Where("recorded"))].id)
    BY <1>7 DEF Pending
  <2>2. First(Where("recorded")) \in Where("recorded") /\ First(Where("recorded")) \in DOMAIN job
    BY <1>7, JobSets, FirstIsOne DEF BatchOK
  <2>. QED
    BY <1>2, <1>3, <1>7, <2>1, <2>2
<1>8. CASE pc = "stub"
  <2>1. Pending = Stub(calls[First(Unanswered)].id) /\ Unanswered # {}
    BY <1>8 DEF Pending, Appending
  <2>2. Unanswered \in SUBSET DOMAIN job
    BY DEF Unanswered
  <2>3. First(Unanswered) \in Unanswered /\ First(Unanswered) \in DOMAIN job
    BY <2>1, <2>2, JobSets, FirstIsOne
  <2>. QED
    BY <1>2, <1>3, <1>8, <2>1, <2>3
<1>. QED
  BY <1>4, <1>5, <1>6, <1>7, <1>8 DEF Appending

\* An append leaves a history, in the store and in the copy.
LEMMA PersistIs ==
  ASSUME BatchType, BatchOK, KnownOK, Appending, cache' = Append(cache, Pending),
         store' = Append(store, Pending) \/ store' = store
  PROVE  /\ store' \in History /\ Known' /\ SaidKept
         /\ store' = Append(store, Pending) => OneMore(store', store, Pending)
<1>1. Known /\ store \in History /\ Pending \in StoredMessage
  BY PendingIs DEF KnownOK, Appending
<1>2. UsersOf(store) <= UsersOf(cache) /\ cache \in History
  BY <1>1 DEF Known
<1>3. OneMore(cache', cache, Pending) /\ (store' = Append(store, Pending) => OneMore(store', store, Pending))
  BY DEF OneMore
<1> DEFINE z == IF Pending = User THEN 1 ELSE 0
<1>4. z \in {0, 1}
  OBVIOUS
<1>5. cache' \in History /\ UsersOf(cache) \in Nat /\ UsersOf(cache') = UsersOf(cache) + z
  BY <1>1, <1>2, <1>3, OneMoreSaid, UsersCount
<1>6. UsersOf(store) \in Nat /\ GuestsOf(store) \in Nat
  BY <1>1, UsersCount
<1>7. /\ store' \in History /\ GuestsOf(store') >= GuestsOf(store)
      /\ UsersOf(store') = UsersOf(store) + z \/ UsersOf(store') = UsersOf(store)
  BY <1>1, <1>3, <1>6, OneMoreSaid
<1> HIDE DEF z
<1>8. UsersOf(store') <= UsersOf(cache') /\ UsersOf(store') >= UsersOf(store)
  BY <1>2, <1>4, <1>5, <1>6, <1>7
<1>. QED
  BY <1>3, <1>5, <1>7, <1>8 DEF Known, SaidKept

\* A compaction leaves a history, with all that was said, and paired when it was.
LEMMA CompactedIs ==
  ASSUME NEW h \in History, NEW d \in Droppable(h)
  PROVE  /\ Compacted(h, d) \in History /\ UsersOf(Compacted(h, d)) = UsersOf(h)
         /\ GuestsOf(Compacted(h, d)) = GuestsOf(h)
         /\ Partly(h) /\ Complete(h) => Partly(Compacted(h, d)) /\ Complete(Compacted(h, d))
<1>1. d \in SUBSET Heads(h)
  BY DEF Droppable
<1>2. CASE d = {}
  BY <1>2 DEF Compacted
<1>3. CASE d # {}
  <2>1. Compacted(h, d) = WithoutGroups(h, d)
    BY <1>3 DEF Compacted
  <2>2. WithoutGroups(h, d) \in History /\ \E g : Leaves(h, d, WithoutGroups(h, d), g)
    BY <1>1, <1>3, WithoutIs
  <2>3. UsersOf(WithoutGroups(h, d)) = UsersOf(h) /\ GuestsOf(WithoutGroups(h, d)) = GuestsOf(h)
    <3>1. \A x \in Spoken : Those(WithoutGroups(h, d), {x}) = Those(h, {x})
      BY <1>1, <1>3, UsersStay
    <3>2. User \in Spoken /\ Guest \in Spoken
      BY DEF Spoken
    <3>. QED
      BY <3>1, <3>2 DEF UsersOf, GuestsOf
  <2>4. Partly(h) /\ Complete(h) => Partly(WithoutGroups(h, d)) /\ Complete(WithoutGroups(h, d))
    BY <1>1, <1>3, <2>2, LeavesPaired
  <2>. QED
    BY <2>1, <2>2, <2>3, <2>4
<1>. QED
  BY <1>2, <1>3
\* A step chooses no other plan.
LEMMA PlanStays ==
  ASSUME [Next]_vars
  PROVE  plan' = plan
<1>. USE DEF conversation, batch, counters
<1>1. StopInterrupted \/ (\E i \in DOMAIN job : StopGivesUp(i)) => plan' = plan
  BY DEF StopInterrupted, StopGivesUp
<1>. QED
  BY <1>1, Steps DEF UserSaid, OutOfSteps, Request, ModelFails, Said, OwnerLost, Finish, StubsDone, Stopped, Compact,
     Load, Cancel, Deadline, StoreFails, Restart, LockLost, LockTaken, OthersGoOn, OpenedElsewhere, OrphanEnds, vars,
     StartRun, Crash, AutoVerifies, ModelAnswers, Batch, Reject, Dispatch, Answered, Stubbed, ToolEnds,
     Record, StopJob

\* A sequence that begins as another, and is not it, has one element more at least.
LEMMA LongerHas ==
  ASSUME NEW T, NEW s \in Seq(T), NEW t \in Seq(T), IsPrefix(s, t), t # s
  PROVE  t[Len(s) + 1] \in T
<1>1. Len(s) \in Nat /\ Len(t) \in Nat /\ Len(s) <= Len(t) /\ SubSeq(s, 1, Len(s)) = SubSeq(t, 1, Len(s))
  BY DEF IsPrefix
<1>2. SubSeq(s, 1, Len(s)) = s /\ SubSeq(t, 1, Len(t)) = t
  OBVIOUS
<1>3. Len(s) + 1 \in 1..Len(t)
  BY <1>1, <1>2
<1>. QED
  BY <1>3

\* Every step keeps the conversation known, and loses nothing the user said.
LEMMA KnownStep ==
  ASSUME HistoryInv, [Next]_vars
  PROVE  KnownOK' /\ SaidKept
<1>. USE DEF conversation, batch, counters
<1>. BatchType /\ BatchOK /\ KnownOK
  BY DEF HistoryInv, RunInv
<1>0. /\ store \in History /\ (cache = None \/ Known)
      /\ pc \notin {"idle", "down", "loading"} => Known
      /\ pc \in {"down", "loading"} => cache = None
  BY DEF KnownOK
<1>1. /\ UsersOf(store) \in Nat /\ UsersOf(store) >= UsersOf(store)
      /\ GuestsOf(store) \in Nat /\ GuestsOf(store) >= GuestsOf(store)
  <2>1. UsersOf(store) \in Nat /\ GuestsOf(store) \in Nat
    BY <1>0, UsersCount
  <2>. QED
    BY <2>1
<1>2. ASSUME store' \in History, SaidKept, Known', pc' \notin {"down", "loading"}
      PROVE  KnownOK' /\ SaidKept
  BY <1>2 DEF KnownOK
\* one message more
<1>3. CASE UserSaid \/ Said \/ AutoVerifies \/ Answered \/ Stubbed \/ StoreFails
  <2>1. /\ Appending /\ cache' = Append(cache, Pending)
        /\ store' = Append(store, Pending) \/ store' = store
    BY <1>3 DEF UserSaid, Said, AutoVerifies, Answered, Stubbed, StoreFails, Persist, Appending
  <2>2. pc' \notin {"down", "loading"}
    <3>1. CASE UserSaid \/ Said \/ AutoVerifies \/ Stubbed \/ StoreFails
      BY <3>1 DEF UserSaid, Said, AutoVerifies, Stubbed, StoreFails, GoesOn, Ends, BatchType
    <3>2. CASE Answered
      BY <3>2, AnswerLeads
    <3>. QED
      BY <1>3, <3>1, <3>2
  <2>3. store' \in History /\ Known' /\ SaidKept
    BY <2>1, PersistIs
  <2>. QED
    BY <1>2, <2>2, <2>3
\* the conversation stays as it is
<1>4. ASSUME UNCHANGED <<store, cache>>, pc' \in {"down", "loading"} => cache = None,
             pc' \in {pc, "idle", "loading"} \/ cache # None \/ pc \notin {"idle", "down", "loading"}
      PROVE  KnownOK' /\ SaidKept
  <2>1. Known' <=> Known
    BY <1>4 DEF Known
  <2>. QED
    BY <1>0, <1>1, <1>4, <2>1 DEF KnownOK, SaidKept
<1>5. CASE OutOfSteps \/ Request \/ ModelFails \/ OwnerLost \/ Finish \/ StubsDone \/ Stopped \/ Batch
  <2>1. UNCHANGED <<store, cache>> /\ pc' \notin {"down", "loading"} /\ pc \notin {"idle", "down", "loading"}
    BY <1>5 DEF OutOfSteps, Request, ModelFails, OwnerLost, Finish, StubsDone, Stopped, Batch, GoesOn, Ends, Appending
  <2>. QED
    BY <1>0, <1>4, <2>1
<1>6. CASE \/ Reject \/ Dispatch \/ Cancel \/ Deadline \/ StopInterrupted \/ \E i \in DOMAIN job : StopGivesUp(i)
           \/ LockLost \/ LockTaken \/ OrphanEnds
  <2>1. UNCHANGED <<store, cache>> /\ (pc' = pc \/ (pc' \notin {"down", "loading"} /\ pc \notin {"idle", "down", "loading"}))
    BY <1>6 DEF Reject, Dispatch, Cancel, Deadline, StopInterrupted, StopGivesUp, LockLost, LockTaken, OrphanEnds, GoesOn, Ends,
       Interrupted, AtAwait
  <2>. QED
    BY <1>0, <1>4, <2>1
<1>7. CASE StartRun \/ Restart \/ UNCHANGED vars
  <2>1. UNCHANGED <<store, cache>> /\ (pc' \in {pc, "idle", "loading"} \/ (pc' = "created" /\ cache # None))
    BY <1>7 DEF StartRun, Restart, vars
  <2>2. pc' \in {"down", "loading"} => cache = None
    BY <1>0, <1>7 DEF StartRun, Restart, vars
  <2>. QED
    BY <1>4, <2>1, <2>2
<1>8. ASSUME NEW b \in Batches, NEW r \in {"stop", "length", "cancelled"}, ModelAnswers(b, r)
      PROVE  KnownOK' /\ SaidKept
  <2>1. UNCHANGED <<store, cache>> /\ pc' = "said" /\ pc = "model"
    BY <1>8 DEF ModelAnswers, GoesOn
  <2>. QED
    BY <1>0, <1>4, <2>1
<1>9. ASSUME NEW i \in DOMAIN job, ToolEnds(i) \/ Record(i) \/ StopJob(i)
      PROVE  KnownOK' /\ SaidKept
  <2>1. UNCHANGED <<store, cache>> /\ pc \in {"dispatch", "tools", "stopping"} /\ pc' \in {pc, "answer", "tools"}
    BY <1>9 DEF ToolEnds, Record, StopJob, GoesOn
  <2>. QED
    BY <1>0, <1>4, <2>1
\* what is stored is repaired
<1>10. /\ Repair(store) \in History /\ UsersOf(Repair(store)) = UsersOf(store)
       /\ GuestsOf(Repair(store)) = GuestsOf(store)
  BY <1>0, UsersCount
<1>11. CASE Load
  <2>1. pc = "loading"
    BY <1>11 DEF Load
  <2>2. CASE store' = Repair(store) /\ cache' = Repair(store) /\ pc' = "created"
    <3>1. Known'
      BY <1>1, <1>10, <2>2 DEF Known
    <3>2. SaidKept
      BY <1>1, <1>10, <2>2 DEF SaidKept
    <3>. QED
      BY <1>2, <1>10, <2>2, <3>1, <3>2
  <2>3. CASE /\ Repair(store) # store /\ IsPrefix(store, Repair(store))
             /\ store' = Append(store, Repair(store)[Len(store) + 1]) /\ UNCHANGED <<cache, pc>>
    <3> DEFINE m == Repair(store)[Len(store) + 1]
    <3>1. m \in StoredMessage
      BY <1>0, <1>10, <2>3, LongerHas DEF History
    <3>2. OneMore(store', store, m)
      BY <2>3 DEF OneMore
    <3> HIDE DEF m
    <3>3. store' \in History /\ SaidKept
      BY <1>0, <3>1, <3>2, OneMoreSaid DEF SaidKept
    <3>. QED
      BY <1>0, <2>1, <2>3, <3>3 DEF KnownOK
  <2>. QED
    BY <1>11, <2>2, <2>3 DEF Load
<1>12. CASE OpenedElsewhere
  <2>1. UNCHANGED <<cache, pc>> /\ store' = Repair(store)
    BY <1>12 DEF OpenedElsewhere
  <2>2. (Known' <=> Known) /\ SaidKept
    BY <1>1, <1>10, <2>1 DEF Known, SaidKept
  <2>. QED
    BY <1>0, <1>10, <2>1, <2>2 DEF KnownOK
\* another process says something
<1>15. CASE OthersGoOn
  <2>1. UNCHANGED <<cache, pc>> /\ OneMore(store', Repair(store), Guest)
    BY <1>15 DEF OthersGoOn, OneMore
  <2>2. Guest \in StoredMessage /\ Guest # User
    BY SpokenIs DEF Spoken
  <2>3. store' \in History /\ UsersOf(store') = UsersOf(store) + 0 /\ GuestsOf(store') = GuestsOf(store) + 1
    BY <1>10, <2>1, <2>2, OneMoreSaid
  <2>4. (Known' <=> Known) /\ SaidKept
    BY <1>1, <2>1, <2>3 DEF Known, SaidKept
  <2>. QED
    BY <1>0, <2>1, <2>3, <2>4 DEF KnownOK
<1>13. CASE pc = "loop" /\ \E D \in Droppable(cache) : Compact(D)
  <2>1. PICK D \in Droppable(cache) : Compact(D)
    BY <1>13
  <2>2. store' = Compacted(cache, D) /\ cache' = Compacted(cache, D) /\ pc' \notin {"down", "loading"}
    BY <2>1 DEF Compact, GoesOn, Ends
  <2>3. cache \in History /\ UsersOf(store) <= UsersOf(cache)
    BY <1>0, <1>13 DEF Known
  <2>4. Compacted(cache, D) \in History /\ UsersOf(Compacted(cache, D)) = UsersOf(cache)
        /\ GuestsOf(Compacted(cache, D)) = GuestsOf(cache)
    BY <2>3, CompactedIs
  <2>5. UsersOf(cache) \in Nat /\ GuestsOf(cache) \in Nat /\ (Stale \/ GuestsOf(cache) >= GuestsOf(store))
    <3>1. UsersOf(cache) \in Nat /\ GuestsOf(cache) \in Nat
      BY <2>3, UsersCount
    <3>2. Stale \/ GuestsOf(cache) >= GuestsOf(store)
      BY <1>1, <1>13, <3>1 DEF Stale
    <3>. QED
      BY <3>1, <3>2
  <2>6. Known' /\ SaidKept
    BY <1>1, <2>2, <2>3, <2>4, <2>5 DEF Known, SaidKept
  <2>. QED
    BY <1>2, <2>2, <2>4, <2>6
<1>14. CASE Crash
  <2>1. store' = store /\ cache' = None
    BY <1>14 DEF Crash
  <2>2. pc' = "down"
    BY <1>14 DEF Crash
  <2>. QED
    BY <1>0, <1>1, <2>1, <2>2 DEF KnownOK, SaidKept
<1>. QED
  BY <1>15, <1>3, <1>5, <1>6, <1>7, <1>8, <1>9, <1>11, <1>12, <1>13, <1>14, Steps
\* why a run may end
Reasons == {"final", "budget", "cancelled", "model_error", "repeated", "lost", "raised"}

\* Every step keeps a run where it can be, and within its budgets.
LEMMA ProgressStep ==
  ASSUME HistoryInv, [Next]_vars
  PROVE  ProgressOK'
<1>. USE DEF conversation, batch, counters
<1>. BatchType /\ BatchOK /\ ProgressOK /\ BatchType' /\ plan' = plan
  BY BatchStep, PlanStays DEF HistoryInv, RunInv
<1> DEFINE JobStates == {"wait", "skip", "running", "done", "recorded", "real", "stub", "dropped", "late"}
           Places == {"down", "idle", "loading", "created", "loop", "model", "said", "auto", "batch",
                      "dispatch", "tools", "stopping", "answer", "stub", "finish"}
           Jobs == \A i \in DOMAIN job : job[i] \in JobStates
           AllWait == pc \in {"said", "batch"} => \A i \in DOMAIN job : job[i] = "wait"
           Counted == /\ steps \in 0..StepLimit /\ (pc = "model" => steps < StepLimit)
                      /\ autos \in 0..AutoVerify /\ (pc = "auto" => autos < AutoVerify)
                      /\ evidence \in {"none", "changed", "passed", "failed"}
                      /\ held \in BOOLEAN /\ runs \in 0..plan.runs /\ faults \in 0..MaxFault
<1>0. /\ None \notin Reasons /\ StepLimit \in Nat /\ AutoVerify \in Nat /\ MaxFault \in Nat /\ plan.runs \in Nat
      /\ Jobs /\ AllWait /\ Counted /\ pc \in Places
      /\ stop \in {None} \cup Reasons /\ (pc = "stopping" \/ Halted # {} => stop \in Reasons)
  BY EngineAssumption DEF ProgressOK, Reasons, BatchType
<1>1. ASSUME pc' \in Places, Jobs', AllWait', Counted', stop' = stop \/ stop' \in Reasons,
             Halted' \subseteq Halted \/ stop' \in Reasons,
             pc' = "stopping" => pc = "stopping" \/ stop' \in Reasons
      PROVE  ProgressOK'
  BY <1>0, <1>1 DEF ProgressOK, Reasons
<1>2. job' = job => Jobs' /\ Halted' = Halted /\ (pc' \in {"said", "batch"} /\ pc = pc' => AllWait')
  BY <1>0 DEF Where, Halted
<1>3. ASSUME NEW i \in DOMAIN job, NEW st \in JobStates, job' = [job EXCEPT ![i] = st]
      PROVE  Jobs' /\ (st \notin {"dropped", "late"} => Halted' \subseteq Halted)
  <2>1. DOMAIN job' = DOMAIN job /\ \A j \in DOMAIN job : job'[j] = IF j = i THEN st ELSE job[j]
    BY <1>3
  <2>. QED
    BY <1>0, <2>1 DEF Where, Halted
\* the budgets and what is around the run
<1>4. ASSUME UNCHANGED <<steps, autos, evidence, held, runs>>, faults' = faults \/ \E f : Fault(f),
             pc' = "model" => steps < StepLimit, pc' = "auto" => autos < AutoVerify
      PROVE  Counted'
  <2>1. faults' \in 0..MaxFault
    BY <1>0, <1>4 DEF Fault
  <2>. QED
    BY <1>0, <1>4, <2>1
<1> HIDE DEF JobStates, Places, Jobs, AllWait, Counted
\* the jobs stay as they are
<1>5. CASE UserSaid \/ OutOfSteps \/ Request \/ ModelFails \/ OwnerLost \/ Finish \/ StubsDone \/ Stopped
  <2>1. /\ UNCHANGED <<job, steps, autos, evidence, held, runs, faults>>
        /\ pc' \in {"loop", "model", "finish", "idle", "stub", "answer"}
        /\ pc' = "model" => steps < StepLimit
    BY <1>5 DEF UserSaid, OutOfSteps, Request, ModelFails, OwnerLost, Finish, StubsDone, Stopped, GoesOn, Ends
  <2>2. stop' = stop \/ stop' \in Reasons
    BY <1>0, <1>5 DEF UserSaid, OutOfSteps, Request, ModelFails, OwnerLost, Finish, StubsDone, Stopped, GoesOn, Ends,
       Reasons
  <2>3. Counted'
    BY <1>4, <2>1
  <2>. QED
    BY <1>1, <1>2, <2>1, <2>2, <2>3 DEF Places, AllWait
<1>6. CASE Said
  <2>1. /\ UNCHANGED <<job, steps, autos, evidence, held, runs, faults>> /\ pc = "said"
        /\ pc' \in {"batch", "stub", "finish", "auto"} /\ (pc' = "auto" => autos < AutoVerify)
        /\ stop' = stop \/ stop' \in Reasons
    BY <1>6 DEF Said, GoesOn, Ends, BatchType, WantsVerify, Reasons
  <2>2. AllWait'
    BY <1>0, <2>1 DEF AllWait
  <2>3. Counted'
    BY <1>4, <2>1
  <2>. QED
    BY <1>1, <1>2, <2>1, <2>2, <2>3 DEF Places
<1>7. CASE Load \/ StoreFails \/ Cancel \/ Deadline
  <2>1. /\ UNCHANGED <<job, steps, autos, evidence, held, runs>> /\ (faults' = faults \/ \E f : Fault(f))
        /\ pc' \in {"loading", "created", "idle", "stopping", "finish"}
        /\ stop' = stop \/ stop' \in Reasons
        /\ pc' = "stopping" => stop' \in Reasons
    BY <1>7 DEF Load, StoreFails, Cancel, Deadline, Interrupted, Ends, Reasons
  <2>2. Counted'
    BY <1>4, <2>1
  <2>. QED
    BY <1>1, <1>2, <2>1, <2>2 DEF Places, AllWait
<1>8. CASE Restart \/ OthersGoOn \/ OpenedElsewhere \/ OrphanEnds \/ UNCHANGED vars
  <2>1. /\ UNCHANGED <<job, steps, autos, evidence, held, runs, stop>> /\ (faults' = faults \/ \E f : Fault(f))
        /\ pc' = pc \/ pc' = "idle"
    BY <1>8 DEF Restart, OthersGoOn, OpenedElsewhere, OrphanEnds, vars
  <2>2. AllWait'
    BY <1>0, <2>1 DEF AllWait
  <2>3. Counted'
    BY <1>0, <1>4, <2>1 DEF Counted
  <2>. QED
    BY <1>0, <1>1, <1>2, <2>1, <2>2, <2>3 DEF Places
<1>9. CASE LockLost \/ LockTaken
  <2>1. /\ UNCHANGED <<job, steps, autos, evidence, runs, stop, pc>> /\ held' \in BOOLEAN
        /\ faults' \in 0..MaxFault
    <3>1. /\ UNCHANGED <<job, steps, autos, evidence, runs, stop, pc>> /\ held' \in BOOLEAN
          /\ faults' = faults \/ (faults < MaxFault /\ faults' = faults + 1)
      BY <1>9 DEF LockLost, LockTaken, Fault
    <3>2. faults \in 0..MaxFault
      BY <1>0 DEF Counted
    <3>3. faults' \in 0..MaxFault
      BY <1>0, <3>1, <3>2
    <3>. QED
      BY <3>1, <3>3
  <2>2. AllWait' /\ Counted'
    BY <1>0, <2>1 DEF AllWait, Counted
  <2>. QED
    BY <1>0, <1>1, <1>2, <2>1, <2>2
<1>10. CASE pc = "loop" /\ \E D \in Droppable(cache) : Compact(D)
  <2>1. /\ UNCHANGED <<job, steps, autos, evidence, held, runs, faults>>
        /\ pc' \in {"model", "finish"} /\ steps < StepLimit
        /\ stop' = stop \/ stop' \in Reasons
    BY <1>10 DEF Compact, GoesOn, Ends, Reasons
  <2>2. Counted'
    BY <1>4, <2>1
  <2>. QED
    BY <1>1, <1>2, <2>1, <2>2 DEF Places, AllWait
\* the jobs are new
<1>11. CASE StartRun \/ Crash
  <2>1. /\ job' = <<>> /\ stop' = None /\ pc' \in {"loading", "created", "down"} /\ Halted' = {}
    BY <1>11 DEF StartRun, Crash, Where, Halted
  <2>2. Counted'
    <3>1. CASE StartRun
      BY <1>0, <2>1, <3>1 DEF StartRun, Counted
    <3>2. CASE Crash
      BY <1>0, <1>4, <2>1, <3>2 DEF Crash
    <3>. QED
      BY <1>11, <3>1, <3>2
  <2>. QED
    BY <2>1, <2>2 DEF ProgressOK, Counted
<1>12. CASE AutoVerifies
  <2>1. /\ job' = <<"wait">> /\ pc = "auto" /\ pc' = "batch" /\ autos' = autos + 1
        /\ UNCHANGED <<stop, steps, evidence, held, runs, faults>>
    BY <1>12 DEF AutoVerifies, GoesOn
  <2>2. DOMAIN job' = {1} /\ job'[1] = "wait"
    BY <2>1
  <2>3. Jobs' /\ AllWait' /\ Halted' = {}
    BY <2>2 DEF Jobs, AllWait, Where, Halted, JobStates
  <2>4. Counted'
    BY <1>0, <2>1 DEF Counted
  <2>. QED
    BY <1>1, <2>1, <2>3, <2>4 DEF Places
<1>13. ASSUME NEW b \in Batches, NEW r \in {"stop", "length", "cancelled"}, ModelAnswers(b, r)
       PROVE  ProgressOK'
  <2>1. /\ job' = [i \in DOMAIN b |-> "wait"] /\ pc = "model" /\ pc' = "said" /\ steps' = steps + 1
        /\ UNCHANGED <<stop, autos, evidence, held, runs, faults>>
    BY <1>13 DEF ModelAnswers, GoesOn
  <2>2. \A i \in DOMAIN job' : job'[i] = "wait"
    BY <2>1
  <2>3. Jobs' /\ AllWait' /\ Halted' = {}
    BY <2>2 DEF Jobs, AllWait, Where, Halted, JobStates
  <2>4. Counted'
    BY <1>0, <2>1 DEF Counted
  <2>. QED
    BY <1>1, <2>1, <2>3, <2>4 DEF Places
<1>14. CASE Batch
  <2>1. /\ job' = [i \in DOMAIN job |-> IF i <= Allowed THEN "wait" ELSE "skip"] /\ pc' \in {"stub", "dispatch"}
        /\ UNCHANGED <<stop, steps, autos, evidence, held, runs, faults>>
    BY <1>14 DEF Batch, GoesOn
  <2>2. \A i \in DOMAIN job' : job'[i] \in {"wait", "skip"}
    BY <2>1
  <2>3. Jobs' /\ Halted' = {}
    BY <2>2 DEF Jobs, Where, Halted, JobStates
  <2>4. Counted'
    BY <1>4, <2>1
  <2>. QED
    BY <1>1, <2>1, <2>3, <2>4 DEF Places, AllWait
\* a job goes on
<1>15. CASE Reject \/ Dispatch
  <2>1. First(Where("wait")) \in DOMAIN job
    <3>1. Where("wait") # {}
      BY <1>15 DEF Reject, Dispatch, BatchOK
    <3>. QED
      BY <3>1, JobSets, FirstIsOne
  <2>2. /\ \E st \in {"running", "recorded"} : job' = [job EXCEPT ![First(Where("wait"))] = st]
        /\ pc' \in {"answer", "tools", "dispatch"} /\ UNCHANGED <<stop, steps, autos, evidence, held, runs, faults>>
    BY <1>15 DEF Reject, Dispatch, GoesOn
  <2>3. Jobs' /\ Halted' \subseteq Halted
    BY <1>3, <2>1, <2>2 DEF JobStates
  <2>4. Counted'
    BY <1>4, <2>2
  <2>. QED
    BY <1>1, <2>2, <2>3, <2>4 DEF Places, AllWait
<1>16. CASE Answered
  <2>1. First(Where("recorded")) \in DOMAIN job
    <3>1. Where("recorded") # {}
      BY <1>16 DEF Answered, BatchOK
    <3>. QED
      BY <3>1, JobSets, FirstIsOne
  <2>2. /\ job' = [job EXCEPT ![First(Where("recorded"))] = "real"]
        /\ UNCHANGED <<steps, autos, evidence, held, runs, faults>>
    BY <1>16 DEF Answered
  <2>3. pc' \in {"answer", "stub", "dispatch", "loop", "finish"}
    BY <1>16, AnswerLeads
  <2>4. stop' = stop \/ stop' \in Reasons
    <3>1. invalid >= RepeatLimit \/ invalid < RepeatLimit
      BY EngineAssumption DEF BatchType
    <3>2. AfterBatch => stop' = stop \/ stop' \in Reasons
      <4>1. CASE ByEngine
        BY <4>1 DEF AfterBatch, GoesOn, Ends, Reasons
      <4>2. CASE ~ByEngine
        BY <3>1, <4>2 DEF AfterBatch, GoesOn, Ends, Reasons
      <4>. QED
        BY <4>1, <4>2
    <3>. QED
      BY <1>16, <3>2 DEF Answered, GoesOn
  <2>5. Jobs' /\ Halted' \subseteq Halted
    BY <1>3, <2>1, <2>2 DEF JobStates
  <2>6. Counted'
    BY <1>4, <2>2, <2>3
  <2>. QED
    BY <1>1, <2>3, <2>4, <2>5, <2>6 DEF Places, AllWait
<1>17. CASE Stubbed
  <2>1. First(Unanswered) \in DOMAIN job
    <3>1. Unanswered # {} /\ Unanswered \in SUBSET DOMAIN job
      BY <1>17 DEF Stubbed, Unanswered
    <3>. QED
      BY <3>1, JobSets, FirstIsOne
  <2>2. /\ job' = [job EXCEPT ![First(Unanswered)] = "stub"] /\ pc' = "stub"
        /\ UNCHANGED <<stop, steps, autos, evidence, held, runs, faults>>
    BY <1>17 DEF Stubbed, GoesOn
  <2>3. Jobs' /\ Halted' \subseteq Halted
    BY <1>3, <2>1, <2>2 DEF JobStates
  <2>4. Counted'
    BY <1>4, <2>2
  <2>. QED
    BY <1>1, <2>2, <2>3, <2>4 DEF Places, AllWait
<1>18. ASSUME NEW i \in DOMAIN job, ToolEnds(i) \/ Record(i)
       PROVE  ProgressOK'
  <2>1. /\ \E st \in {"done", "recorded"} : job' = [job EXCEPT ![i] = st]
        /\ pc' \in {pc, "answer", "tools"} /\ pc \in {"dispatch", "tools", "stopping"}
        /\ UNCHANGED <<stop, steps, autos, held, runs, faults>>
    BY <1>18 DEF ToolEnds, Record, GoesOn
  <2>2. evidence' \in {"none", "changed", "passed", "failed"}
    BY <1>0, <1>18 DEF ToolEnds, Record, Counted
  <2>3. Jobs' /\ Halted' \subseteq Halted
    BY <1>3, <2>1 DEF JobStates
  <2>4. Counted'
    BY <1>0, <2>1, <2>2 DEF Counted
  <2>. QED
    BY <1>1, <2>1, <2>3, <2>4 DEF Places, AllWait
<1>19. ASSUME NEW i \in DOMAIN job, StopJob(i)
       PROVE  ProgressOK'
  <2>1. /\ job' = [job EXCEPT ![i] = IF calls[i].kind = "write" THEN "late" ELSE "dropped"]
        /\ pc = "stopping" /\ pc' = "stopping"
        /\ UNCHANGED <<stop, steps, autos, evidence, held, runs, faults>>
    BY <1>19 DEF StopJob
  <2>a. \E st \in {"late", "dropped"} : job' = [job EXCEPT ![i] = st]
    BY <2>1
  <2>2. stop' \in Reasons
    BY <1>0, <2>1
  <2>3. Jobs'
    BY <1>3, <2>a DEF JobStates
  <2>4. Counted'
    BY <1>4, <2>1
  <2>. QED
    BY <1>1, <2>1, <2>2, <2>3, <2>4 DEF Places, AllWait
<1>20. CASE StopInterrupted \/ \E i \in DOMAIN job : StopGivesUp(i)
  <2>1. PICK S \in SUBSET Started :
           /\ GiveUp(S) /\ pc = "stopping" /\ stop' \in {stop, "cancelled"}
           /\ Fault("stuck") \/ Fault("cancel") \/ Fault("deadline")
           /\ UNCHANGED <<pc, autos, evidence, steps, held>>
    BY <1>20, GivesUp
  <2>2. stop' \in Reasons /\ UNCHANGED runs
    BY <1>0, <1>20, <2>1 DEF Reasons, StopInterrupted, StopGivesUp
  <2>3. Jobs'
    BY <1>0, <2>1 DEF GiveUp, Jobs, JobStates
  <2>4. Counted'
    BY <1>4, <2>1, <2>2
  <2>. QED
    BY <1>1, <2>1, <2>2, <2>3, <2>4 DEF Places, AllWait
<1>. QED
  BY <1>5, <1>6, <1>7, <1>8, <1>9, <1>10, <1>11, <1>12, <1>13, <1>14, <1>15, <1>16, <1>17, <1>18, <1>19, <1>20, Steps
\* The ids of any calls, as the message that makes them has them.
LEMMA IdsAre ==
  ASSUME NEW n \in Nat, NEW c \in [1..n -> Call]
  PROVE  LET ids == [i \in DOMAIN c |-> c[i].id] IN
         /\ ids \in Seq(CallId) /\ Len(ids) = n
         /\ \A i \in 1..n : ids[i] = c[i].id
         /\ c = <<>> => ids = <<>>
<1> DEFINE ids == [i \in DOMAIN c |-> c[i].id]
<1>1. ids \in [1..n -> CallId] /\ \A i \in 1..n : ids[i] = c[i].id
  BY DEF Call, CallId
<1>2. ids \in Seq(CallId) /\ Len(ids) = n
  BY <1>1
<1>3. c = <<>> => ids = <<>>
  OBVIOUS
<1>. QED
  BY <1>1, <1>2, <1>3

\* Every step of a process that keeps its session and its store keeps the answers in their places.
LEMMA HistoryStep ==
  ASSUME HistoryInv, [Next]_vars
  PROVE  HistoryOK'
<1>. USE DEF conversation, batch, counters
<1>. BatchType /\ BatchOK /\ BatchType' /\ KnownOK /\ ProgressOK /\ plan' = plan
  BY BatchStep, PlanStays DEF HistoryInv, RunInv
<1>. SUFFICES ASSUME Held
              PROVE  HistoryOK'
  BY DEF Held, HistoryOK
<1> DEFINE Whole == {"created", "loop", "model", "said", "auto", "finish"}
           InBatch == {"batch", "dispatch", "tools", "stopping", "answer", "stub"}
<1>0. /\ store \in History /\ Partly(store)
      /\ pc \in Whole => Complete(store)
      /\ pc = "idle" /\ cache # None => Complete(store)
      /\ pc \in InBatch => Open(store, CallIds, Told)
  BY DEF HistoryInv, HistoryOK, KnownOK
<1>1. /\ held
      /\ pc \in {"loading", "down"} => cache = None
      /\ pc \notin {"idle", "down", "loading"} => cache = store
  BY DEF HistoryInv, RunInv, HeldOK, KnownOK
<1>2. \A f \in {"lock", "db", "open"} : ~Fault(f)
  BY DEF Held, Fault
<1>3. ASSUME Partly(store'), pc' \in Whole, Complete(store')
      PROVE  HistoryOK'
  BY <1>3 DEF HistoryOK
<1>4. ASSUME Partly(store'), pc' \in InBatch, Open(store', CallIds', Told')
      PROVE  HistoryOK'
  BY <1>4 DEF HistoryOK
<1>5. CallIds' = CallIds \/ calls' # calls
  BY DEF CallIds
<1>c. /\ CallIds \in Seq(CallId) /\ 1..Len(CallIds) = DOMAIN job
      /\ \A i \in DOMAIN job : CallIds[i] = calls[i].id
      /\ calls = <<>> => CallIds = <<>>
  <2>1. PICK n \in Nat : calls \in [1..n -> Call] /\ DOMAIN job = 1..n
    BY DEF BatchType
  <2>. QED
    BY <2>1, IdsAre DEF CallIds
<1>6. Told \in SUBSET DOMAIN job /\ Unanswered = DOMAIN job \ Told
  BY DEF Told, Unanswered
\* one call is answered
<1>7. ASSUME NEW i \in DOMAIN job, i \notin Told, calls' = calls, OneMore(store', store, Pending), pc \in InBatch,
             Pending = Answer(calls[i].id) \/ Pending = Stub(calls[i].id), Appending,
             NEW st \in {"real", "stub"}, job' = [job EXCEPT ![i] = st]
      PROVE  /\ Partly(store') /\ store' \in History /\ Open(store', CallIds', Told')
             /\ Told' = Told \cup {i} /\ CallIds' = CallIds
  <2>1. Told' = Told \cup {i}
    BY <1>7 DEF Told
  <2>2. Pending \in StoredMessage /\ Pending.role = "tool" /\ Pending.ids[1] = calls[i].id
    BY <1>7, PendingIs DEF Answer, Stub, Message
  <2>3. CallIds \in Seq(CallId) /\ i \in 1..Len(CallIds) /\ CallIds[i] = calls[i].id
    BY <1>7, <1>c
  <2>4. Partly(store') /\ store' \in History /\ Open(store', CallIds, Told \cup {i})
    BY <1>0, <1>7, <2>2, <2>3, NewAnswer
  <2>. QED
    BY <1>5, <1>7, <2>1, <2>4
\* all are answered
<1>8. ASSUME Partly(store'), store' \in History, Open(store', CallIds', Told'), DOMAIN job' \subseteq Told'
      PROVE  Complete(store')
  <2>1. CallIds' \in Seq(CallId) /\ 1..Len(CallIds') = DOMAIN job'
    <3>1. PICK n \in Nat : calls' \in [1..n -> Call] /\ DOMAIN job' = 1..n
      BY DEF BatchType
    <3>. QED
      BY <3>1, IdsAre DEF CallIds
  <2>. QED
    BY <1>8, <2>1, AllAnswered
\* nothing is said
<1>9. ASSUME store' = store, calls' = calls, Told' = Told, pc' \in InBatch, pc \in InBatch
      PROVE  HistoryOK'
  BY <1>0, <1>4, <1>5, <1>9
<1>10. ASSUME store' = store, pc' \in Whole, Complete(store)
       PROVE  HistoryOK'
  BY <1>0, <1>3, <1>10
\* a message that makes no calls, or new ones
<1>11. CASE UserSaid \/ Said \/ AutoVerifies
  <2>1. /\ Appending /\ cache' = Append(cache, Pending) /\ store' = Append(store, Pending)
        /\ pc \in {"created", "said", "auto"}
    BY <1>11 DEF UserSaid, Said, AutoVerifies, Persist, Appending
  <2>2. store' \in History /\ OneMore(store', store, Pending)
    BY <2>1, PersistIs
  <2>3. /\ Pending \in StoredMessage
        /\ pc = "created" => Pending = User
        /\ pc = "said" => Pending = Assistant(CallIds)
        /\ pc = "auto" => Pending = Assistant(<<AutoId>>)
    BY <2>1, PendingIs
  <2>4. /\ User.role = "user" /\ User.ids = <<>>
        /\ \A ids : Assistant(ids).role = "assistant" /\ Assistant(ids).ids = ids
    BY DEF User, Assistant, Message
  <2>5. Pending.role # "tool"
    BY <2>1, <2>3, <2>4
  <2>6. /\ Partly(store')
        /\ Pending.ids = <<>> => Complete(store')
        /\ Pending.role = "assistant" => Open(store', Pending.ids, {})
    BY <1>0, <2>1, <2>2, <2>3, <2>5, NewMessage
  <2>7. CASE UserSaid
    <3>1. pc = "created" /\ pc' = "loop"
      BY <2>7 DEF UserSaid, GoesOn
    <3>. QED
      BY <1>3, <2>3, <2>4, <2>6, <3>1
  <2>8. CASE Said
    <3>1. pc = "said" /\ calls' = calls /\ job' = job
      BY <2>8 DEF Said
    <3>2. Pending.ids = CallIds /\ Pending.role = "assistant"
      BY <2>3, <2>4, <3>1
    <3>3. CASE calls = <<>>
      <4>1. pc' \in {"finish", "auto"}
        BY <2>8, <3>3 DEF Said, GoesOn, Ends, BatchType
      <4>2. Complete(store')
        BY <1>c, <2>6, <3>2, <3>3
      <4>. QED
        BY <1>3, <2>6, <4>1, <4>2
    <3>4. CASE calls # <<>>
      <4>1. pc' \in {"batch", "stub"}
        BY <2>8, <3>4 DEF Said, GoesOn, Ends, BatchType
      <4>2. Told' = {}
        BY <3>1 DEF Told, ProgressOK
      <4>3. CallIds' = CallIds
        BY <1>5, <3>1
      <4>. QED
        BY <1>4, <2>6, <3>2, <4>1, <4>2, <4>3
    <3>. QED
      BY <3>3, <3>4
  <2>9. CASE AutoVerifies
    <3>1. pc = "auto" /\ pc' = "batch" /\ calls' = <<[id |-> AutoId, kind |-> "test"]>> /\ job' = <<"wait">>
      BY <2>9 DEF AutoVerifies, GoesOn
    <3>2. CallIds' = <<AutoId>>
      BY <3>1 DEF CallIds
    <3>3. Told' = {}
      BY <3>1 DEF Told
    <3>4. Open(store', <<AutoId>>, {})
      BY <2>3, <2>4, <2>6, <3>1
    <3>. QED
      BY <1>4, <2>6, <3>1, <3>2, <3>3, <3>4
  <2>. QED
    BY <1>11, <2>7, <2>8, <2>9
\* nothing is said, and no call is open
<1>12. CASE OutOfSteps \/ Request \/ ModelFails
  <2>1. store' = store /\ pc \in {"loop", "model"} /\ pc' \in {"loop", "model", "finish"}
    BY <1>12 DEF OutOfSteps, Request, ModelFails, GoesOn, Ends
  <2>. QED
    BY <1>0, <1>10, <2>1
<1>13. ASSUME NEW b \in Batches, NEW r \in {"stop", "length", "cancelled"}, ModelAnswers(b, r)
       PROVE  HistoryOK'
  <2>1. store' = store /\ pc = "model" /\ pc' = "said"
    BY <1>13 DEF ModelAnswers, GoesOn
  <2>. QED
    BY <1>0, <1>10, <2>1
<1>14. CASE pc = "loop" /\ \E D \in Droppable(cache) : Compact(D)
  <2>1. PICK D \in Droppable(cache) : Compact(D)
    BY <1>14
  <2>2. store' = Compacted(cache, D) /\ pc' \in {"model", "finish"} /\ cache = store
    BY <1>1, <1>14, <2>1 DEF Compact, GoesOn, Ends
  <2>3. D \in Droppable(store) /\ store' = Compacted(store, D) /\ Complete(store)
    BY <1>0, <1>14, <2>1, <2>2
  <2>4. Partly(store') /\ Complete(store')
    BY <1>0, <2>3, CompactedIs
  <2>. QED
    BY <1>3, <2>2, <2>4
\* the calls are handled, and nothing is said
<1>15. CASE Batch
  <2>1. store' = store /\ calls' = calls /\ pc = "batch" /\ pc' \in {"stub", "dispatch"}
        /\ job' = [i \in DOMAIN job |-> IF i <= Allowed THEN "wait" ELSE "skip"]
    BY <1>15 DEF Batch, GoesOn
  <2>2. Told' = {} /\ Told = {}
    BY <2>1 DEF Told, ProgressOK
  <2>. QED
    BY <1>9, <2>1, <2>2
<1>16. ASSUME NEW i \in DOMAIN job, i \notin Told, NEW st, st \notin {"real", "stub"}, job' = [job EXCEPT ![i] = st]
       PROVE  Told' = Told
  BY <1>16 DEF Told
<1>17. CASE Reject \/ Dispatch
  <2>1. store' = store /\ calls' = calls /\ pc = "dispatch" /\ pc' \in {"answer", "tools", "dispatch"}
        /\ \E st \in {"running", "recorded"} : job' = [job EXCEPT ![First(Where("wait"))] = st]
    BY <1>17 DEF Reject, Dispatch, GoesOn
  <2>2. First(Where("wait")) \in Where("wait")
    BY <2>1, JobSets, FirstIsOne DEF BatchOK
  <2>3. First(Where("wait")) \in DOMAIN job /\ First(Where("wait")) \notin Told
    BY <2>2 DEF Where, Told
  <2>4. Told' = Told
    BY <1>16, <2>1, <2>3
  <2>. QED
    BY <1>9, <2>1, <2>4
<1>18. ASSUME NEW i \in DOMAIN job, ToolEnds(i) \/ Record(i) \/ StopJob(i)
       PROVE  HistoryOK'
  <2>1. store' = store /\ calls' = calls /\ pc \in {"dispatch", "tools", "stopping"} /\ pc' \in {pc, "answer", "tools"}
        /\ job[i] \in {"running", "done"} /\ \E st \in {"done", "recorded", "dropped", "late"} : job' = [job EXCEPT ![i] = st]
    BY <1>18 DEF ToolEnds, Record, StopJob, GoesOn
  <2>2. i \notin Told
    BY <2>1 DEF Told
  <2>3. Told' = Told
    BY <1>16, <2>1, <2>2
  <2>. QED
    BY <1>9, <2>1, <2>3
<1>19. CASE Stopped
  <2>1. store' = store /\ calls' = calls /\ job' = job /\ pc = "stopping" /\ pc' \in {"stub", "answer"}
    BY <1>19 DEF Stopped, GoesOn
  <2>2. Told' = Told
    BY <2>1 DEF Told
  <2>. QED
    BY <1>9, <2>1, <2>2
<1>20. CASE Cancel \/ Deadline
  <2>1. store' = store /\ calls' = calls /\ job' = job
        /\ ((pc \in {"tools", "dispatch"} /\ pc' = "stopping") \/ (pc \in {"created", "model"} /\ pc' = "finish"))
    BY <1>20 DEF Cancel, Deadline, Interrupted, Ends, AtAwait
  <2>2. Told' = Told
    BY <2>1 DEF Told
  <2>. QED
    BY <1>0, <1>9, <1>10, <2>1, <2>2
\* an answer
<1>21. CASE Answered
  <2> DEFINE i == First(Where("recorded"))
  <2>1. pc = "answer" /\ calls' = calls /\ Appending /\ Persist /\ job' = [job EXCEPT ![i] = "real"]
    BY <1>21 DEF Answered, Appending
  <2>2. i \in Where("recorded") /\ Pending = Answer(calls[i].id)
    BY <2>1, PendingIs
  <2>3. i \in DOMAIN job /\ i \notin Told
    BY <2>2 DEF Where, Told
  <2>4. OneMore(store', store, Pending)
    BY <2>1, PersistIs DEF Persist
  <2> HIDE DEF i
  <2>5. /\ Partly(store') /\ store' \in History /\ Open(store', CallIds', Told')
        /\ Told' = Told \cup {i}
    BY <1>7, <2>1, <2>2, <2>3, <2>4
  <2>6. pc' \in {"answer", "stub", "dispatch", "loop", "finish"}
    BY <1>21, AnswerLeads
  <2>7. CASE pc' \in {"answer", "stub", "dispatch"}
    BY <1>4, <2>5, <2>7
  <2>8. CASE pc' \in {"loop", "finish"}
    <3>1. Where("recorded") = {i} /\ stop = None /\ Where("wait") = {} /\ Where("skip") = {}
      BY <1>21, <2>8 DEF Answered, GoesOn, i
    <3>2. Halted = {} /\ Where("running") = {} /\ Where("done") = {}
      BY <2>1, <3>1 DEF ProgressOK, BatchOK, Started
    <3>3. DOMAIN job' \subseteq Told'
      <4>1. DOMAIN job' = DOMAIN job
        BY <2>1
      <4>2. ASSUME NEW j \in DOMAIN job PROVE j \in Told \cup {i}
        <5>1. job[j] \in {"wait", "skip", "running", "done", "recorded", "real", "stub", "dropped", "late"}
          BY DEF ProgressOK
        <5>. QED
          BY <3>1, <3>2, <5>1 DEF Where, Halted, Told
      <4>. QED
        BY <2>5, <4>1, <4>2
    <3>4. Complete(store')
      BY <1>8, <2>5, <3>3
    <3>. QED
      BY <1>3, <2>5, <2>8, <3>4
  <2>. QED
    BY <2>6, <2>7, <2>8
<1>22. CASE Stubbed
  <2> DEFINE i == First(Unanswered)
  <2>1. pc = "stub" /\ pc' = "stub" /\ calls' = calls /\ Appending /\ Persist /\ job' = [job EXCEPT ![i] = "stub"]
    BY <1>22 DEF Stubbed, Appending, GoesOn
  <2>2. i \in Unanswered /\ Pending = Stub(calls[i].id)
    BY <2>1, PendingIs
  <2>3. i \in DOMAIN job /\ i \notin Told
    BY <1>6, <2>2
  <2>4. OneMore(store', store, Pending)
    BY <2>1, PersistIs DEF Persist
  <2> HIDE DEF i
  <2>5. Partly(store') /\ Open(store', CallIds', Told')
    BY <1>7, <2>1, <2>2, <2>3, <2>4
  <2>. QED
    BY <1>4, <2>1, <2>5
<1>23. CASE StubsDone
  <2>1. store' = store /\ job' = job /\ calls' = calls /\ pc = "stub" /\ pc' = "finish" /\ Unanswered = {}
    BY <1>23 DEF StubsDone, Ends
  <2>2. 1..Len(CallIds) \subseteq Told
    BY <1>6, <1>c, <2>1
  <2>3. Complete(store)
    BY <1>0, <1>c, <2>1, <2>2, AllAnswered
  <2>. QED
    BY <1>10, <2>1, <2>3
\* the run starts, is over, or crashes
<1>24. CASE Finish
  <2>1. store' = store /\ pc = "finish" /\ pc' = "idle"
    BY <1>24 DEF Finish
  <2>. QED
    BY <1>0, <2>1 DEF HistoryOK
<1>25. CASE StartRun
  <2>1. store' = store /\ pc = "idle" /\ pc' = IF cache = None THEN "loading" ELSE "created"
    BY <1>25 DEF StartRun
  <2>. QED
    BY <1>0, <2>1 DEF HistoryOK
<1>26. CASE Load
  <2>1. \/ store' = Repair(store) /\ pc' = "created"
        \/ /\ Repair(store) # store /\ store' = Append(store, Repair(store)[Len(store) + 1])
           /\ pc' = "loading"
    BY <1>26 DEF Load
  <2>2. CASE store' = Repair(store) /\ pc' = "created"
    <3>1. Partly(store') /\ Complete(store')
      BY <1>0, <2>2, RepairIs
    <3>. QED
      BY <1>3, <2>2, <3>1
  <2>3. CASE /\ Repair(store) # store /\ store' = Append(store, Repair(store)[Len(store) + 1])
             /\ pc' = "loading"
    <3>1. Partly(store')
      BY <1>0, <2>3, LoadOne
    <3>. QED
      BY <2>3, <3>1 DEF HistoryOK
  <2>. QED
    BY <2>1, <2>2, <2>3
<1>27. CASE Crash
  <2>1. store' = store /\ pc' = "down"
    BY <1>27 DEF Crash
  <2>. QED
    BY <1>0, <2>1 DEF HistoryOK
<1>28. CASE Restart
  <2>1. store' = store /\ pc' = "idle" /\ cache' = None
    BY <1>1, <1>28 DEF Restart
  <2>. QED
    BY <1>0, <2>1 DEF HistoryOK
\* what is ruled out
<1>29. CASE OwnerLost \/ StoreFails \/ LockLost \/ LockTaken \/ OthersGoOn \/ OpenedElsewhere
  BY <1>1, <1>2, <1>29 DEF OwnerLost, LockTaken, StoreFails, LockLost, OthersGoOn, OpenedElsewhere
\* jobs are given up, or end later
<1>31. CASE StopInterrupted \/ \E i \in DOMAIN job : StopGivesUp(i)
  <2>1. PICK S \in SUBSET Started : GiveUp(S) /\ pc = "stopping" /\ UNCHANGED <<store, pc, calls>>
    BY <1>31, GivesUp
  <2>2. /\ DOMAIN job' = DOMAIN job /\ \A i \in DOMAIN job : job'[i] = IF i \in S THEN "dropped" ELSE job[i]
        /\ \A i \in S : job[i] \in {"running", "done"}
    BY <2>1 DEF GiveUp, Started, Where
  <2>3. Told' = Told
    BY <2>2 DEF Told
  <2>. QED
    BY <1>9, <2>1, <2>3
<1>30. CASE OrphanEnds \/ UNCHANGED vars
  <2>1. UNCHANGED <<store, cache, pc, calls, job>>
    BY <1>30 DEF OrphanEnds, vars
  <2>2. CallIds' = CallIds /\ Told' = Told
    BY <2>1 DEF CallIds, Told
  <2>. QED
    BY <1>0, <2>1, <2>2 DEF HistoryOK
<1>. QED
  BY <1>11, <1>12, <1>13, <1>14, <1>15, <1>17, <1>18, <1>19, <1>20, <1>21, <1>22, <1>23, <1>24, <1>25, <1>26, <1>27,
     <1>28, <1>29, <1>30, <1>31, Steps

\* The first states are as the invariant says.
LEMMA HistoryInit ==
  ASSUME Init
  PROVE  HistoryInv
<1>. USE DEF Init
<1>1. store = <<>> /\ store \in History /\ cache = None /\ pc = "idle"
  BY DEF History
<1>2. KnownOK
  BY <1>1 DEF KnownOK
<1>3. plan \in Plans /\ plan.runs \in Nat
  BY EngineAssumption
<1>4. ProgressOK
  <2>1. Halted = {} /\ 0 \in 0..StepLimit /\ 0 \in 0..AutoVerify /\ 0 \in 0..MaxFault /\ 0 \in 0..plan.runs
    BY <1>3, EngineAssumption DEF Where, Halted
  <2>. QED
    BY <2>1 DEF ProgressOK
<1>5. HistoryOK
  <2>1. Len(<<>>) = 0
    OBVIOUS
  <2>2. Partly(<<>>)
    BY <2>1 DEF Partly
  <2>. QED
    BY <1>1, <2>2 DEF HistoryOK
<1>. QED
  BY <1>2, <1>4, <1>5, RunInvInit DEF HistoryInv

\* Every reachable state is as the invariant of the conversation says.
THEOREM HistoryInvariant == Spec => []HistoryInv
<1>1. HistoryInv /\ [Next]_vars => HistoryInv'
  BY BatchStep, LoneStep, BudgetStep, AccountStep, HeldStep, KnownStep, ProgressStep, HistoryStep DEF HistoryInv, RunInv
<1>. QED
  BY <1>1, HistoryInit, PTL DEF Spec

\* What the model is sent, what the process remembers and what is stored agree, in every state:
\* a request's calls are each answered once, right after the message that makes them, the copy is
\* what is stored, and a repair of what a crash leaves is paired and loses nothing.
THEOREM HistoryHolds == Spec => []HistorySound
<1>1. HistoryInv => HistorySound
  <2>. SUFFICES ASSUME HistoryInv
                PROVE  HistorySound
    OBVIOUS
  <2>. BatchType /\ KnownOK /\ ProgressOK
    BY DEF HistoryInv, RunInv
  <2>1. TypeOK
    <3>1. \A h \in History : \A i \in DOMAIN h :
             /\ h[i].role \in {"user", "guest", "summary", "assistant", "tool"}
             /\ \A k \in DOMAIN h[i].ids : h[i].ids[k] \in Id \cup {AutoId}
             /\ h[i].real \in BOOLEAN
      BY DEF History, StoredMessage, CallId
    <3>2. \A m \in {store} \cup ({cache} \ {None}) : m \in History
      BY DEF KnownOK, Known
    <3>3. DOMAIN job = DOMAIN calls
      BY JobSets
    <3>. QED
      BY <3>1, <3>2, <3>3 DEF TypeOK, ProgressOK, BatchType
  <2>2. RequestsPaired
    <3>. SUFFICES ASSUME Held, pc = "model" PROVE Paired(cache)
      BY DEF RequestsPaired
    <3>1. cache = store /\ store \in History /\ Partly(store) /\ Complete(store)
      BY DEF HistoryInv, HistoryOK, RunInv, HeldOK, KnownOK
    <3>. QED
      BY <3>1, PairedIs
  <2>3. CopyIsStored
    BY DEF HistoryInv, RunInv, HeldOK, CopyIsStored
  <2>4. RepairSound
    <3>. SUFFICES ASSUME Held
                  PROVE  /\ Paired(Repair(store)) /\ Repair(Repair(store)) = Repair(store)
                         /\ Those(Repair(store), Real) = Those(store, Real)
      BY DEF RepairSound
    <3>1. store \in History /\ Partly(store)
      BY DEF HistoryInv, HistoryOK, KnownOK
    <3>. QED
      BY <3>1, RepairFine
  <2>. QED
    BY <2>1, <2>2, <2>3, <2>4 DEF HistorySound
<1>. QED
  BY <1>1, HistoryInvariant, PTL

\* What the user said to this process is never lost, whatever it missed; what was said to another
\* one is lost only when a copy older than it is compacted, which the code does not prevent.
THEOREM UsersAreKept == Spec => UserMessagesKept
<1>1. HistoryInv /\ [Next]_vars => [SaidKept]_vars
  BY KnownStep
<1>2. SaidKept <=> (UsersOf(store') >= UsersOf(store) /\ (Stale \/ GuestsOf(store') >= GuestsOf(store)))
  BY DEF SaidKept
<1>. QED
  BY <1>1, <1>2, HistoryInvariant, PTL DEF Spec, UserMessagesKept

\* Neither that nor a result which the run has taken is lost on the way.
THEOREM NothingIsLost == Spec => NothingLost
BY UsersAreKept, RecordedAnswersReal, PTL DEF NothingLost

-----------------------------------------------------------------------------
(* The verdict *)

\* What a new record must be for the invariant to survive it: it follows on from the
\* revision and the version of now, a change among the files makes it a change, and a
\* change has bumped the revision.
Follows(r, bumps, changes) ==
  /\ r \in ToolRecord
  /\ r.before = counter /\ r.after = counter + bumps
  /\ r.start = version /\ r.end = version + changes
  /\ IsChange(r) => bumps > 0
  /\ ~IsChange(r) => changes = 0

\* Appending such a record keeps the invariant.
LEMMA AppendKeeps ==
  ASSUME IndInv, NEW r, NEW bumps \in Nat, NEW changes \in Nat,
         Follows(r, bumps, changes),
         records' = Append(records, r),
         counter' = counter + bumps,
         version' = version + changes
  PROVE  IndInv'
<1>. DEFINE n == Len(records)
<1>1. records \in Seq(ToolRecord) /\ counter \in Nat /\ version \in Nat /\ r \in ToolRecord
  BY DEF IndInv, AcceptanceTypeOK, Follows
<1>2. /\ records' \in Seq(ToolRecord) /\ n \in Nat
      /\ DOMAIN records = 1..n /\ DOMAIN records' = 1..n + 1
      /\ records'[n + 1] = r
      /\ \A i \in 1..n : records'[i] = records[i]
  BY <1>1, AppendProperties, LenProperties
<1>3. \A i \in 1..n + 1 : i \in 1..n \/ i = n + 1
  BY <1>2
<1>4. AcceptanceTypeOK'
  BY <1>1, <1>2 DEF AcceptanceTypeOK
<1>5. \A i \in 1..n : records[i] \in ToolRecord
  BY <1>1, <1>2, ElementOfSeq
<1>6. Ordered'
  <2>1. \A i \in 1..n : records[i].after <= counter /\ records[i].after \in Nat
    BY <1>2, <1>5 DEF IndInv, Ordered, ToolRecord
  <2>2. \A i \in 1..n : records'[i].after <= counter'
    BY <2>1, <1>1, <1>2
  <2>3. \A i \in 1..n : records'[i].before <= records'[i].after
    BY <1>2 DEF IndInv, Ordered
  <2>4. \A i, j \in 1..n : j < i => records'[j].after <= records'[i].before
    BY <1>2 DEF IndInv, Ordered
  <2>5. r.before <= r.after /\ r.after <= counter' /\ r.before = counter
    BY <1>1 DEF Follows
  <2>6. \A j \in 1..n : records'[j].after <= records'[n + 1].before
    BY <2>1, <2>5, <1>2
  <2>7. \A i \in 1..n : ~(n + 1 < i)
    BY <1>2
  <2>. QED
    BY <1>2, <1>3, <2>2, <2>3, <2>4, <2>5, <2>6, <2>7 DEF Ordered
<1>7. Accounted'
  <2>. SUFFICES ASSUME NEW i \in 1..n + 1,
                       \A j \in 1..n + 1 : j >= i => ~IsChange(records'[j])
                PROVE  records'[i].start = version' /\ records'[i].end = version'
    BY <1>2 DEF Accounted
  <2>1. ~IsChange(r) /\ changes = 0 /\ version' = version
    BY <1>1, <1>2 DEF Follows
  <2>2. CASE i = n + 1
    BY <2>1, <2>2, <1>1, <1>2 DEF Follows
  <2>3. CASE i \in 1..n
    <3>1. \A j \in 1..n : j >= i => ~IsChange(records[j])
      BY <1>2
    <3>2. records[i].start = version /\ records[i].end = version
      BY <3>1, <2>3, <1>2 DEF IndInv, Accounted
    <3>. QED
      BY <3>2, <2>1, <2>3, <1>2
  <2>. QED
    BY <2>2, <2>3, <1>3
<1>8. ChangesBump'
  <2>1. IsChange(r) => Bumped(r)
    BY <1>1 DEF Follows, Bumped
  <2>2. \A i \in 1..n : IsChange(records'[i]) => Bumped(records'[i])
    BY <1>2 DEF IndInv, ChangesBump
  <2>. QED
    BY <2>1, <2>2, <1>2, <1>3 DEF ChangesBump
<1>9. UnchangedIsZero'
  <2>. SUFFICES ASSUME Changes(records') = {} PROVE version' = 0
    BY DEF UnchangedIsZero
  <2>1. \A i \in 1..n + 1 : ~IsChange(records'[i])
    BY <1>2 DEF Changes
  <2>2. n + 1 \in 1..n + 1 /\ \A i \in 1..n : i \in 1..n + 1
    BY <1>2
  <2>3. ~IsChange(r) /\ changes = 0
    BY <2>1, <2>2, <1>2 DEF Follows
  <2>4. Changes(records) = {}
    BY <2>1, <2>2, <1>2 DEF Changes
  <2>. QED
    BY <2>3, <2>4, <1>1 DEF IndInv, UnchangedIsZero
<1>. QED
  BY <1>4, <1>6, <1>7, <1>8, <1>9 DEF IndInv

\* What the end of a call adds to its record.
LEMMA EndOfCall ==
  ASSUME NEW r \in ToolRecord, NEW a \in Nat, NEW e \in Nat
  PROVE  /\ Ended(r, a, e) \in ToolRecord
         /\ Ended(r, a, e).before = r.before /\ Ended(r, a, e).after = a
         /\ Ended(r, a, e).start = r.start /\ Ended(r, a, e).end = e
         /\ Ended(r, a, e).tool = r.tool /\ Ended(r, a, e).status = r.status
         /\ Ended(r, a, e).paths = r.paths
BY DEF Ended, ToolRecord

\* The end of a call does not touch what was seen of the files.
LEMMA EndKeepsClean ==
  ASSUME NEW r \in ToolRecord, NEW a, NEW e
  PROVE  Ended(r, a, e).clean <=> r.clean
BY Zenon DEF Ended, ToolRecord

\* The record that a call leaves is one to which AppendKeeps applies: first the calls
\* that do not bump the revision.
LEMMA PlainKeeps ==
  ASSUME IndInv, NEW r \in ToolRecord, Recorded(r, 0, 0),
         r.before = counter, r.start = version, ~Reported(r)
  PROVE  IndInv'
<1>. DEFINE new == Ended(r, counter + 0, version + 0)
<1>1. counter \in Nat /\ version \in Nat
  BY DEF IndInv, AcceptanceTypeOK
<1>2. /\ new \in ToolRecord
      /\ new.before = counter /\ new.after = counter /\ new.start = version /\ new.end = version
      /\ new.tool = r.tool /\ new.status = r.status /\ new.paths = r.paths
  <2>1. counter + 0 \in Nat /\ version + 0 \in Nat
    BY <1>1
  <2>2. /\ new \in ToolRecord
        /\ new.tool = r.tool /\ new.status = r.status /\ new.paths = r.paths
    BY ONLY <2>1, r \in ToolRecord, EndOfCall
  <2>3. new.before = r.before /\ new.start = r.start
    BY ONLY <2>1, r \in ToolRecord, EndOfCall
  <2>4. new.after = counter + 0 /\ new.end = version + 0
    BY ONLY <2>1, r \in ToolRecord, EndOfCall
  <2>. HIDE DEF new
  <2>. QED
    BY <1>1, <2>2, <2>3, <2>4
<1>3. ~IsChange(new)
  BY <1>1, <1>2 DEF IsChange, Reported, Bumped
<1>4. Follows(new, 0, 0)
  BY <1>1, <1>2, <1>3 DEF Follows
<1>5. /\ records' = Append(records, new)
      /\ counter' = counter + 0 /\ version' = version + 0
  BY DEF Recorded
<1>. QED
  BY <1>4, <1>5, AppendKeeps

\* Then the calls that do: what they really change is either reported, or seen by the
\* fingerprint or done by a program that is no test runner.
LEMMA BumpKeeps ==
  ASSUME IndInv, NEW r \in ToolRecord, NEW changes \in {0, 1}, Recorded(r, 1, changes),
         r.before = counter, r.start = version, r.status # "rejected",
         changes = 1 => Reported(r) \/ ~r.clean
  PROVE  IndInv'
<1>. DEFINE new == Ended(r, counter + 1, version + changes)
<1>1. counter \in Nat /\ version \in Nat
  BY DEF IndInv, AcceptanceTypeOK
<1>2. /\ new \in ToolRecord
      /\ new.before = counter /\ new.after = counter + 1 /\ new.start = version /\ new.end = version + changes
      /\ new.tool = r.tool /\ new.status = r.status /\ new.paths = r.paths
  <2>1. counter + 1 \in Nat /\ version + changes \in Nat
    BY <1>1
  <2>2. /\ new \in ToolRecord
        /\ new.tool = r.tool /\ new.status = r.status /\ new.paths = r.paths
    BY ONLY <2>1, r \in ToolRecord, EndOfCall
  <2>3. new.before = r.before /\ new.start = r.start
    BY ONLY <2>1, r \in ToolRecord, EndOfCall
  <2>4. new.after = counter + 1 /\ new.end = version + changes
    BY ONLY <2>1, r \in ToolRecord, EndOfCall
  <2>. HIDE DEF new
  <2>. QED
    BY <1>1, <2>2, <2>3, <2>4
<1>6. new.clean <=> r.clean
  BY EndKeepsClean, Zenon
<1>3. changes = 1 => IsChange(new)
  BY <1>1, <1>2, <1>6 DEF IsChange, Reported, Bumped, Trusted
<1>4. Follows(new, 1, changes)
  BY <1>1, <1>2, <1>3 DEF Follows
<1>5. /\ records' = Append(records, new)
      /\ counter' = counter + 1 /\ version' = version + changes
  BY DEF Recorded
<1>. QED
  BY <1>4, <1>5, AppendKeeps

\* The plain record of a call is a record.
LEMMA PlainRecord ==
  ASSUME IndInv, NEW tool \in Tool, NEW status \in Status
  PROVE  /\ Plain(tool, status) \in ToolRecord
         /\ Plain(tool, status).before = counter /\ Plain(tool, status).start = version
         /\ Plain(tool, status).tool = tool /\ Plain(tool, status).status = status
         /\ Plain(tool, status).paths = {}
BY DEF IndInv, AcceptanceTypeOK, Plain, ToolRecord, Tests, Tool, Status

\* A command or test run keeps the invariant, whatever its result and its effect.
LEMMA JobKeeps ==
  ASSUME IndInv, NEW tool \in {"command", "tests"}, NEW status \in {"ok", "failed", "cancelled"},
         NEW flagged \in BOOLEAN, NEW runner \in BOOLEAN, NEW tests \in Tests, NEW changes \in 0..1,
         Job(tool, status, flagged, runner, tests, changes)
  PROVE  IndInv'
<1>. DEFINE r == [Plain(tool, status) EXCEPT !.validation = tool = "tests" \/ flagged,
                    !.runner = runner, !.tests = tests, !.clean = changes = 0]
<1>1. tool \in Tool /\ status \in Status /\ changes \in {0, 1}
  BY DEF Tool, Status
<1>2. Plain(tool, status) \in ToolRecord
  BY <1>1, PlainRecord
<1>3. r \in ToolRecord
  BY <1>2 DEF ToolRecord
<1>4. /\ r.before = counter /\ r.start = version
      /\ r.status = status
  BY <1>1, <1>2, PlainRecord DEF ToolRecord
<1>5. changes = 1 => ~r.clean
  <2>1. r.clean <=> changes = 0
    BY <1>2, Zenon DEF ToolRecord
  <2>2. changes = 1 => changes # 0
    OBVIOUS
  <2>. QED
    BY <2>1, <2>2, Zenon
<1>6. Recorded(r, 1, changes)
  BY DEF Job
<1>. QED
  BY <1>1, <1>3, <1>4, <1>5, <1>6, BumpKeeps

\* Every call of a run keeps the invariant.
LEMMA StepKeeps ==
  ASSUME IndInv, [AcceptanceNext]_acceptance
  PROVE  IndInv'
<1>1. CASE UNCHANGED acceptance
  BY <1>1 DEF acceptance, IndInv, AcceptanceTypeOK, Ordered, Accounted, ChangesBump, UnchangedIsZero, Changes
<1>2. ASSUME NEW tool \in Tool, NEW byRole \in BOOLEAN, RejectCall(tool, byRole)
      PROVE  IndInv'
  <2>. DEFINE p == Plain(tool, "rejected")
              r == [p EXCEPT !.mutates = @ /\ ~byRole, !.validation = @ /\ ~byRole]
  <2>1. p \in ToolRecord /\ p.before = counter /\ p.start = version /\ p.status = "rejected"
    BY PlainRecord DEF Status
  <2>2. r \in ToolRecord /\ r.before = counter /\ r.start = version /\ r.status = "rejected"
    BY <2>1 DEF ToolRecord
  <2>3. ~Reported(r)
    BY <2>2 DEF Reported
  <2>4. Recorded(r, 0, 0)
    BY <1>2 DEF RejectCall
  <2>. QED
    BY <2>2, <2>3, <2>4, PlainKeeps
<1>3. ASSUME NEW p \in File, Read(p)
      PROVE  IndInv'
  <2>. DEFINE r == [Plain("read", "ok") EXCEPT !.paths = {p}]
  <2>1. r \in ToolRecord /\ r.before = counter /\ r.start = version /\ r.tool = "read"
    BY PlainRecord DEF ToolRecord, Tool, Status
  <2>2. ~Reported(r)
    BY <2>1 DEF Reported
  <2>. QED
    BY <1>3, <2>1, <2>2, PlainKeeps DEF Read
<1>4. ASSUME NEW p \in File, Write(p)
      PROVE  IndInv'
  <2>. DEFINE r == [Plain("write", "ok") EXCEPT !.paths = {p}]
  <2>1. /\ r \in ToolRecord /\ r.before = counter /\ r.start = version
        /\ r.tool = "write" /\ r.status = "ok" /\ r.paths = {p}
    BY PlainRecord DEF ToolRecord, Tool, Status
  <2>2. Reported(r) /\ r.status # "rejected"
    BY <2>1 DEF Reported
  <2>3. Recorded(r, 1, 1)
    BY <1>4 DEF Write
  <2>. QED
    BY <2>1, <2>2, <2>3, BumpKeeps
<1>5. CASE ReadFails \/ WriteSame \/ WriteFails
  <2>1. ASSUME NEW tool \in Tool, NEW status \in Status, Recorded(Plain(tool, status), 0, 0)
        PROVE  IndInv'
    <3>1. ~Reported(Plain(tool, status))
      BY PlainRecord DEF Reported
    <3>. QED
      BY <2>1, <3>1, PlainRecord, PlainKeeps
  <2>2. {"read", "write"} \subseteq Tool /\ {"ok", "failed"} \subseteq Status
    BY DEF Tool, Status
  <2>. QED
    BY <1>5, <2>1, <2>2 DEF ReadFails, WriteSame, WriteFails
<1>6. ASSUME NEW status \in {"ok", "failed", "cancelled"}, NEW runner \in BOOLEAN,
             NEW tests \in Tests, NEW changes \in 0..1,
             \/ RunTests(status, runner, tests, changes)
             \/ \E flagged \in BOOLEAN : Command(status, flagged, runner, tests, changes)
      PROVE  IndInv'
  BY <1>6, JobKeeps DEF RunTests, Command
<1>7. ASSUME NEW paths \in SUBSET File, Declare(paths)
      PROVE  IndInv'
  <2>. DEFINE r == [Plain("declare", "ok") EXCEPT !.paths = paths]
  <2>1. r \in ToolRecord /\ r.before = counter /\ r.start = version /\ r.tool = "declare"
    BY PlainRecord DEF ToolRecord, Tool, Status
  <2>2. ~Reported(r)
    BY <2>1 DEF Reported
  <2>. QED
    BY <1>7, <2>1, <2>2, PlainKeeps DEF Declare
<1>. QED
  BY <1>1, <1>2, <1>3, <1>4, <1>5, <1>6, <1>7 DEF AcceptanceNext

\* The records of a run account for every change of the project's files.
THEOREM Inductive == AcceptanceSpec => []IndInv
<1>1. AcceptanceInit => IndInv
  BY DEF AcceptanceInit, IndInv, AcceptanceTypeOK, Ordered, Accounted, ChangesBump, UnchangedIsZero
<1>2. IndInv /\ [AcceptanceNext]_acceptance => IndInv'
  BY StepKeeps
<1>. QED
  BY <1>1, <1>2, PTL DEF AcceptanceSpec

\* Nothing at or after a fresh validation is a change.
LEMMA FreshMeansUnchanged ==
  ASSUME IndInv, NEW i \in DOMAIN records, Fresh(records, i), NEW j \in DOMAIN records, j >= i
  PROVE  ~IsChange(records[j])
<1>1. /\ records[i].before \in Nat /\ records[i].after \in Nat
      /\ records[j].before \in Nat /\ records[j].after \in Nat /\ i \in Nat /\ j \in Nat
  <2>1. DOMAIN records = 1..Len(records) /\ Len(records) \in Nat
    BY LenProperties DEF IndInv, AcceptanceTypeOK
  <2>2. records[i] \in ToolRecord /\ records[j] \in ToolRecord
    BY <2>1, ElementOfSeq DEF IndInv, AcceptanceTypeOK
  <2>. QED
    BY <2>1, <2>2 DEF ToolRecord
<1>2. SUFFICES ASSUME IsChange(records[j]) PROVE FALSE
  OBVIOUS
<1>3. records[i].before >= records[j].after /\ records[j].after > records[j].before
  BY <1>2 DEF Fresh, Changes, IndInv, ChangesBump, Bumped
<1>4. CASE j > i
  <2>1. records[i].before <= records[i].after /\ records[i].after <= records[j].before
    BY <1>4 DEF IndInv, Ordered
  <2>. QED
    BY <1>1, <1>3, <2>1
<1>. QED
  BY <1>1, <1>3, <1>4

\* "Completed" means tested, for runs of any length: the tests passed on the files as they
\* are now, and no later test run on them failed.
THEOREM CompletedIsTested == AcceptanceSpec => []CompletedMeansTested
<1>1. IndInv => CompletedMeansTested
  <2>. SUFFICES ASSUME IndInv, NEW intent \in Intent,
                       Evaluate(records, "final", intent) = "completed"
                PROVE  \E i \in DOMAIN records :
                         /\ Verdict(records[i]) = "pass"
                         /\ records[i].status = "ok" /\ records[i].tests = "some"
                         /\ records[i].start = version /\ records[i].end = version
                         /\ \A j \in DOMAIN records :
                              j > i /\ records[j].start = version => Verdict(records[j]) # "fail"
    BY DEF CompletedMeansTested
  <2>1. LastPasses(records)
    <3>1. Final(records, intent) = "completed"
      BY DEF Evaluate
    <3>2. ChangeOutcome(records) = "completed"
      BY <3>1 DEF Final
    <3>. QED
      BY <3>2 DEF ChangeOutcome
  <2>2. PICK i \in Decisive(records) :
          Verdict(records[i]) = "pass" /\ \A j \in Decisive(records) : j <= i
    BY <2>1 DEF LastPasses
  <2>3. i \in DOMAIN records /\ Fresh(records, i)
    BY DEF Decisive
  <2>4. records[i].status = "ok" /\ records[i].tests = "some"
    <3>1. records[i] \in ToolRecord
      BY <2>3, ElementOfSeq, LenProperties DEF IndInv, AcceptanceTypeOK
    <3>. QED
      BY <2>2, <3>1 DEF Verdict, ToolRecord, Status
  <2>5. \A j \in DOMAIN records : j >= i => ~IsChange(records[j])
    BY <2>3, FreshMeansUnchanged
  <2>6. records[i].start = version /\ records[i].end = version
    BY <2>3, <2>5 DEF IndInv, Accounted
  <2>7. ASSUME NEW j \in DOMAIN records, j > i
        PROVE  Verdict(records[j]) # "fail"
    <3>1. /\ DOMAIN records = 1..Len(records) /\ Len(records) \in Nat
          /\ \A k \in DOMAIN records : records[k] \in ToolRecord
      BY ElementOfSeq, LenProperties DEF IndInv, AcceptanceTypeOK
    <3>2. Fresh(records, j)
      <4>. SUFFICES ASSUME NEW k \in Changes(records) PROVE records[j].before >= records[k].after
        BY DEF Fresh
      <4>1. k \in DOMAIN records /\ ~(k >= i)
        BY <2>5 DEF Changes
      <4>2. k < j
        BY <4>1, <2>3, <2>7, <3>1
      <4>3. records[k].after <= records[j].before
        BY <4>1, <4>2 DEF IndInv, Ordered
      <4>4. records[k].after \in Nat /\ records[j].before \in Nat
        BY <4>1, <3>1 DEF ToolRecord
      <4>. QED
        BY <4>3, <4>4
    <3>3. ~(j <= i)
      BY <2>3, <2>7, <3>1
    <3>. QED
      BY <2>2, <3>2, <3>3 DEF Decisive
  <2>. QED
    BY <2>2, <2>3, <2>4, <2>6, <2>7
<1>. QED
  BY <1>1, Inductive, PTL

\* A run that is said to have changed nothing changed nothing, for runs of any length.
THEOREM NoChangeHidden == AcceptanceSpec => []NothingHidden
<1>1. IndInv => NothingHidden
  <2>. SUFFICES ASSUME IndInv, NEW intent \in Intent,
                       Evaluate(records, "final", intent) \in {"answered", "no_change_needed"}
                PROVE  version = 0
    BY DEF NothingHidden
  <2>1. Final(records, intent) \in {"answered", "no_change_needed"}
    BY DEF Evaluate
  <2>2. ChangeOutcome(records) \notin {"answered", "no_change_needed"}
    BY DEF ChangeOutcome
  <2>3. NoChangeEvidence(records) \/ Changes(records) = {}
    BY <2>1, <2>2 DEF Final
  <2>4. Changes(records) = {}
    BY <2>3 DEF NoChangeEvidence
  <2>. QED
    BY <2>4 DEF IndInv, UnchangedIsZero
<1>. QED
  BY <1>1, Inductive, PTL

\* The last of some calls of a run is one of them.
LEMMA LatestIsOne ==
  ASSUME NEW n \in Nat, NEW S \in SUBSET (1..n), S # {}
  PROVE  Latest(S) \in S
<1>. DEFINE T == {n - i : i \in S}
<1>1. T \subseteq Nat /\ T # {}
  <2>1. ASSUME NEW i \in S PROVE n - i \in Nat
    OBVIOUS
  <2>2. PICK i \in S : TRUE
    OBVIOUS
  <2>3. n - i \in T
    OBVIOUS
  <2>. QED
    BY <2>1, <2>3
<1>2. PICK x \in T : \A y \in T : ~(<<y, x>> \in OpToRel(<, Nat))
  BY <1>1, NatLessThanWellFounded, WFMin
<1>3. PICK i \in S : x = n - i
  OBVIOUS
<1>4. ASSUME NEW j \in S PROVE j <= i
  <2>1. n - j \in Nat /\ n - i \in Nat /\ ~(n - j < n - i)
    BY <1>1, <1>2, <1>3 DEF OpToRel
  <2>. QED
    BY <2>1
<1>. QED
  BY <1>4 DEF Latest

\* "No change needed" rests on a passing run after each file of some declaration was read,
\* for runs of any length.
THEOREM ClaimsHold == AcceptanceSpec => []ClaimsAreProven
<1>1. IndInv => ClaimsAreProven
  <2>. SUFFICES ASSUME IndInv, Evaluate(records, "final", "change") = "no_change_needed"
                PROVE  \E i \in DOMAIN records :
                         /\ records[i].status = "ok" /\ records[i].tests = "some"
                         /\ \E d \in Declarations(records) : \A p \in records[d].paths :
                              \E k \in 1..i - 1 : k \in ReadsOf(records, p)
    BY DEF ClaimsAreProven
  <2>1. Declarations(records) # {} /\ \E i \in DOMAIN records : ProvesNoChange(records, i)
    <3>1. Final(records, "change") = "no_change_needed"
      BY DEF Evaluate
    <3>2. ChangeOutcome(records) # "no_change_needed"
      BY DEF ChangeOutcome
    <3>. QED
      BY <3>1, <3>2 DEF Final, NoChangeEvidence
  <2>2. PICK i \in DOMAIN records : ProvesNoChange(records, i)
    BY <2>1
  <2>. DEFINE d == Latest(Declarations(records))
  <2>3. Len(records) \in Nat /\ DOMAIN records = 1..Len(records) /\ records[i] \in ToolRecord
    BY ElementOfSeq, LenProperties DEF IndInv, AcceptanceTypeOK
  <2>4. d \in Declarations(records)
    BY <2>1, <2>3, LatestIsOne DEF Declarations
  <2>5. Verdict(records[i]) = "pass" /\ \A p \in records[d].paths :
          ReadsOf(records, p) # {} /\ Latest(ReadsOf(records, p)) < i
    BY <2>2 DEF ProvesNoChange
  <2>6. records[i].status = "ok" /\ records[i].tests = "some"
    BY <2>3, <2>5 DEF Verdict, ToolRecord, Status
  <2>7. ASSUME NEW p \in records[d].paths PROVE \E k \in 1..i - 1 : k \in ReadsOf(records, p)
    <3>1. Latest(ReadsOf(records, p)) \in ReadsOf(records, p)
      BY <2>3, <2>5, LatestIsOne DEF ReadsOf
    <3>2. Latest(ReadsOf(records, p)) \in 1..Len(records) /\ Latest(ReadsOf(records, p)) < i /\ i \in 1..Len(records)
      BY <2>3, <2>5, <3>1 DEF ReadsOf
    <3>. QED
      BY <2>3, <3>1, <3>2
  <2>. QED
    BY <2>4, <2>6, <2>7
<1>. QED
  BY <1>1, Inductive, PTL
=============================================================================
