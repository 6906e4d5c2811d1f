------------------------------ MODULE Acceptance ------------------------------
(***************************************************************************)
(* The records of one run's tool calls and the outcome they are given:     *)
(* evaluate and what it is built from (ironclad/engine/acceptance.py),     *)
(* with the records as _exec_one (loop.py) and the tool runtime            *)
(* (composite.py, exec.py, files.py) make them.                            *)
(*                                                                         *)
(* version counts the times the run's tools really changed a file that     *)
(* existed, or wrote one they report: the outcome must agree with it, and  *)
(* the code knows it only through revision counters, statuses and a        *)
(* fingerprint of the files around each command.                           *)
(***************************************************************************)
EXTENDS Naturals, Sequences

CONSTANTS
  File,       \* files that may be read, and named as evidence
  MaxRecords  \* bound: tool calls in the run

ASSUME AcceptanceAssumption == MaxRecords \in Nat

VARIABLES
  records,  \* run.records
  counter,  \* WorkspaceRevision.counter
  version   \* history: real changes of the project's files

acceptance == <<records, counter, version>>

Tool == {"read", "write", "command", "tests", "declare"}
Status == {"ok", "failed", "cancelled", "rejected"}  \* a timeout counts as failed; INVALID and DENIED as rejected
Tests == {"some", "empty", "unknown"}                \* tests_run > 0, no_tests, anything else
Intent == {"change", "question", "unknown"}
Stop == {"final", "cancelled", "transport_error", "other"}
Outcome == {"completed", "answered", "no_change_needed", "unvalidated", "incomplete", "cancelled",
            "failed"}

\* paths: the file a read returned, the evidence a declaration names, the files a write reports
\* start and end are history: the version when the call started and when it ended
ToolRecord ==
  [tool : Tool, status : Status, before : Nat, after : Nat, mutates : BOOLEAN, validation : BOOLEAN,
   runner : BOOLEAN, tests : Tests, clean : BOOLEAN, paths : SUBSET File, start : Nat, end : Nat]

AcceptanceTypeOK == records \in Seq(ToolRecord) /\ counter \in Nat /\ version \in Nat

AcceptanceInit == records = <<>> /\ counter = 0 /\ version = 0

-----------------------------------------------------------------------------
(* What a record says *)

Bumped(r) == r.after > r.before

IsValidation(r) == r.tool = "tests" \/ r.validation

\* mutant: what the files looked like before and after is not compared
Trusted_AnyFiles(r) == IsValidation(r) /\ (r.tool = "command" => r.runner)

\* a validation by a known test runner that left the project's files as they were
Trusted(r) == IsValidation(r) /\ r.clean /\ (r.tool = "command" => r.runner)

Verdict(r) ==
  CASE ~IsValidation(r) \/ r.status \in {"rejected", "cancelled"} -> "none"
    [] IsValidation(r) /\ r.status \in {"ok", "failed"} ->
         IF r.tests = "empty" /\ Trusted(r) THEN "inconclusive"
         ELSE IF r.status = "failed" THEN "fail"
         ELSE IF Trusted(r) /\ r.tests = "some" THEN "pass" ELSE "inconclusive"

Reported(r) == r.tool = "write" /\ r.status = "ok" /\ r.paths # {}

\* mutant: only what a tool reports is a change
IsChange_Reported(r) == Reported(r)

\* a reported change, or a command that may have changed anything
IsChange(r) == Reported(r) \/ (Bumped(r) /\ r.status # "rejected" /\ ~Trusted(r))

-----------------------------------------------------------------------------
(* evaluate *)

Latest(S) == CHOOSE i \in S : \A j \in S : j <= i

Changes(rs) == {i \in DOMAIN rs : IsChange(rs[i])}

\* the validation started at or after the latest change
Fresh(rs, i) == \A j \in Changes(rs) : rs[i].before >= rs[j].after

Decisive(rs) == {i \in DOMAIN rs : Verdict(rs[i]) \in {"pass", "fail"} /\ Fresh(rs, i)}

\* the last decisive validation passed
LastPasses(rs) ==
  \E i \in Decisive(rs) : Verdict(rs[i]) = "pass" /\ \A j \in Decisive(rs) : j <= i

ChangeOutcome(rs) ==
  CASE LastPasses(rs) -> "completed"
    [] ~LastPasses(rs) /\ Decisive(rs) # {} -> "incomplete"
    [] ~LastPasses(rs) /\ Decisive(rs) = {} -> "unvalidated"

ReadsOf(rs, p) == {i \in DOMAIN rs : rs[i].tool = "read" /\ rs[i].status = "ok" /\ rs[i].paths = {p}}
Declarations(rs) == {i \in DOMAIN rs : rs[i].tool = "declare" /\ rs[i].status = "ok"}

\* mutant: an earlier pass is good enough
ProvesNoChange_AnyPass(rs, i) ==
  /\ Verdict(rs[i]) = "pass"
  /\ \A j \in DOMAIN rs : j > i => rs[j].status = "ok"

\* the passing run on which "no change needed" rests: the last one after the evidence was
\* read, with nothing after it that changes or fails
ProvesNoChange(rs, i) ==
  LET wanted == rs[Latest(Declarations(rs))].paths
      PassAfterReads(k) ==
        Verdict(rs[k]) = "pass" /\ \A p \in wanted : ReadsOf(rs, p) # {} /\ Latest(ReadsOf(rs, p)) < k
  IN
  /\ PassAfterReads(i)
  /\ \A j \in DOMAIN rs : j > i => ~rs[j].mutates /\ ~Bumped(rs[j]) /\ rs[j].status = "ok"

NoChangeEvidence(rs) ==
  /\ Declarations(rs) # {}
  /\ Changes(rs) = {}
  /\ \E i \in DOMAIN rs : ProvesNoChange(rs, i)

SuccessfulChange(rs) == \E i \in Changes(rs) : rs[i].status = "ok"

\* the requested change was tried and did not happen
FailedChange(rs) ==
  \E i \in DOMAIN rs : rs[i].mutates /\ ~IsValidation(rs[i]) /\ rs[i].status # "ok"

Final(rs, intent) ==
  CASE SuccessfulChange(rs) -> ChangeOutcome(rs)
    [] ~SuccessfulChange(rs) /\ FailedChange(rs) -> "incomplete"
    [] ~SuccessfulChange(rs) /\ ~FailedChange(rs) /\ intent = "change" ->
         IF NoChangeEvidence(rs) THEN "no_change_needed" ELSE "incomplete"
    [] ~SuccessfulChange(rs) /\ ~FailedChange(rs) /\ intent # "change" ->
         IF Changes(rs) = {} THEN "answered" ELSE ChangeOutcome(rs)

Evaluate(rs, stop, intent) ==
  CASE stop = "cancelled" -> "cancelled"
    [] stop = "transport_error" -> "failed"
    [] stop = "other" -> "incomplete"
    [] stop = "final" -> Final(rs, intent)

-----------------------------------------------------------------------------
(* The tool calls of a run, as the runtime carries them out *)

\* a record of a call that changes nothing and reports nothing
Plain(tool, status) ==
  [tool |-> tool, status |-> status, before |-> counter, after |-> counter,
   mutates |-> tool \in {"write", "command", "tests"}, validation |-> tool = "tests",
   runner |-> FALSE, tests |-> "unknown", clean |-> TRUE, paths |-> {},
   start |-> version, end |-> version]

\* the revision and the version when the call ends
Ended(r, a, e) == [r EXCEPT !.after = a, !.end = e]

\* bumps: times the revision is raised; changes: whether files really change
Recorded(r, bumps, changes) ==
  /\ Len(records) < MaxRecords
  /\ counter' = counter + bumps
  /\ version' = version + changes
  /\ records' = Append(records, Ended(r, counter + bumps, version + changes))

\* refused by the role (then it is no mutation either), the gate, or the tool's arguments
RejectCall(tool, byRole) ==
  Recorded([Plain(tool, "rejected") EXCEPT !.mutates = @ /\ ~byRole, !.validation = @ /\ ~byRole], 0, 0)

Read(p) == Recorded([Plain("read", "ok") EXCEPT !.paths = {p}], 0, 0)
ReadFails == Recorded(Plain("read", "failed"), 0, 0)

\* _run_sync bumps when the tool reports paths
Write(p) == Recorded([Plain("write", "ok") EXCEPT !.paths = {p}], 1, 1)
WriteSame == Recorded(Plain("write", "ok"), 0, 0)
WriteFails == Recorded(Plain("write", "failed"), 0, 0)

\* _Tracked: a job that ran always bumps; the files' fingerprint tells whether it changed them
Job(tool, status, flagged, runner, tests, changes) ==
  Recorded([Plain(tool, status) EXCEPT !.validation = tool = "tests" \/ flagged, !.runner = runner,
              !.tests = tests, !.clean = changes = 0],
           1, changes)

\* run_command: anything may happen to the files, whatever its status
Command(status, flagged, runner, tests, changes) ==
  /\ tests # "unknown" => runner
  /\ Job("command", status, flagged, runner, tests, changes)

RunTests(status, runner, tests, changes) ==
  /\ tests # "unknown" => runner
  /\ Job("tests", status, FALSE, runner, tests, changes)

Declare(paths) == paths # {} /\ Recorded([Plain("declare", "ok") EXCEPT !.paths = paths], 0, 0)

AcceptanceNext ==
  \/ \E tool \in Tool, byRole \in BOOLEAN : RejectCall(tool, byRole)
  \/ \E p \in File : Read(p) \/ Write(p)
  \/ ReadFails \/ WriteSame \/ WriteFails
  \/ \E status \in {"ok", "failed", "cancelled"}, runner \in BOOLEAN, tests \in Tests,
        changes \in 0..1 :
       \/ RunTests(status, runner, tests, changes)
       \/ \E flagged \in BOOLEAN : Command(status, flagged, runner, tests, changes)
  \/ \E paths \in SUBSET File : Declare(paths)

AcceptanceSpec == AcceptanceInit /\ [][AcceptanceNext]_acceptance
-----------------------------------------------------------------------------
(* Properties.  evaluate is called at the end of a run, before each compaction and by the  *)
(* automatic verification, so they speak of every moment of a run.                         *)

\* "completed" means tested: a test run with a known runner passed on the project's files
\* exactly as they are now, and no later one on them failed (_change_outcome).
CompletedMeansTested ==
  \A intent \in Intent : Evaluate(records, "final", intent) = "completed" =>
    \E i \in DOMAIN records :
      /\ Verdict(records[i]) = "pass"
      /\ records[i].status = "ok" /\ records[i].tests = "some"
      /\ records[i].start = version /\ records[i].end = version
      /\ \A j \in DOMAIN records : j > i /\ records[j].start = version => Verdict(records[j]) # "fail"

\* A run that says it changed nothing did not, whatever its commands did or reported
\* (evaluate, _no_change_evidence).
NothingHidden ==
  \A intent \in Intent :
    Evaluate(records, "final", intent) \in {"answered", "no_change_needed"} => version = 0

\* "No change needed" is more than the model's claim: all the files it declares were read,
\* and the tests passed after they were (_no_change_evidence).
ClaimsAreProven ==
  Evaluate(records, "final", "change") = "no_change_needed" =>
    \E i \in DOMAIN records :
      /\ records[i].status = "ok" /\ records[i].tests = "some"
      /\ \E d \in Declarations(records) : \A p \in records[d].paths :
           \E k \in 1..i - 1 : k \in ReadsOf(records, p)

-----------------------------------------------------------------------------
(* The inductive invariant of AcceptanceProofs *)

\* revisions of the records follow one another
Ordered ==
  \A i \in DOMAIN records :
    /\ records[i].before <= records[i].after /\ records[i].after <= counter
    /\ \A j \in DOMAIN records : j < i => records[j].after <= records[i].before

\* as long as no change is recorded from a call on, the files are what they were when it started
Accounted ==
  \A i \in DOMAIN records :
    (\A j \in DOMAIN records : j >= i => ~IsChange(records[j])) =>
      records[i].start = version /\ records[i].end = version

\* every change raised the revision
ChangesBump == \A i \in DOMAIN records : IsChange(records[i]) => Bumped(records[i])

\* no change recorded, no change made
UnchangedIsZero == Changes(records) = {} => version = 0

IndInv == AcceptanceTypeOK /\ Ordered /\ Accounted /\ ChangesBump /\ UnchangedIsZero
===============================================================================
