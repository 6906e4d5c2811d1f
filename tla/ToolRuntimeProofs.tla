--------------------------- MODULE ToolRuntimeProofs ---------------------------
(***************************************************************************)
(* Proofs about ToolRuntime, for any number of calls, files and roles and  *)
(* any interleaving of tool threads, cancels, undos and outside changes:   *)
(* what runs is what was judged (RunsAsJudged), nothing unseen is          *)
(* overwritten (ReplacesSeen) and a call has done what its result, the     *)
(* records and its role say (CallsSound).                                  *)
(***************************************************************************)
EXTENDS ToolRuntime, TLAPS

Working == {"authorized", "queued", "loaded", "checked", "cleared", "written", "running"}
Holding == {"checked", "cleared", "written"}
Looked == {"checked", "cleared"}

\* what _authorize lets through, and what resolve_argv and select_backend give it
Judged(r) ==
  /\ r \in Resolutions
  /\ r.found.verdict = "ok" /\ r.found.name \in Allowed
  /\ r.found.at # "project"
  /\ (r.found.at = "image") = (r.backend = "docker")
  /\ r.backend = "host" => r.allowHost

(* The inductive invariant: three parts for each call, two for what calls share *)

\* where a call is, and what is there for it
StageOK(c) ==
  /\ pc[c] = "new" <=> engine[c] = "none"
  /\ engine[c] \in {"recorded", "late"} => pc[c] = "ended"
  /\ result[c] # None => pc[c] = "ended"
  /\ pc[c] = "ended" =>
       result[c] \in [status : Status, shown : SUBSET Value, changed : BOOLEAN] /\ result[c].shown \subseteq earned
  /\ program[c] # None => pc[c] = "running" /\ Judged(program[c])
  /\ pc[c] = "authorized" => Judged(argv[c])

\* what it goes on with: its arguments, and the content it found
RequestOK(c) ==
  /\ pc[c] \in Working =>
       req[c] \in Request /\ req[c].sha \in known \cup {None, Wrong}
  /\ pc[c] = "queued" => req[c].kind \in {"read", "write", "edit"}
  /\ pc[c] = "loaded" => req[c].path \in Path /\ base[c] \in Value
  /\ pc[c] \in Holding =>
       req[c].kind \in {"write", "edit"} /\ req[c].path \in Path /\ req[c].content \in Content
         /\ base[c] \in Value
  /\ pc[c] \in Looked =>
       /\ base[c] = Absent \/ base[c] \in earned
       /\ disk[req[c].path] = base[c] \/ c \in raced
  /\ pc[c] = "written" => req[c].content \in earned

\* what it has done, and who knows of it
DoneOK(c) ==
  /\ c \in touched => pc[c] \in {"written", "ended"}
  /\ c \in started => pc[c] \in {"running", "ended"}
  /\ pc[c] = "ended" /\ c \in touched =>
       result[c].status = "failed" \/ (result[c].status = "ok" /\ result[c].changed)
  /\ pc[c] = "ended" /\ c \in started => result[c].status \in {"ok", "failed", "cancelled"}
  /\ c \in touched /\ engine[c] = "recorded" => c \in reported
  /\ c \in touched /\ engine[c] = "late" => c \in reported \/ result[c].status = "failed"
  /\ pc[c] \in {"queued"} \cup Looked /\ engine[c] # "abandoned" => req[c].kind \in role

CallOK(c) == StageOK(c) /\ RequestOK(c) /\ DoneOK(c)

\* mutation_lock is held by the call that is between its look and the end of its write
LockHeld == \A c \in Call : lock = c <=> pc[c] \in Holding

\* the hashes that stand for "the model has seen it"
HashesEarned ==
  /\ known \subseteq earned
  /\ \A p \in Path : readHashes[p] \in earned \cup {None} /\ ownWrites[p] \in earned \cup {None}

IInv == TypeOK /\ LockHeld /\ HashesEarned /\ \A c \in Call : CallOK(c)

-----------------------------------------------------------------------------
(* Operators *)

\* What the backend is, by the settings (select_backend): the host only if they allow it.
LEMMA HostIsAllowed ==
  ASSUME NEW s \in Settings, Selected(s) = "host" PROVE s.allowHost
BY DEF Selected, Settings

\* The model leaves the command's form to _prefer_venv and detect_test_argv; what comes out
\* is a command.
LEMMA PreferredIsCommand ==
  ASSUME NEW q \in Command, NEW e \in Environment
  PROVE  Preferred(q, e) \in Command /\ Preferred(q, e).where \in Where
BY DEF Preferred, Command, Where, Name, CommandTool, VenvPython

\* A program that resolve_program_argv lets run is never one of the project's own, and comes
\* from the image exactly if the backend is a container.
LEMMA ProgramSound ==
  ASSUME NEW q \in Command, NEW e \in Environment, Program(q, e).verdict = "ok"
  PROVE  /\ Program(q, e).at # "project"
         /\ (Program(q, e).at = "image") = e.container
<1>1. q.where \in Where
  BY DEF Command
<1>2. CASE q.where = "venv" /\ VenvPython(e)
  BY <1>2 DEF Program, Runs, Environment
<1>3. CASE q.where = "project" \/ (q.where = "venv" /\ ~VenvPython(e))
  BY <1>3 DEF Program, Refused
<1>4. CASE q.where = "outside"
  BY <1>4 DEF Program, Refused, Runs, Environment
<1>5. CASE q.where = "bare"
  BY <1>5 DEF Program, Refused, Runs, Environment
<1>. QED
  BY <1>1, <1>2, <1>3, <1>4, <1>5 DEF Where

\* The same of what resolve_argv makes of a command or of a choice of tests.
LEMMA ResolveSound ==
  ASSUME NEW q \in Command, NEW e \in Environment, Resolve(q, e).verdict = "ok"
  PROVE  /\ Resolve(q, e).at # "project"
         /\ (Resolve(q, e).at = "image") = e.container
<1>1. CASE q.tool = "run_command"
  <2>1. Resolve(q, e) = Program(Preferred(q, e), e)
    BY <1>1 DEF Resolve
  <2>. QED
    BY <2>1, PreferredIsCommand, ProgramSound
<1>2. CASE q.tool # "run_command"
  <2>. DEFINE asked == Preferred(IF q.suite THEN Detected(e) ELSE q, e)
  <2>1. Detected(e) \in Command
    BY DEF Detected, Command, CommandTool, Where, Name
  <2>2. asked \in Command
    BY <2>1, PreferredIsCommand
  <2>3. Resolve(q, e) = Refused("invalid") \/ Resolve(q, e) = Program(asked, e)
    BY <1>2 DEF Resolve
  <2>4. Refused("invalid").verdict # "ok"
    BY DEF Refused
  <2>. QED
    BY <2>2, <2>3, <2>4, ProgramSound
<1>. QED
  BY <1>1, <1>2

\* Whatever is allowed of a resolution is judged as it should be.
LEMMA ResolutionJudged ==
  ASSUME NEW r \in Resolutions, r.found.verdict = "ok", r.found.name \in Allowed
  PROVE  Judged(r)
<1>. DEFINE FoundIn == [container \in BOOLEAN |->
       {Resolve(q, e) : q \in Command, e \in {env \in Environment : env.container = container}}]
<1>1. PICK s \in Settings :
        r \in [found : FoundIn[Selected(s) = "docker"], backend : {Selected(s)}, allowHost : {s.allowHost}]
  BY DEF Resolutions
<1>2. /\ r.found \in FoundIn[Selected(s) = "docker"]
      /\ r.backend = Selected(s) /\ r.allowHost = s.allowHost
  BY <1>1
<1>3. (Selected(s) = "docker") \in BOOLEAN
  OBVIOUS
<1>4. PICK q \in Command, e \in Environment :
        e.container = (Selected(s) = "docker") /\ r.found = Resolve(q, e)
  BY <1>2, <1>3
<1>5. r.found.at # "project" /\ (r.found.at = "image") = e.container
  BY <1>4, ResolveSound
<1>6. r.backend = "host" => r.allowHost
  BY <1>2, HostIsAllowed
<1>. QED
  BY <1>2, <1>4, <1>5, <1>6 DEF Judged

\* What a resolution finds is a program, or why there is none.
LEMMA FindingVerdict ==
  ASSUME NEW found \in Findings PROVE found.verdict \in {"ok", "invalid", "denied"}
<1>1. \A q, e : Program(q, e).verdict \in {"ok", "invalid", "denied"} \/ q.where \notin Where
  BY DEF Program, Runs, Refused, Where
<1>2. ASSUME NEW q \in Command, NEW e \in Environment
      PROVE  Resolve(q, e).verdict \in {"ok", "invalid", "denied"}
  <2>. DEFINE asked == Preferred(IF q.suite THEN Detected(e) ELSE q, e)
  <2>1. Detected(e) \in Command
    BY DEF Detected, Command, CommandTool, Where, Name
  <2>2. asked.where \in Where /\ Preferred(q, e).where \in Where
    BY <2>1, PreferredIsCommand
  <2>3. Resolve(q, e) \in {Refused("invalid"), Program(asked, e), Program(Preferred(q, e), e)}
    BY DEF Resolve
  <2>4. Refused("invalid").verdict = "invalid"
    BY DEF Refused
  <2>. QED
    BY <1>1, <2>2, <2>3, <2>4
<1>. DEFINE FoundIn == [container \in BOOLEAN |->
       {Resolve(q, e) : q \in Command, e \in {env \in Environment : env.container = container}}]
<1>3. PICK r \in Resolutions : found = r.found
  BY DEF Findings
<1>4. PICK s \in Settings :
        r \in [found : FoundIn[Selected(s) = "docker"], backend : {Selected(s)}, allowHost : {s.allowHost}]
  BY <1>3 DEF Resolutions
<1>5. \E q \in Command, e \in Environment : r.found = Resolve(q, e)
  BY <1>4
<1>. QED
  BY <1>2, <1>3, <1>5

-----------------------------------------------------------------------------
(* What a step leaves alone *)

\* nothing that the invariant says of the call is any different after the step
Unmoved(d) ==
  /\ pc'[d] = pc[d] /\ req'[d] = req[d] /\ base'[d] = base[d] /\ argv'[d] = argv[d]
  /\ program'[d] = program[d] /\ result'[d] = result[d] /\ engine'[d] = engine[d]
  /\ known \subseteq known' /\ earned \subseteq earned' /\ raced \subseteq raced'
  /\ reported \subseteq reported'
  /\ (d \in touched' <=> d \in touched) /\ (d \in started' <=> d \in started)
  /\ pc[d] \in Looked => disk'[req[d].path] = disk[req[d].path] \/ d \in raced'
  /\ pc[d] \in {"queued"} \cup Looked /\ engine[d] # "abandoned" => role' = role

\* A call that a step leaves alone is as sound as before.
LEMMA UnmovedKeeps ==
  ASSUME NEW d \in Call, CallOK(d), Unmoved(d)
  PROVE  CallOK(d)'
<1>1. StageOK(d)'
  BY DEF CallOK, StageOK, Unmoved
<1>2. RequestOK(d)'
  BY DEF CallOK, RequestOK, Unmoved
<1>3. DoneOK(d)'
  BY DEF CallOK, DoneOK, Unmoved
<1>. QED
  BY <1>1, <1>2, <1>3 DEF CallOK

\* A step of one call keeps the invariant if it leaves the others alone.
LEMMA OneMoves ==
  ASSUME IInv, NEW c \in Call, TypeOK', LockHeld', HashesEarned',
         StageOK(c)', RequestOK(c)', DoneOK(c)',
         \A d \in Call \ {c} : Unmoved(d)
  PROVE  IInv'
<1>1. ASSUME NEW d \in Call PROVE CallOK(d)'
  <2>1. CASE d = c
    BY <2>1 DEF CallOK
  <2>2. CASE d # c
    BY <2>2, UnmovedKeeps DEF IInv
  <2>. QED
    BY <2>1, <2>2
<1>. QED
  BY <1>1 DEF IInv

\* A step of no call keeps the invariant if it leaves all of them alone.
LEMMA NoneMoves ==
  ASSUME IInv, TypeOK', LockHeld', HashesEarned', \A d \in Call : Unmoved(d)
  PROVE  IInv'
BY UnmovedKeeps DEF IInv

\* What the bounds of the records say of a request.
LEMMA RequestFacts ==
  ASSUME NEW r \in Request
  PROVE  /\ r.path \in Path \cup {None} /\ r.kind \in Kind
         /\ r.path # None /\ r.kind \in {"write", "edit"} => r.content \in Content
         /\ r.sha \in Value \cup {None, Wrong}
BY ToolAssumption DEF Request, ToolAssumption, Kind

-----------------------------------------------------------------------------
(* The steps of the tools *)

USE DEF vars, files, hashes, gate, history, undoing

\* The engine's side of a call that begins.
LEMMA DispatchFacts ==
  ASSUME IInv, NEW c \in Call, NEW r \in Request, Dispatched(c, r)
  PROVE  /\ pc[c] = "new" /\ engine[c] = "none" /\ c \notin touched /\ c \notin started
         /\ result[c] = None /\ program[c] = None
         /\ req' = [req EXCEPT ![c] = r] /\ engine' = [engine EXCEPT ![c] = "waiting"]
         /\ req'[c] = r /\ engine'[c] = "waiting"
         /\ r.sha \in known \cup {None, Wrong}
         /\ req' \in [Call -> Request \cup {None}]
         /\ engine' \in [Call -> Settled \cup {"waiting", "stopping"}]
BY DEF IInv, TypeOK, CallOK, StageOK, DoneOK, Dispatched

\* A call that ends is sound if its result tells what it has done.
LEMMA EndSound ==
  ASSUME IInv, NEW c \in Call, NEW status \in Status, NEW shown \in SUBSET Value, NEW changed \in BOOLEAN,
         Ends(c, Result(status, shown, changed)),
         program'[c] = None, engine'[c] \in {"waiting", "stopping", "abandoned"},
         shown \subseteq earned',
         c \in touched' => status = "failed" \/ (status = "ok" /\ changed),
         c \in started' => status \in {"ok", "failed", "cancelled"}
  PROVE  /\ StageOK(c)' /\ RequestOK(c)' /\ DoneOK(c)'
         /\ pc' \in [Call -> {"new", "authorized", "queued", "loaded", "checked", "cleared", "written",
                              "running", "ended"}]
         /\ result' \in [Call -> [status : Status, shown : SUBSET Value, changed : BOOLEAN] \cup {None}]
         /\ pc'[c] = "ended"
         /\ \A d \in Call \ {c} : pc'[d] = pc[d] /\ result'[d] = result[d]
<1>. DEFINE res == Result(status, shown, changed)
<1>1. /\ res \in [status : Status, shown : SUBSET Value, changed : BOOLEAN]
      /\ res.status = status /\ res.shown = shown /\ res.changed = changed
  BY DEF Result
<1>. HIDE DEF res
<1>2. /\ pc \in [Call -> {"new", "authorized", "queued", "loaded", "checked", "cleared", "written",
                           "running", "ended"}]
      /\ result \in [Call -> [status : Status, shown : SUBSET Value, changed : BOOLEAN] \cup {None}]
      /\ pc' = [pc EXCEPT ![c] = "ended"] /\ result' = [result EXCEPT ![c] = res]
  BY DEF IInv, TypeOK, Ends, res
<1>3. pc'[c] = "ended" /\ result'[c] = res /\ (\A d \in Call \ {c} : pc'[d] = pc[d] /\ result'[d] = result[d])
  BY <1>2
<1>4. StageOK(c)'
  BY <1>1, <1>3 DEF StageOK
<1>5. RequestOK(c)'
  BY <1>3 DEF RequestOK, Working, Holding, Looked
<1>6. DoneOK(c)'
  BY <1>1, <1>3 DEF DoneOK, Looked
<1>. QED
  BY <1>1, <1>2, <1>3, <1>4, <1>5, <1>6

\* The end of a call that has changed nothing keeps the invariant, whoever held the lock.
LEMMA QuietEnd ==
  ASSUME IInv, NEW c \in Call, NEW status \in Status, NEW shown \in SUBSET Value,
         Ends(c, Result(status, shown, FALSE)), shown \subseteq earned,
         pc[c] \notin Holding \/ lock' = None, pc[c] \in Holding \/ lock' = lock,
         c \notin touched, c \in started => status \in {"ok", "failed", "cancelled"},
         UNCHANGED <<disk, base, hashes, history, started, reported, role, ceiling, undoing, outside>>,
         fails' \in 0..MaxFail,
         program' \in [Call -> Resolutions \cup {None}], program'[c] = None,
         argv' \in [Call -> Resolutions \cup {None}],
         req' \in [Call -> Request \cup {None}],
         engine' \in [Call -> Settled \cup {"waiting", "stopping"}],
         engine'[c] \in {"waiting", "stopping", "abandoned"},
         \A d \in Call \ {c} : req'[d] = req[d] /\ argv'[d] = argv[d] /\ program'[d] = program[d]
                               /\ engine'[d] = engine[d]
  PROVE  IInv'
<1>1. /\ StageOK(c)' /\ RequestOK(c)' /\ DoneOK(c)'
      /\ pc' \in [Call -> {"new", "authorized", "queued", "loaded", "checked", "cleared", "written",
                           "running", "ended"}]
      /\ result' \in [Call -> [status : Status, shown : SUBSET Value, changed : BOOLEAN] \cup {None}]
      /\ pc'[c] = "ended"
      /\ \A d \in Call \ {c} : pc'[d] = pc[d] /\ result'[d] = result[d]
  BY EndSound
<1>2. lock' \in Call \cup {None}
  BY DEF IInv, TypeOK
<1>3. TypeOK'
  BY <1>1, <1>2 DEF IInv, TypeOK
<1>4. \A d \in Call \ {c} : Unmoved(d)
  BY <1>1 DEF Unmoved
<1>5. LockHeld'
  BY <1>1, ToolAssumption DEF IInv, LockHeld, Holding, ToolAssumption
<1>6. HashesEarned'
  BY DEF IInv, HashesEarned
<1>. QED
  BY <1>1, <1>3, <1>4, <1>5, <1>6, OneMoves

\* A call that the gate turns away.
LEMMA RefuseKeeps ==
  ASSUME IInv, NEW c \in Call, Refuse(c) PROVE IInv'
<1>. PICK r \in Request : \E found \in IF r.kind = "command" THEN Findings ELSE {None} :
       /\ Dispatched(c, r) /\ Refusal(r.kind, found) # None
       /\ Ends(c, Result(Refusal(r.kind, found), {}, FALSE))
       /\ UNCHANGED <<files, hashes, gate, reported, undoing, history, outside, fails>>
  BY DEF Refuse
<1>. PICK found \in IF r.kind = "command" THEN Findings ELSE {None} :
       /\ Dispatched(c, r) /\ Refusal(r.kind, found) # None
       /\ Ends(c, Result(Refusal(r.kind, found), {}, FALSE))
       /\ UNCHANGED <<files, hashes, gate, reported, undoing, history, outside, fails>>
  OBVIOUS
<1>1. Refusal(r.kind, found) \in {"invalid", "denied"}
  BY FindingVerdict DEF Refusal
<1>2. PICK status \in {"invalid", "denied"} : Ends(c, Result(status, {}, FALSE))
  BY <1>1
<1>3. /\ pc[c] = "new" /\ c \notin touched /\ c \notin started /\ program[c] = None
      /\ engine'[c] = "waiting"
      /\ req' \in [Call -> Request \cup {None}]
      /\ engine' \in [Call -> Settled \cup {"waiting", "stopping"}]
  BY DispatchFacts
<1>4. \A d \in Call \ {c} : req'[d] = req[d] /\ argv'[d] = argv[d] /\ program'[d] = program[d]
                             /\ engine'[d] = engine[d]
  BY DispatchFacts DEF IInv, TypeOK
<1>5. /\ fails' \in 0..MaxFail
      /\ program' \in [Call -> Resolutions \cup {None}] /\ argv' \in [Call -> Resolutions \cup {None}]
  BY DEF IInv, TypeOK
<1>6. /\ UNCHANGED <<disk, base, hashes, history, started, reported, role, ceiling, undoing, outside>>
      /\ lock' = lock /\ pc[c] \notin Holding /\ program'[c] = None
  BY <1>3 DEF Holding
<1>7. /\ status \in Status /\ {} \in SUBSET Value /\ {} \subseteq earned
      /\ pc[c] \notin Holding \/ lock' = None
      /\ pc[c] \in Holding \/ lock' = lock
      /\ c \in started => status \in {"ok", "failed", "cancelled"}
      /\ engine'[c] \in {"waiting", "stopping", "abandoned"}
  BY <1>3, <1>6 DEF Status
<1>. QED
  BY <1>2, <1>3, <1>4, <1>5, <1>6, <1>7, QuietEnd

\* A command for which nothing can be started.
LEMMA LaunchFailsKeeps ==
  ASSUME IInv, NEW c \in Call, LaunchFails(c) PROVE IInv'
<1>1. /\ pc[c] = "authorized" /\ argv' = [argv EXCEPT ![c] = None]
      /\ UNCHANGED <<files, hashes, req, program, started, role, ceiling, engine, reported, undoing,
                     history, outside, fails>>
  BY DEF LaunchFails
<1>2. PICK status \in {"denied", "invalid", "failed"} : Ends(c, Result(status, {}, FALSE))
  BY DEF LaunchFails
<1>3. status \in Status /\ {} \in SUBSET Value
  BY DEF Status
<1>4. /\ c \notin touched /\ c \notin started /\ program[c] = None
      /\ engine[c] \in {"waiting", "stopping", "abandoned"}
  BY <1>1 DEF IInv, TypeOK, CallOK, StageOK, DoneOK, Settled
<1>5. /\ argv' \in [Call -> Resolutions \cup {None}] /\ program \in [Call -> Resolutions \cup {None}]
      /\ req \in [Call -> Request \cup {None}] /\ engine \in [Call -> Settled \cup {"waiting", "stopping"}]
      /\ fails \in 0..MaxFail /\ \A d \in Call \ {c} : argv'[d] = argv[d]
  BY <1>1 DEF IInv, TypeOK
<1>. QED
  BY <1>1, <1>2, <1>3, <1>4, <1>5, QuietEnd DEF Holding

\* The end of a job.
LEMMA JobEndsKeeps ==
  ASSUME IInv, NEW c \in Call, JobEnds(c) PROVE IInv'
<1>1. /\ pc[c] = "running" /\ program' = [program EXCEPT ![c] = None]
      /\ UNCHANGED <<files, hashes, req, argv, started, role, ceiling, engine, reported, undoing, history,
                     outside, fails>>
  BY DEF JobEnds
<1>2. PICK status \in {"ok", "failed", "cancelled"} : Ends(c, Result(status, {}, FALSE))
  BY DEF JobEnds
<1>3. status \in Status /\ {} \in SUBSET Value
  BY DEF Status
<1>4. c \notin touched /\ engine[c] \in {"waiting", "stopping", "abandoned"}
  BY <1>1 DEF IInv, TypeOK, CallOK, StageOK, DoneOK, Settled
<1>5. /\ argv \in [Call -> Resolutions \cup {None}] /\ program' \in [Call -> Resolutions \cup {None}]
      /\ req \in [Call -> Request \cup {None}] /\ engine \in [Call -> Settled \cup {"waiting", "stopping"}]
      /\ fails \in 0..MaxFail /\ program'[c] = None /\ \A d \in Call \ {c} : program'[d] = program[d]
  BY <1>1 DEF IInv, TypeOK
<1>. QED
  BY <1>1, <1>2, <1>3, <1>4, <1>5, QuietEnd DEF Holding

\* The types of what a file tool leaves alone when it ends.
LEMMA FileToolTyped ==
  ASSUME IInv, NEW c \in Call, pc[c] \in {"queued", "loaded"} \cup Holding
  PROVE  /\ program \in [Call -> Resolutions \cup {None}] /\ argv \in [Call -> Resolutions \cup {None}]
         /\ req \in [Call -> Request \cup {None}] /\ engine \in [Call -> Settled \cup {"waiting", "stopping"}]
         /\ fails \in 0..MaxFail /\ program[c] = None
         /\ c \notin started /\ engine[c] \in {"waiting", "stopping", "abandoned"}
         /\ c \in touched => pc[c] = "written"
BY DEF IInv, TypeOK, CallOK, StageOK, DoneOK, Holding, Settled

\* A read that finds nothing to read.
LEMMA LoadFailsKeeps ==
  ASSUME IInv, NEW c \in Call, LoadFails(c) PROVE IInv'
<1>1. /\ pc[c] = "queued"
      /\ UNCHANGED <<files, hashes, req, gate, engine, reported, undoing, history, outside, fails>>
  BY DEF LoadFails
<1>2. PICK status \in {"failed", "invalid"} : Ends(c, Result(status, {}, FALSE))
  BY DEF LoadFails
<1>3. status \in Status /\ {} \in SUBSET Value /\ pc[c] \notin Holding
  BY <1>1 DEF Status, Holding
<1>. QED
  BY <1>1, <1>2, <1>3, FileToolTyped, QuietEnd

\* A refusal tells the digest of what was found only if it is one of the two the model has
\* been told of (_stale_error), or that the model has named itself.
LEMMA VerdictFacts ==
  ASSUME IInv, NEW c \in Call, Queued(c), Verdict(req[c], Found(req[c])) # None
  PROVE  \E status \in Status, shown \in SUBSET Value :
           shown \subseteq earned /\ Verdict(req[c], Found(req[c])) = Result(status, shown, FALSE)
<1>. DEFINE r == req[c]
            found == Found(r)
<1>1. r \in Request /\ r.sha \in known \cup {None, Wrong} /\ r.path \in Path \cup {None}
  BY RequestFacts DEF IInv, CallOK, RequestOK, Queued, Working
<1>2. CASE r.path = None
  <2>1. found = None /\ found # Absent
    BY <1>2, ToolAssumption DEF Found, ToolAssumption, Value
  <2>2. Verdict(r, found) = Result("invalid", {}, FALSE)
    BY <1>2, <2>1 DEF Verdict
  <2>. QED
    BY <2>2 DEF Status
<1>3. CASE r.path \in Path
  <2>1. found = disk[r.path] /\ found \in Value /\ r.path # None
    BY <1>3, ToolAssumption DEF Found, IInv, TypeOK, ToolAssumption
  <2>2. CASE found = Absent
    BY <1>3, <2>1, <2>2 DEF Verdict, Status
  <2>3. CASE found # Absent /\ r.sha # found
    <3>1. Verdict(r, found) = Result("invalid", StaleError(r.path, found), FALSE)
      BY <2>1, <2>3, ToolAssumption DEF Verdict, Matches, ToolAssumption
    <3>2. StaleError(r.path, found) \subseteq earned /\ StaleError(r.path, found) \subseteq Value
      BY <1>3, <2>1, ToolAssumption DEF StaleError, IInv, HashesEarned, ToolAssumption
    <3>. QED
      BY <3>1, <3>2 DEF Status
  <2>4. CASE found # Absent /\ r.sha = found
    <3>1. Verdict(r, found) = IF r.content = found THEN Result("ok", {found}, FALSE) ELSE None
      BY <2>1, <2>4, ToolAssumption DEF Verdict, Matches, ToolAssumption
    <3>2. found \in earned
      BY <1>1, <2>1, <2>4, ToolAssumption DEF IInv, HashesEarned, ToolAssumption
    <3>. QED
      BY <2>1, <3>1, <3>2 DEF Status
  <2>. QED
    BY <2>2, <2>3, <2>4
<1>. QED
  BY <1>1, <1>2, <1>3

\* A write that finds nothing to do, or may not do it.
LEMMA DeclineKeeps ==
  ASSUME IInv, NEW c \in Call, Decline(c) PROVE IInv'
<1>1. /\ Queued(c) /\ pc[c] = "queued"
      /\ UNCHANGED <<files, hashes, req, gate, engine, reported, undoing, history, outside, fails>>
  BY DEF Decline, Queued
<1>2. PICK status \in Status, shown \in SUBSET Value :
        shown \subseteq earned /\ Ends(c, Result(status, shown, FALSE))
  <2>1. CASE Verdict(req[c], Found(req[c])) # None /\ Ends(c, Verdict(req[c], Found(req[c])))
    BY <1>1, <2>1, VerdictFacts
  <2>2. CASE Ends(c, Result("invalid", {}, FALSE))
    BY <2>2 DEF Status
  <2>. QED
    BY <2>1, <2>2 DEF Decline
<1>3. pc[c] \notin Holding
  BY <1>1 DEF Holding
<1>. QED
  BY <1>1, <1>2, <1>3, FileToolTyped, QuietEnd

\* A write whose session lock is lost.
LEMMA RefuseCommitKeeps ==
  ASSUME IInv, NEW c \in Call, RefuseCommit(c) PROVE IInv'
<1>1. /\ pc[c] = "checked" /\ lock' = None /\ Ends(c, Result("denied", {}, FALSE))
      /\ UNCHANGED <<disk, base, hashes, req, gate, engine, reported, undoing, history, outside, fails>>
  BY DEF RefuseCommit, Refusing
<1>2. "denied" \in Status /\ {} \in SUBSET Value /\ pc[c] \in Holding
  BY <1>1 DEF Status, Holding
<1>. QED
  BY <1>1, <1>2, FileToolTyped, QuietEnd

\* A write that the journal or the disk refuses.
LEMMA WriteFailsKeeps ==
  ASSUME IInv, NEW c \in Call, WriteFails(c) PROVE IInv'
<1>1. /\ pc[c] \in {"checked", "cleared"} /\ lock' = None /\ Ends(c, Result("failed", {}, FALSE))
      /\ UNCHANGED <<disk, base, hashes, req, gate, engine, reported, undoing, history, outside>>
  BY DEF WriteFails
<1>2. "failed" \in Status /\ {} \in SUBSET Value /\ pc[c] \in Holding
  BY <1>1 DEF Status, Holding
<1>3. fails' \in 0..MaxFail
  BY ToolAssumption DEF WriteFails, IInv, TypeOK, ToolAssumption
<1>. QED
  BY <1>1, <1>2, <1>3, FileToolTyped, QuietEnd

\* A write that comes after the file was made or removed by others.
LEMMA CommitTooLateKeeps ==
  ASSUME IInv, NEW c \in Call, CommitTooLate(c) PROVE IInv'
<1>1. /\ pc[c] = "cleared" /\ lock' = None
      /\ UNCHANGED <<disk, base, hashes, req, gate, engine, reported, undoing, history, outside, fails>>
  BY DEF CommitTooLate
<1>2. PICK status \in {"invalid", "failed"} : Ends(c, Result(status, {}, FALSE))
  BY DEF CommitTooLate
<1>3. status \in Status /\ {} \in SUBSET Value /\ pc[c] \in Holding
  BY <1>1 DEF Status, Holding
<1>. QED
  BY <1>1, <1>2, <1>3, FileToolTyped, QuietEnd

\* What a step of one call does to where the calls are.
LEMMA StageMoves ==
  ASSUME IInv, NEW c \in Call, NEW stage \in Working, pc' = [pc EXCEPT ![c] = stage]
  PROVE  /\ pc' \in [Call -> {"new", "authorized", "queued", "loaded", "checked", "cleared", "written",
                             "running", "ended"}]
         /\ pc'[c] = stage /\ \A d \in Call \ {c} : pc'[d] = pc[d]
BY DEF IInv, TypeOK, Working

\* A file tool goes off to its thread.
LEMMA HandKeeps ==
  ASSUME IInv, NEW c \in Call, Hand(c) PROVE IInv'
<1>. PICK r \in Request :
       /\ Dispatched(c, r) /\ r.kind # "command" /\ Refusal(r.kind, None) = None
       /\ pc' = [pc EXCEPT ![c] = "queued"]
       /\ UNCHANGED <<files, hashes, gate, result, reported, undoing, history, outside, fails>>
  BY DEF Hand
<1>1. r.kind \in {"read", "write", "edit"} /\ r.kind \in role
  BY RequestFacts, ToolAssumption DEF Kind, Refusal, ToolAssumption, Status
<1>2. /\ pc' \in [Call -> {"new", "authorized", "queued", "loaded", "checked", "cleared", "written",
                           "running", "ended"}]
      /\ pc'[c] = "queued" /\ \A d \in Call \ {c} : pc'[d] = pc[d]
  BY StageMoves DEF Working
<1>3. /\ pc[c] = "new" /\ c \notin touched /\ c \notin started /\ program[c] = None /\ result[c] = None
      /\ req'[c] = r /\ engine'[c] = "waiting"
      /\ r.sha \in known \cup {None, Wrong}
      /\ req' \in [Call -> Request \cup {None}]
      /\ engine' \in [Call -> Settled \cup {"waiting", "stopping"}]
  BY DispatchFacts
<1>4. TypeOK'
  BY <1>2, <1>3 DEF IInv, TypeOK
<1>5. StageOK(c)' /\ RequestOK(c)' /\ DoneOK(c)'
  BY <1>1, <1>2, <1>3 DEF StageOK, RequestOK, DoneOK, Working, Holding, Looked
<1>6. \A d \in Call \ {c} : Unmoved(d)
  <2>1. \A d \in Call \ {c} : req'[d] = req[d] /\ engine'[d] = engine[d]
    BY DispatchFacts DEF IInv, TypeOK
  <2>. QED
    BY <1>2, <2>1 DEF Unmoved
<1>7. LockHeld' /\ HashesEarned'
  BY <1>2, <1>3 DEF IInv, LockHeld, HashesEarned, Holding
<1>. QED
  BY <1>1, <1>2, <1>3, <1>4, <1>5, <1>6, <1>7, OneMoves

\* A command that _authorize lets through is judged, with what resolve_argv gave it.
LEMMA AuthorizeJudges ==
  ASSUME IInv, NEW r \in Request, NEW resolved \in Resolutions,
         r.kind = "command", Refusal(r.kind, resolved.found) = None
  PROVE  Judged(resolved)
<1>1. "command" \in role /\ Risk("command") <= ceiling
  BY ToolAssumption DEF Refusal, ToolAssumption, Status, IInv, TypeOK, Risk
<1>2. Refusal("command", resolved.found) =
        IF resolved.found.verdict # "ok" THEN resolved.found.verdict
        ELSE IF resolved.found.name \notin Allowed THEN "denied" ELSE None
  BY <1>1 DEF Refusal
<1>3. resolved.found.verdict = "ok" /\ resolved.found.name \in Allowed
  BY <1>2, FindingVerdict, ToolAssumption DEF Findings, ToolAssumption, Status
<1>. QED
  BY <1>3, ResolutionJudged

\* A command is judged and its program remembered.
LEMMA AuthorizeKeeps ==
  ASSUME IInv, NEW c \in Call, Authorize(c) PROVE IInv'
<1>. PICK r \in Request, resolved \in Resolutions :
       /\ r.kind = "command" /\ Dispatched(c, r) /\ Refusal(r.kind, resolved.found) = None
       /\ pc' = [pc EXCEPT ![c] = "authorized"]
       /\ argv' = [argv EXCEPT ![c] = resolved]
       /\ UNCHANGED <<files, hashes, program, started, role, ceiling, result, reported, undoing,
                      history, outside, fails>>
  BY DEF Authorize
<1>1. Judged(resolved)
  BY AuthorizeJudges
<1>2. /\ pc[c] = "new" /\ c \notin touched /\ c \notin started /\ program[c] = None /\ result[c] = None
      /\ req'[c] = r /\ engine'[c] = "waiting"
      /\ r.sha \in known \cup {None, Wrong}
      /\ req' \in [Call -> Request \cup {None}]
      /\ engine' \in [Call -> Settled \cup {"waiting", "stopping"}]
  BY DispatchFacts
<1>3. /\ pc'[c] = "authorized" /\ \A d \in Call \ {c} : pc'[d] = pc[d]
      /\ pc' \in [Call -> {"new", "authorized", "queued", "loaded", "checked", "cleared", "written",
                           "running", "ended"}]
  BY StageMoves DEF Working
<1>4. /\ argv' \in [Call -> Resolutions \cup {None}] /\ argv'[c] = resolved
      /\ \A d \in Call \ {c} : argv'[d] = argv[d]
  BY DEF IInv, TypeOK
<1>5. TypeOK'
  BY <1>2, <1>3, <1>4 DEF IInv, TypeOK
<1>6. StageOK(c)' /\ RequestOK(c)' /\ DoneOK(c)'
  BY <1>1, <1>2, <1>3, <1>4 DEF StageOK, RequestOK, DoneOK, Working, Holding, Looked
<1>7. \A d \in Call \ {c} : Unmoved(d)
  <2>1. \A d \in Call \ {c} : req'[d] = req[d] /\ engine'[d] = engine[d]
    BY DispatchFacts DEF IInv, TypeOK
  <2>. QED
    BY <1>3, <1>4, <2>1 DEF Unmoved
<1>8. LockHeld' /\ HashesEarned'
  BY <1>2, <1>3 DEF IInv, LockHeld, HashesEarned, Holding
<1>. QED
  BY <1>5, <1>6, <1>7, <1>8, OneMoves

\* The program that runs is the one that was remembered (_argv_for_start).
LEMMA LaunchKeeps ==
  ASSUME IInv, NEW c \in Call, Launch(c) PROVE IInv'
<1>1. /\ pc[c] = "authorized" /\ program' = [program EXCEPT ![c] = argv[c]]
      /\ started' = started \cup {c} /\ argv' = [argv EXCEPT ![c] = None]
      /\ pc' = [pc EXCEPT ![c] = "running"]
      /\ UNCHANGED <<files, hashes, req, role, ceiling, result, engine, reported, undoing,
                     history, outside, fails>>
  BY DEF Launch, ArgvForStart
<1>2. Judged(argv[c]) /\ c \notin touched /\ result[c] = None
      /\ engine[c] \notin {"none", "recorded", "late"}
      /\ req[c] \in Request /\ req[c].sha \in known \cup {None, Wrong}
  BY <1>1 DEF IInv, CallOK, StageOK, RequestOK, DoneOK, Working
<1>3. /\ pc'[c] = "running" /\ \A d \in Call \ {c} : pc'[d] = pc[d]
      /\ pc' \in [Call -> {"new", "authorized", "queued", "loaded", "checked", "cleared", "written",
                           "running", "ended"}]
  BY <1>1, StageMoves DEF Working
<1>4. /\ argv' \in [Call -> Resolutions \cup {None}] /\ program' \in [Call -> Resolutions \cup {None}]
      /\ program'[c] = argv[c] /\ \A d \in Call \ {c} : argv'[d] = argv[d] /\ program'[d] = program[d]
  BY <1>1, <1>2 DEF IInv, TypeOK, Judged
<1>5. TypeOK'
  BY <1>1, <1>3, <1>4 DEF IInv, TypeOK
<1>6. StageOK(c)' /\ RequestOK(c)' /\ DoneOK(c)'
  BY <1>1, <1>2, <1>3, <1>4 DEF StageOK, RequestOK, DoneOK, Working, Holding, Looked
<1>7. \A d \in Call \ {c} : Unmoved(d)
  BY <1>1, <1>3, <1>4 DEF Unmoved
<1>8. LockHeld' /\ HashesEarned'
  BY <1>1, <1>3 DEF IInv, LockHeld, HashesEarned, Holding
<1>. QED
  BY <1>5, <1>6, <1>7, <1>8, OneMoves

-----------------------------------------------------------------------------
(* The steps of the file tools that find or change something *)

\* What a file tool that is at work has: its arguments, and the types of what stays.
LEMMA AtWork ==
  ASSUME IInv, NEW c \in Call, pc[c] \in {"queued", "loaded"} \cup Holding
  PROVE  /\ req[c] \in Request /\ req[c].sha \in known \cup {None, Wrong}
         /\ req[c].path \in Path \cup {None}
         /\ result[c] = None /\ program[c] = None /\ c \notin started
         /\ engine[c] \in {"waiting", "stopping", "abandoned"}
         /\ c \in touched => pc[c] = "written"
         /\ pc[c] = "loaded" => req[c].path \in Path /\ base[c] \in Value
         /\ pc[c] \in Holding =>
              /\ req[c].kind \in {"write", "edit"} /\ req[c].path \in Path /\ req[c].content \in Content
              /\ base[c] \in Value /\ lock = c
BY RequestFacts DEF IInv, TypeOK, CallOK, StageOK, RequestOK, DoneOK, LockHeld, Working, Holding, Settled

\* A read looks at its file.
LEMMA LoadKeeps ==
  ASSUME IInv, NEW c \in Call, Load(c) PROVE IInv'
<1>1. /\ pc[c] = "queued" /\ Found(req[c]) \notin {Absent, None}
      /\ base' = [base EXCEPT ![c] = Found(req[c])] /\ pc' = [pc EXCEPT ![c] = "loaded"]
      /\ UNCHANGED <<disk, lock, hashes, req, gate, result, engine, reported, undoing, history,
                     outside, fails>>
  BY DEF Load
<1>2. req[c].path \in Path /\ Found(req[c]) \in Value
  BY <1>1, AtWork DEF Found, IInv, TypeOK
<1>3. /\ pc'[c] = "loaded" /\ \A d \in Call \ {c} : pc'[d] = pc[d]
      /\ pc' \in [Call -> {"new", "authorized", "queued", "loaded", "checked", "cleared", "written",
                           "running", "ended"}]
  BY <1>1, StageMoves DEF Working
<1>4. /\ base' \in [Call -> Value \cup {None}] /\ base'[c] = Found(req[c])
      /\ \A d \in Call \ {c} : base'[d] = base[d]
  BY <1>1, <1>2 DEF IInv, TypeOK
<1>5. TypeOK'
  BY <1>1, <1>3, <1>4 DEF IInv, TypeOK
<1>6. StageOK(c)' /\ RequestOK(c)' /\ DoneOK(c)'
  BY <1>1, <1>2, <1>3, <1>4, AtWork DEF StageOK, RequestOK, DoneOK, Working, Holding, Looked
<1>7. \A d \in Call \ {c} : Unmoved(d)
  BY <1>1, <1>3, <1>4 DEF Unmoved
<1>8. LockHeld' /\ HashesEarned'
  BY <1>1, <1>3 DEF IInv, LockHeld, HashesEarned, Holding
<1>. QED
  BY <1>5, <1>6, <1>7, <1>8, OneMoves

\* A read notes the digest of what it found: the model has read it.
LEMMA NoteKeeps ==
  ASSUME IInv, NEW c \in Call, Note(c) PROVE IInv'
<1>1. /\ pc[c] = "loaded" /\ readHashes' = [readHashes EXCEPT ![req[c].path] = base[c]]
      /\ earned' = earned \cup {base[c]} /\ Ends(c, Result("ok", {base[c]}, FALSE))
      /\ UNCHANGED <<files, ownWrites, req, gate, engine, reported, undoing, known, raced, touched,
                     outside, fails>>
  BY DEF Note
<1>2. /\ req[c].path \in Path /\ base[c] \in Value /\ program'[c] = None /\ c \notin touched /\ c \notin started
      /\ engine'[c] \in {"waiting", "stopping", "abandoned"}
  BY <1>1, AtWork DEF Holding
<1>3. /\ StageOK(c)' /\ RequestOK(c)' /\ DoneOK(c)'
      /\ pc' \in [Call -> {"new", "authorized", "queued", "loaded", "checked", "cleared", "written",
                           "running", "ended"}]
      /\ result' \in [Call -> [status : Status, shown : SUBSET Value, changed : BOOLEAN] \cup {None}]
      /\ pc'[c] = "ended"
      /\ \A d \in Call \ {c} : pc'[d] = pc[d] /\ result'[d] = result[d]
  <2>1. "ok" \in Status /\ {base[c]} \in SUBSET Value /\ {base[c]} \subseteq earned' /\ FALSE \in BOOLEAN
    BY <1>1, <1>2 DEF Status
  <2>. QED
    BY <1>1, <1>2, <2>1, EndSound
<1>4. TypeOK'
  BY <1>1, <1>2, <1>3 DEF IInv, TypeOK
<1>5. \A d \in Call \ {c} : Unmoved(d)
  BY <1>1, <1>3 DEF Unmoved
<1>6. LockHeld'
  BY <1>1, <1>3 DEF IInv, LockHeld, Holding
<1>7. HashesEarned'
  BY <1>1, <1>2 DEF IInv, TypeOK, HashesEarned
<1>. QED
  BY <1>3, <1>4, <1>5, <1>6, <1>7, OneMoves

\* A write goes on only with a file that is not there, or whose digest it was given.
LEMMA EnterFacts ==
  ASSUME IInv, NEW c \in Call, Queued(c), Verdict(req[c], Found(req[c])) = None
  PROVE  /\ req[c].kind \in {"write", "edit"} /\ req[c].path \in Path /\ req[c].content \in Content
         /\ Found(req[c]) = disk[req[c].path] /\ Found(req[c]) \in Value
         /\ Found(req[c]) = Absent \/ Found(req[c]) \in earned
<1>. DEFINE r == req[c]
            found == Found(r)
<1>1. /\ r \in Request /\ r.sha \in known \cup {None, Wrong} /\ r.path \in Path \cup {None}
      /\ r.kind \in {"write", "edit"}
  BY AtWork DEF Queued
<1>2. r.path # None
  <2>. SUFFICES ASSUME r.path = None PROVE FALSE
    OBVIOUS
  <2>1. found = None /\ found # Absent
    BY ToolAssumption DEF Found, ToolAssumption, Value
  <2>2. Verdict(r, found) = Result("invalid", {}, FALSE)
    BY <2>1 DEF Verdict
  <2>. QED
    BY <2>2, ToolAssumption DEF Result, ToolAssumption, Status
<1>3. found = disk[r.path] /\ found \in Value /\ r.path \in Path
  BY <1>1, <1>2 DEF Found, IInv, TypeOK
<1>4. ASSUME found # Absent, r.sha # found PROVE FALSE
  <2>1. Verdict(r, found) = Result("invalid", StaleError(r.path, found), FALSE)
    BY <1>2, <1>3, <1>4, ToolAssumption DEF Verdict, Matches, ToolAssumption
  <2>2. StaleError(r.path, found) \in SUBSET Value
    BY <1>3 DEF StaleError
  <2>. QED
    BY <2>1, <2>2, ToolAssumption DEF Result, ToolAssumption, Status
<1>5. found # Absent /\ r.sha = found => found \in earned
  BY <1>1, <1>3, ToolAssumption DEF IInv, HashesEarned, ToolAssumption
<1>6. r.content \in Content
  BY <1>1, <1>2, RequestFacts
<1>. QED
  BY <1>1, <1>3, <1>4, <1>5, <1>6

\* A write takes mutation_lock with a content it may replace.
LEMMA EnterKeeps ==
  ASSUME IInv, NEW c \in Call, Enter(c) PROVE IInv'
<1>1. /\ Queued(c) /\ pc[c] = "queued" /\ lock = None /\ Verdict(req[c], Found(req[c])) = None
      /\ lock' = c /\ base' = [base EXCEPT ![c] = Found(req[c])] /\ pc' = [pc EXCEPT ![c] = "checked"]
      /\ UNCHANGED <<disk, hashes, req, gate, result, engine, reported, undoing, history, outside, fails>>
  BY DEF Enter, Queued, Free
<1>2. /\ req[c].kind \in {"write", "edit"} /\ req[c].path \in Path /\ req[c].content \in Content
      /\ Found(req[c]) = disk[req[c].path] /\ Found(req[c]) \in Value
      /\ Found(req[c]) = Absent \/ Found(req[c]) \in earned
  BY <1>1, EnterFacts
<1>3. /\ pc'[c] = "checked" /\ \A d \in Call \ {c} : pc'[d] = pc[d]
      /\ pc' \in [Call -> {"new", "authorized", "queued", "loaded", "checked", "cleared", "written",
                           "running", "ended"}]
  BY <1>1, StageMoves DEF Working
<1>4. /\ base' \in [Call -> Value \cup {None}] /\ base'[c] = Found(req[c])
      /\ \A d \in Call \ {c} : base'[d] = base[d]
  BY <1>1, <1>2 DEF IInv, TypeOK
<1>5. TypeOK'
  BY <1>1, <1>3, <1>4 DEF IInv, TypeOK
<1>6. StageOK(c)' /\ RequestOK(c)'
  BY <1>1, <1>2, <1>3, <1>4, AtWork DEF StageOK, RequestOK, Working, Holding, Looked
<1>7. DoneOK(c)'
  BY <1>1, <1>3 DEF IInv, CallOK, DoneOK, Looked
<1>8. \A d \in Call \ {c} : Unmoved(d)
  BY <1>1, <1>3, <1>4 DEF Unmoved
<1>9. LockHeld' /\ HashesEarned'
  BY <1>1, <1>3, ToolAssumption DEF IInv, LockHeld, HashesEarned, Holding, ToolAssumption
<1>. QED
  BY <1>5, <1>6, <1>7, <1>8, <1>9, OneMoves

\* The pre-image is in the journal.
LEMMA ClearKeeps ==
  ASSUME IInv, NEW c \in Call, Clear(c) PROVE IInv'
<1>1. /\ pc[c] = "checked" /\ pc' = [pc EXCEPT ![c] = "cleared"]
      /\ preImage' = [preImage EXCEPT ![req[c].path] = IF @ = None THEN disk[req[c].path] ELSE @]
      /\ UNCHANGED <<files, hashes, req, gate, result, engine, reported, forget, undos, history,
                     outside, fails>>
  BY DEF Clear
<1>2. /\ pc'[c] = "cleared" /\ \A d \in Call \ {c} : pc'[d] = pc[d]
      /\ pc' \in [Call -> {"new", "authorized", "queued", "loaded", "checked", "cleared", "written",
                           "running", "ended"}]
  BY <1>1, StageMoves DEF Working
<1>3. req[c].path \in Path /\ preImage' \in [Path -> Value \cup {None}]
  BY <1>1, AtWork DEF Holding, IInv, TypeOK
<1>4. TypeOK'
  BY <1>1, <1>2, <1>3 DEF IInv, TypeOK
<1>5. StageOK(c)' /\ RequestOK(c)' /\ DoneOK(c)'
  BY <1>1, <1>2 DEF IInv, CallOK, StageOK, RequestOK, DoneOK, Working, Holding, Looked
<1>6. \A d \in Call \ {c} : Unmoved(d)
  BY <1>1, <1>2 DEF Unmoved
<1>7. LockHeld' /\ HashesEarned'
  BY <1>1, <1>2 DEF IInv, LockHeld, HashesEarned, Holding
<1>. QED
  BY <1>4, <1>5, <1>6, <1>7, OneMoves

\* While one call holds mutation_lock no other is between its look and its write.
LEMMA HolderAlone ==
  ASSUME IInv, NEW c \in Call, pc[c] \in Holding, NEW d \in Call \ {c}
  PROVE  pc[d] \notin Holding
BY DEF IInv, LockHeld

\* The write of a file: the new content is earned, and nobody else looks at the file.
LEMMA WritesFacts ==
  ASSUME IInv, NEW c \in Call, pc[c] = "cleared", NEW value \in Content \cup {Torn}, Writes(c, value)
  PROVE  /\ disk' \in [Path -> Value] /\ touched' \subseteq Call /\ earned' \subseteq Value
         /\ c \in touched' /\ value \in earned' /\ earned \subseteq earned'
         /\ \A d \in Call \ {c} : d \in touched' <=> d \in touched
BY AtWork DEF Writes, IInv, TypeOK, Holding, Value

\* A complete write keeps the invariant.
LEMMA WrittenKeeps ==
  ASSUME IInv, NEW c \in Call,
         pc[c] = "cleared", Writes(c, req[c].content), pc' = [pc EXCEPT ![c] = "written"],
         UNCHANGED <<lock, base, hashes, req, gate, result, engine, reported, undoing, known, raced,
                     outside, fails>>
  PROVE  IInv'
<1>1. /\ req[c].content \in Content /\ req[c].kind \in {"write", "edit"} /\ req[c].path \in Path
      /\ base[c] \in Value /\ result[c] = None /\ program[c] = None /\ c \notin started
      /\ engine[c] \in {"waiting", "stopping", "abandoned"}
      /\ req[c] \in Request /\ req[c].sha \in known \cup {None, Wrong}
  BY AtWork DEF Holding
<1>2. /\ disk' \in [Path -> Value] /\ touched' \subseteq Call /\ earned' \subseteq Value
      /\ c \in touched' /\ req[c].content \in earned' /\ earned \subseteq earned'
      /\ \A d \in Call \ {c} : d \in touched' <=> d \in touched
  BY <1>1, WritesFacts
<1>3. /\ pc'[c] = "written" /\ \A d \in Call \ {c} : pc'[d] = pc[d]
      /\ pc' \in [Call -> {"new", "authorized", "queued", "loaded", "checked", "cleared", "written",
                           "running", "ended"}]
  BY StageMoves DEF Working
<1>4. TypeOK'
  BY <1>2, <1>3 DEF IInv, TypeOK
<1>5. StageOK(c)' /\ RequestOK(c)' /\ DoneOK(c)'
  BY <1>1, <1>2, <1>3 DEF StageOK, RequestOK, DoneOK, Working, Holding, Looked
<1>6. \A d \in Call \ {c} : Unmoved(d)
  BY <1>2, <1>3, HolderAlone DEF Unmoved, Holding, Looked
<1>7. LockHeld' /\ HashesEarned'
  BY <1>2, <1>3 DEF IInv, LockHeld, HashesEarned, Holding
<1>. QED
  BY <1>4, <1>5, <1>6, <1>7, OneMoves

\* The file is replaced.
LEMMA ReplaceKeeps ==
  ASSUME IInv, NEW c \in Call, Replace(c) PROVE IInv'
<1>1. /\ pc[c] = "cleared" /\ Writes(c, req[c].content) /\ pc' = [pc EXCEPT ![c] = "written"]
      /\ UNCHANGED <<lock, base, hashes, req, gate, result, engine, reported, undoing, known, raced,
                     outside, fails>>
  BY DEF Replace
<1>. QED
  BY <1>1, WrittenKeeps

\* The file is created.
LEMMA CreateKeeps ==
  ASSUME IInv, NEW c \in Call, Create(c) PROVE IInv'
<1>1. /\ pc[c] = "cleared" /\ Writes(c, req[c].content) /\ pc' = [pc EXCEPT ![c] = "written"]
      /\ UNCHANGED <<lock, base, hashes, req, gate, result, engine, reported, undoing, known, raced,
                     outside, fails>>
  BY DEF Create
<1>. QED
  BY <1>1, WrittenKeeps

\* The file is created in part: the result says that it failed.
LEMMA CreateTornKeeps ==
  ASSUME IInv, NEW c \in Call, CreateTorn(c) PROVE IInv'
<1>1. /\ pc[c] = "cleared" /\ Writes(c, Torn) /\ lock' = None /\ Ends(c, Result("failed", {}, FALSE))
      /\ UNCHANGED <<base, hashes, req, gate, engine, reported, undoing, known, raced, outside>>
  BY DEF CreateTorn
<1>2. /\ program'[c] = None /\ c \notin started' /\ engine'[c] \in {"waiting", "stopping", "abandoned"}
  BY <1>1, AtWork DEF Holding
<1>3. /\ disk' \in [Path -> Value] /\ touched' \subseteq Call /\ earned' \subseteq Value
      /\ earned \subseteq earned' /\ \A d \in Call \ {c} : d \in touched' <=> d \in touched
  BY <1>1, WritesFacts
<1>4. /\ StageOK(c)' /\ RequestOK(c)' /\ DoneOK(c)'
      /\ pc' \in [Call -> {"new", "authorized", "queued", "loaded", "checked", "cleared", "written",
                           "running", "ended"}]
      /\ result' \in [Call -> [status : Status, shown : SUBSET Value, changed : BOOLEAN] \cup {None}]
      /\ pc'[c] = "ended"
      /\ \A d \in Call \ {c} : pc'[d] = pc[d] /\ result'[d] = result[d]
  <2>1. "failed" \in Status /\ {} \in SUBSET Value /\ {} \subseteq earned' /\ FALSE \in BOOLEAN
    BY DEF Status
  <2>. QED
    BY <1>1, <1>2, <2>1, EndSound
<1>5. TypeOK'
  <2>1. fails' \in 0..MaxFail
    BY ToolAssumption DEF CreateTorn, IInv, TypeOK, ToolAssumption
  <2>. QED
    BY <1>1, <1>3, <1>4, <2>1 DEF IInv, TypeOK
<1>6. \A d \in Call \ {c} : Unmoved(d)
  BY <1>1, <1>3, <1>4, HolderAlone DEF Unmoved, Holding, Looked
<1>7. LockHeld'
  BY <1>1, <1>4, HolderAlone, ToolAssumption DEF LockHeld, Holding, ToolAssumption
<1>8. HashesEarned'
  BY <1>1, <1>3 DEF IInv, HashesEarned
<1>. QED
  BY <1>4, <1>5, <1>6, <1>7, <1>8, OneMoves

\* A write notes its own digest and lets the lock go.
LEMMA FinishKeeps ==
  ASSUME IInv, NEW c \in Call, Finish(c) PROVE IInv'
<1>1. /\ pc[c] = "written" /\ readHashes' = [readHashes EXCEPT ![req[c].path] = req[c].content]
      /\ ownWrites' = [ownWrites EXCEPT ![req[c].path] = req[c].content] /\ lock' = None
      /\ Ends(c, Result("ok", {req[c].content}, TRUE))
      /\ UNCHANGED <<disk, base, req, gate, engine, reported, undoing, history, outside, fails>>
  BY DEF Finish, Released
<1>2. /\ program'[c] = None /\ c \notin started' /\ engine'[c] \in {"waiting", "stopping", "abandoned"}
      /\ req[c].path \in Path /\ req[c].content \in Content /\ req[c].content \in earned
  <2>1. req[c].content \in earned
    BY <1>1 DEF IInv, CallOK, RequestOK
  <2>. QED
    BY <1>1, <2>1, AtWork DEF Holding
<1>3. /\ StageOK(c)' /\ RequestOK(c)' /\ DoneOK(c)'
      /\ pc' \in [Call -> {"new", "authorized", "queued", "loaded", "checked", "cleared", "written",
                           "running", "ended"}]
      /\ result' \in [Call -> [status : Status, shown : SUBSET Value, changed : BOOLEAN] \cup {None}]
      /\ pc'[c] = "ended"
      /\ \A d \in Call \ {c} : pc'[d] = pc[d] /\ result'[d] = result[d]
  <2>1. "ok" \in Status /\ {req[c].content} \in SUBSET Value /\ {req[c].content} \subseteq earned' /\ TRUE \in BOOLEAN
    BY <1>1, <1>2 DEF Status, Value
  <2>. QED
    BY <1>1, <1>2, <2>1, EndSound
<1>4. TypeOK'
  <2>1. req[c].content \in Value
    BY <1>2 DEF Value
  <2>. QED
    BY <1>1, <1>2, <1>3, <2>1 DEF IInv, TypeOK
<1>5. \A d \in Call \ {c} : Unmoved(d)
  BY <1>1, <1>3 DEF Unmoved
<1>6. LockHeld'
  BY <1>1, <1>3, HolderAlone, ToolAssumption DEF LockHeld, Holding, ToolAssumption
<1>7. HashesEarned'
  BY <1>1, <1>2 DEF IInv, TypeOK, HashesEarned
<1>. QED
  BY <1>3, <1>4, <1>5, <1>6, <1>7, OneMoves

-----------------------------------------------------------------------------
(* The steps of the engine *)

\* What the engine's last word on a call changes of its types.
LEMMA OverFacts ==
  ASSUME IInv, NEW c \in Call, NEW word \in Settled \cup {"stopping"}, engine' = [engine EXCEPT ![c] = word]
  PROVE  /\ engine' \in [Call -> Settled \cup {"waiting", "stopping"}]
         /\ engine'[c] = word /\ \A d \in Call \ {c} : engine'[d] = engine[d]
         /\ Over(c) => /\ req' \in [Call -> Request \cup {None}] /\ base' \in [Call -> Value \cup {None}]
                       /\ \A d \in Call \ {c} : req'[d] = req[d] /\ base'[d] = base[d]
BY DEF IInv, TypeOK, Over

\* The engine takes the result: what it shows was earned before.
LEMMA AnswerKeeps ==
  ASSUME IInv, NEW c \in Call, Answer(c) PROVE IInv'
<1>1. /\ engine[c] = "waiting" /\ pc[c] = "ended" /\ engine' = [engine EXCEPT ![c] = "recorded"]
      /\ reported' = reported \cup {c} /\ known' = known \cup result[c].shown /\ Over(c)
      /\ UNCHANGED <<disk, lock, hashes, pc, gate, result, undoing, earned, raced, touched, outside, fails>>
  BY DEF Answer
<1>2. /\ engine' \in [Call -> Settled \cup {"waiting", "stopping"}]
      /\ engine'[c] = "recorded" /\ \A d \in Call \ {c} : engine'[d] = engine[d]
      /\ req' \in [Call -> Request \cup {None}] /\ base' \in [Call -> Value \cup {None}]
      /\ \A d \in Call \ {c} : req'[d] = req[d] /\ base'[d] = base[d]
  BY <1>1, OverFacts DEF Settled
<1>3. result[c].shown \subseteq earned /\ known' \subseteq Value
  BY <1>1 DEF IInv, TypeOK, CallOK, StageOK
<1>4. TypeOK'
  BY <1>1, <1>2, <1>3 DEF IInv, TypeOK
<1>5. StageOK(c)' /\ RequestOK(c)' /\ DoneOK(c)'
  BY <1>1, <1>2 DEF IInv, CallOK, StageOK, RequestOK, DoneOK, Working, Holding, Looked
<1>6. \A d \in Call \ {c} : Unmoved(d)
  BY <1>1, <1>2 DEF Unmoved
<1>7. LockHeld' /\ HashesEarned'
  BY <1>1, <1>3 DEF IInv, LockHeld, HashesEarned
<1>. QED
  BY <1>4, <1>5, <1>6, <1>7, OneMoves

\* A stopped call whose result comes in time.
LEMMA StoppedKeeps ==
  ASSUME IInv, NEW c \in Call, Stopped(c) PROVE IInv'
<1>1. /\ engine[c] = "stopping" /\ pc[c] = "ended" /\ engine' = [engine EXCEPT ![c] = "late"]
      /\ reported' = IF LateCounts(c) THEN reported \cup {c} ELSE reported
      /\ Over(c)
      /\ UNCHANGED <<disk, lock, hashes, pc, gate, result, undoing, history, outside, fails>>
  BY DEF Stopped
<1>2. /\ engine' \in [Call -> Settled \cup {"waiting", "stopping"}]
      /\ engine'[c] = "late" /\ \A d \in Call \ {c} : engine'[d] = engine[d]
      /\ req' \in [Call -> Request \cup {None}] /\ base' \in [Call -> Value \cup {None}]
      /\ \A d \in Call \ {c} : req'[d] = req[d] /\ base'[d] = base[d]
  BY <1>1, OverFacts DEF Settled
<1>3. TypeOK'
  BY <1>1, <1>2 DEF IInv, TypeOK
<1>4. StageOK(c)' /\ RequestOK(c)' /\ DoneOK(c)'
  BY <1>1, <1>2 DEF IInv, CallOK, StageOK, RequestOK, DoneOK, Working, Holding, Looked, LateCounts
<1>5. \A d \in Call \ {c} : Unmoved(d)
  BY <1>1, <1>2 DEF Unmoved
<1>6. LockHeld' /\ HashesEarned'
  BY <1>1 DEF IInv, LockHeld, HashesEarned
<1>. QED
  BY <1>3, <1>4, <1>5, <1>6, OneMoves

\* A stopped call that the engine gives up.
LEMMA AbandonKeeps ==
  ASSUME IInv, NEW c \in Call, Abandon(c) PROVE IInv'
<1>1. /\ engine[c] = "stopping" /\ pc[c] # "ended" /\ engine' = [engine EXCEPT ![c] = "abandoned"]
      /\ UNCHANGED <<files, hashes, pc, req, gate, result, reported, undoing, history, outside, fails>>
  BY DEF Abandon
<1>2. /\ engine' \in [Call -> Settled \cup {"waiting", "stopping"}]
      /\ engine'[c] = "abandoned" /\ \A d \in Call \ {c} : engine'[d] = engine[d]
  BY <1>1, OverFacts DEF Settled
<1>3. TypeOK'
  BY <1>1, <1>2 DEF IInv, TypeOK
<1>4. StageOK(c)' /\ RequestOK(c)' /\ DoneOK(c)'
  BY <1>1, <1>2 DEF IInv, CallOK, StageOK, RequestOK, DoneOK, Working, Holding, Looked
<1>5. \A d \in Call \ {c} : Unmoved(d)
  BY <1>1, <1>2 DEF Unmoved
<1>6. LockHeld' /\ HashesEarned'
  BY <1>1 DEF IInv, LockHeld, HashesEarned
<1>. QED
  BY <1>3, <1>4, <1>5, <1>6, OneMoves

\* A cancel reaches all the calls that are waited for at once.
LEMMA CancelKeeps ==
  ASSUME IInv, Cancel PROVE IInv'
<1>1. /\ engine' = [c \in Call |-> IF engine[c] = "waiting" THEN "stopping" ELSE engine[c]]
      /\ UNCHANGED <<files, hashes, pc, req, gate, result, reported, undoing, history, outside, fails>>
  BY DEF Cancel
<1>2. TypeOK'
  BY <1>1 DEF IInv, TypeOK
<1>3. \A d \in Call : CallOK(d)'
  BY <1>1 DEF IInv, CallOK, StageOK, RequestOK, DoneOK, Working, Holding, Looked
<1>4. LockHeld' /\ HashesEarned'
  BY <1>1 DEF IInv, LockHeld, HashesEarned
<1>. QED
  BY <1>2, <1>3, <1>4 DEF IInv

-----------------------------------------------------------------------------
(* The steps between turns, and around them *)

\* The role is switched while no call is in the engine's hands: what still runs was abandoned.
LEMMA SetRoleKeeps ==
  ASSUME IInv, SetRole PROVE IInv'
<1>1. /\ Idle /\ role' \in Role
      /\ UNCHANGED <<files, hashes, pc, req, argv, program, started, ceiling, result, engine, reported,
                     undoing, history, outside, fails>>
  BY DEF SetRole, MaySwitch
<1>2. TypeOK'
  BY <1>1 DEF IInv, TypeOK
<1>3. ASSUME NEW d \in Call PROVE Unmoved(d)
  <2>1. engine[d] \in {"none", "recorded", "late", "abandoned"}
    BY <1>1 DEF Idle, Unsettled, Settled
  <2>2. pc[d] \in {"queued"} \cup Looked => engine[d] = "abandoned"
    BY <2>1 DEF IInv, CallOK, StageOK, Looked
  <2>. QED
    BY <1>1, <2>2 DEF Unmoved
<1>4. LockHeld' /\ HashesEarned'
  BY <1>1 DEF IInv, LockHeld, HashesEarned
<1>. QED
  BY <1>2, <1>3, <1>4, NoneMoves

\* undo_last waits for mutation_lock, so that nobody is looking at the file.
LEMMA UndoKeeps ==
  ASSUME IInv, NEW p \in Path, Undo(p) PROVE IInv'
<1>1. /\ lock = None /\ preImage[p] # None
      /\ disk' = [disk EXCEPT ![p] = preImage[p]] /\ preImage' = [preImage EXCEPT ![p] = None]
      /\ forget' = forget \cup {p}
      /\ UNCHANGED <<lock, base, hashes, pc, req, gate, result, engine, reported, history, outside, fails>>
  BY DEF Undo, Free, Undoable
<1>2. TypeOK'
  <2>1. undos' \in 0..MaxUndo
    BY ToolAssumption DEF Undo, IInv, TypeOK, ToolAssumption
  <2>2. disk' \in [Path -> Value] /\ preImage' \in [Path -> Value \cup {None}]
    BY <1>1 DEF IInv, TypeOK
  <2>. QED
    BY <1>1, <2>1, <2>2 DEF IInv, TypeOK
<1>3. \A d \in Call : Unmoved(d)
  <2>1. \A d \in Call : pc[d] \notin Holding
    BY <1>1, ToolAssumption DEF IInv, LockHeld, ToolAssumption
  <2>. QED
    BY <1>1, <2>1 DEF Unmoved, Holding, Looked
<1>4. LockHeld' /\ HashesEarned'
  BY <1>1 DEF IInv, LockHeld, HashesEarned
<1>. QED
  BY <1>2, <1>3, <1>4, NoneMoves

\* The digests of what was undone are dropped.
LEMMA ForgetKeeps ==
  ASSUME IInv, Forget PROVE IInv'
<1>1. /\ readHashes' = [p \in Path |-> IF p \in forget THEN None ELSE readHashes[p]]
      /\ ownWrites' = [p \in Path |-> IF p \in forget THEN None ELSE ownWrites[p]]
      /\ forget' = {}
      /\ UNCHANGED <<files, pc, req, gate, result, engine, reported, preImage, undos, history,
                     outside, fails>>
  BY DEF Forget
<1>2. TypeOK'
  BY <1>1 DEF IInv, TypeOK
<1>3. \A d \in Call : Unmoved(d)
  BY <1>1 DEF Unmoved
<1>4. LockHeld' /\ HashesEarned'
  BY <1>1 DEF IInv, LockHeld, HashesEarned
<1>. QED
  BY <1>2, <1>3, <1>4, NoneMoves

\* A program outside changes a file under a call that is between its look and its write:
\* then the call is raced.
LEMMA OutsideKeeps ==
  ASSUME IInv, NEW p \in Path, NEW value \in Content \cup {Absent}, Outside(p, value) PROVE IInv'
<1>1. /\ disk' = [disk EXCEPT ![p] = value]
      /\ raced' = raced \cup {c \in Call : pc[c] \in {"checked", "cleared"} /\ req[c].path = p}
      /\ UNCHANGED <<lock, base, hashes, pc, req, gate, result, engine, reported, undoing, known,
                     earned, touched, fails>>
  BY DEF Outside
<1>2. TypeOK'
  <2>1. outside' \in 0..MaxOutside
    BY ToolAssumption DEF Outside, IInv, TypeOK, ToolAssumption
  <2>2. disk' \in [Path -> Value]
    BY <1>1 DEF IInv, TypeOK, Value
  <2>. QED
    BY <1>1, <2>1, <2>2 DEF IInv, TypeOK
<1>3. ASSUME NEW d \in Call PROVE Unmoved(d)
  <2>1. pc[d] \in Looked => disk'[req[d].path] = disk[req[d].path] \/ d \in raced'
    BY <1>1, AtWork DEF IInv, TypeOK, Looked, Holding
  <2>. QED
    BY <1>1, <2>1 DEF Unmoved
<1>4. LockHeld' /\ HashesEarned'
  BY <1>1 DEF IInv, LockHeld, HashesEarned
<1>. QED
  BY <1>2, <1>3, <1>4, NoneMoves

-----------------------------------------------------------------------------
(* The theorems *)

\* It holds at first.
LEMMA InitInv ==
  ASSUME Init PROVE IInv
<1>1. PICK P \in SUBSET {p \in Path : disk[p] # Absent} :
        /\ readHashes = [p \in Path |-> IF p \in P THEN disk[p] ELSE None]
        /\ known = {disk[p] : p \in P}
  BY DEF Init
<1>2. disk \in [Path -> Value] /\ known \subseteq Value /\ earned = known
  BY <1>1, ToolAssumption DEF Init, ToolAssumption, Value
<1>3. \A p \in Path : readHashes[p] \in known \cup {None}
  BY <1>1
<1>4. TypeOK
  <2>1. readHashes \in [Path -> Value \cup {None}]
    BY <1>1, <1>2
  <2>2. 0 \in 0..MaxOutside /\ 0 \in 0..MaxUndo /\ 0 \in 0..MaxFail
    BY ToolAssumption DEF ToolAssumption
  <2>. QED
    BY <1>2, <2>1, <2>2 DEF Init, TypeOK, Settled
<1>5. LockHeld /\ HashesEarned
  BY <1>2, <1>3, ToolAssumption DEF Init, LockHeld, HashesEarned, Holding, ToolAssumption
<1>6. \A c \in Call : CallOK(c)
  BY DEF Init, CallOK, StageOK, RequestOK, DoneOK, Working, Holding, Looked
<1>. QED
  BY <1>4, <1>5, <1>6 DEF IInv

\* Every step keeps it.
LEMMA StepInv ==
  ASSUME IInv, [Next]_vars PROVE IInv'
<1>1. ASSUME NEW c \in Call, Refuse(c) \/ Hand(c) \/ Authorize(c) PROVE IInv'
  BY <1>1, RefuseKeeps, HandKeeps, AuthorizeKeeps
<1>2. ASSUME NEW c \in Call, Tool(c) PROVE IInv'
  BY <1>2, LaunchKeeps, LaunchFailsKeeps, JobEndsKeeps, LoadKeeps, LoadFailsKeeps, NoteKeeps, DeclineKeeps,
     EnterKeeps, RefuseCommitKeeps, ClearKeeps, WriteFailsKeeps, ReplaceKeeps, CreateKeeps, CreateTornKeeps,
     CommitTooLateKeeps, FinishKeeps DEF Tool
<1>3. ASSUME NEW c \in Call, Engine(c) PROVE IInv'
  BY <1>3, AnswerKeeps, StoppedKeeps, AbandonKeeps DEF Engine
<1>4. ASSUME NEW p \in Path, Undo(p) \/ \E value \in Content \cup {Absent} : Outside(p, value) PROVE IInv'
  BY <1>4, UndoKeeps, OutsideKeeps
<1>5. CASE UNCHANGED vars
  <2>1. TypeOK'
    BY <1>5 DEF IInv, TypeOK
  <2>2. \A d \in Call : Unmoved(d)
    BY <1>5 DEF Unmoved
  <2>3. LockHeld' /\ HashesEarned'
    BY <1>5 DEF IInv, LockHeld, HashesEarned
  <2>. QED
    BY <2>1, <2>2, <2>3, NoneMoves
<1>. HIDE DEF vars
<1>. QED
  BY <1>1, <1>2, <1>3, <1>4, <1>5, CancelKeeps, SetRoleKeeps, ForgetKeeps DEF Next, Done

\* A call changes a file only from where it was cleared, and creates one only where there is none.
LEMMA TouchFacts ==
  ASSUME IInv, [Next]_vars, NEW c \in Call, c \in touched' \ touched
  PROVE  pc[c] \in Looked /\ (base[c] = Absent => disk[req[c].path] = Absent)
<1>1. ASSUME NEW d \in Call, Tool(d) PROVE Replace(d) \/ Create(d) \/ CreateTorn(d)
  BY <1>1 DEF Tool, Launch, LaunchFails, JobEnds, Load, LoadFails, Note, Decline, Enter, RefuseCommit, Clear,
     WriteFails, CommitTooLate, Finish
<1>2. ASSUME NEW d \in Call, Refuse(d) \/ Hand(d) \/ Authorize(d) \/ Engine(d) PROVE FALSE
  BY <1>2 DEF Refuse, Hand, Authorize, Engine, Answer, Stopped, Abandon
<1>3. ASSUME NEW p \in Path, Undo(p) \/ \E value \in Content \cup {Absent} : Outside(p, value) PROVE FALSE
  BY <1>3 DEF Undo, Outside
<1>4. ~Cancel /\ ~SetRole /\ ~Forget /\ ~UNCHANGED vars
  BY DEF Cancel, SetRole, Forget
<1>5. PICK d \in Call : Replace(d) \/ Create(d) \/ CreateTorn(d)
  <2>. HIDE DEF vars
  <2>. QED
    BY <1>1, <1>2, <1>3, <1>4 DEF Next, Done
<1>6. touched' = touched \cup {d} /\ pc[d] = "cleared" /\ (base[d] = Absent => disk[req[d].path] = Absent)
  BY <1>5 DEF Replace, Create, CreateTorn, Writes, Creatable
<1>. QED
  BY <1>6 DEF Looked

\* Locks, hashes and calls agree at any moment, whatever overlaps.
THEOREM ToolsInvariant == Spec => []IInv
<1>. USE InitInv, StepInv
<1>. HIDE DEF vars
<1>. QED
  BY PTL DEF Spec

-----------------------------------------------------------------------------
(* Confinement *)

\* What is mounted read-only does not depend on the .nedster that is made first.
LEMMA MountsAre ==
  ASSUME NEW d \in Disk, NEW e \in Prepared(d)
  PROVE  /\ ProtectedMounts(e) = ProtectedPaths(d) \cup Named
         /\ ProtectedPaths(d) \subseteq Named \cup (IF d.there THEN Pointed(d) ELSE {})
         /\ Pointed(d) \subseteq {"gitdir", "elsewhere"}
BY DEF Prepared, ProtectedMounts, ProtectedPaths, Pointed, Named, Disk

\* What each grant lets be written: all that is not protected, under docker perhaps more.
LEMMA GrantsAre ==
  ASSUME NEW b \in Backend, NEW d \in Disk, NEW folds \in BOOLEAN, NEW g \in Wrapped(b, d, folds)
  PROVE  /\ Project \ (ProtectedPaths(d) \cup Named) \subseteq g.write
         /\ g.write \subseteq (Project \cup {"temp", "devices"}) \ Named
         /\ ~(b = "docker" /\ folds) => g.write \cap ProtectedPaths(d) = {}
         /\ b # "seatbelt" => \A n \in Named : d[n] # "link"
         /\ {"home", "credentials"} \cap g.read = {}
<1>1. CASE b = "seatbelt"
  <2>1. g = SeatbeltGrant(d)
    BY <1>1 DEF Wrapped
  <2>. QED
    BY <1>1, <2>1 DEF SeatbeltGrant, Place, Project, Home, Named, Nested
<1>2. CASE b = "bwrap"
  <2>1. ~Uncoverable(d) /\ \E e \in Prepared(d) : g = BwrapGrant(e)
    BY <1>2 DEF Wrapped
  <2>2. PICK e \in Prepared(d) : g = BwrapGrant(e)
    BY <2>1
  <2>3. ProtectedMounts(e) = ProtectedPaths(d) \cup Named /\ {"home", "credentials"} \cap ProtectedMounts(e) = {}
    BY MountsAre DEF Named
  <2>. QED
    BY <1>2, <2>1, <2>2, <2>3 DEF BwrapGrant, Project, Named, Nested, Uncoverable
<1>3. CASE b = "docker"
  <2>1. ~Uncoverable(d) /\ \E e \in Prepared(d) : g = DockerGrant(e, folds)
    BY <1>3 DEF Wrapped
  <2>2. PICK e \in Prepared(d) : g = DockerGrant(e, folds)
    BY <2>1
  <2>3. ProtectedMounts(e) = ProtectedPaths(d) \cup Named
    BY MountsAre
  <2>4. ASSUME NEW p \in Project
        PROVE  /\ p \in g.write => p \notin Named /\ (folds \/ p \notin ProtectedPaths(d))
               /\ p \notin ProtectedPaths(d) \cup Named => p \in g.write
    BY <2>2, <2>3, <2>4 DEF DockerGrant, Aliases
  <2>5. g.write \subseteq Project /\ g.read = Project \cup {"image"}
    BY <2>2 DEF DockerGrant
  <2>6. {"home", "credentials"} \cap g.read = {}
    BY <2>5 DEF Project, Named, Nested
  <2>. QED
    BY <1>3, <2>1, <2>4, <2>5, <2>6 DEF Uncoverable
<1>. QED
  BY <1>1, <1>2, <1>3 DEF Backend

\* Under every backend and for every state of .git and .nedster, a command may write neither them
\* nor anything outside the project, and of what they lead to only what Unkept names (wrap of
\* bwrap.py, seatbelt.py and docker.py).
THEOREM CommandsConfined == Confines
<1>1. ASSUME NEW b \in Backend, NEW d \in Disk, NEW folds \in BOOLEAN, NEW g \in Wrapped(b, d, folds)
      PROVE  /\ g.write \cap Named = {}
             /\ g.write \cap MetadataTargets(d) \subseteq Unkept(b, d, folds)
             /\ g.write \subseteq Project \cup {"temp", "devices"}
             /\ {"home", "credentials"} \cap g.read = {}
  <2>1. /\ g.write \subseteq (Project \cup {"temp", "devices"}) \ Named
        /\ ~(b = "docker" /\ folds) => g.write \cap ProtectedPaths(d) = {}
        /\ b # "seatbelt" => \A n \in Named : d[n] # "link"
        /\ {"home", "credentials"} \cap g.read = {}
    BY <1>1, GrantsAre
  <2>2. ASSUME NEW p \in g.write, p \in MetadataTargets(d)
        PROVE  p \in Unkept(b, d, folds)
    <3>1. p \notin Named /\ p # "elsewhere"
      BY <2>1 DEF Project, Named, Nested
    <3>2. CASE p = "target" /\ \E n \in Named : d[n] = "link"
      BY <2>1, <3>2 DEF Unkept
    <3>3. CASE p \in Pointed(d)
      <4>1. p = "gitdir"
        BY <3>1, <3>3 DEF Pointed, Disk
      <4>2. d.there => p \in ProtectedPaths(d)
        BY <3>3 DEF ProtectedPaths
      <4>. QED
        BY <2>1, <4>1, <4>2 DEF Unkept
    <3>4. CASE p = d.common
      BY <3>1, <2>2, <3>4 DEF Unkept, MetadataTargets, Pointed, Disk, Named
    <3>. QED
      BY <2>2, <3>1, <3>2, <3>3, <3>4 DEF MetadataTargets
  <2>. QED
    BY <2>1, <2>2
<1>. QED
  BY <1>1 DEF Confines

\* What the file tools may write a command may write under every backend: they are no way around it
\* (metadata_targets and is_protected of files.py against protected_mounts).
THEOREM NoWayAround == FileToolsWithin
<1>1. ASSUME NEW b \in Backend, NEW d \in Disk, NEW folds \in BOOLEAN, NEW g \in Wrapped(b, d, folds)
      PROVE  FileToolsWrite(d) \subseteq g.write
  <2>1. Project \ (ProtectedPaths(d) \cup Named) \subseteq g.write
    BY <1>1, GrantsAre
  <2>2. ProtectedPaths(d) \subseteq Named \cup MetadataTargets(d)
    BY DEF ProtectedPaths, MetadataTargets, Named
  <2>. QED
    BY <2>1, <2>2 DEF FileToolsWrite
<1>. QED
  BY <1>1 DEF FileToolsWithin

-----------------------------------------------------------------------------
\* What runs is what was judged, and where: the program that resolve_argv found and policy
\* allowed, on the host only if the settings say so, for every command and environment.
THEOREM JudgedRuns == Spec => []RunsAsJudged
<1>1. IInv => RunsAsJudged
  BY CommandsConfined, NoWayAround
     DEF IInv, CallOK, StageOK, Judged, RunsAsJudged, AuthorizedRuns, NoSilentHost
<1>. QED
  BY <1>1, ToolsInvariant, PTL

\* What a call may do and what it has done are what the engine, the records and the role say,
\* also of a write that a cancelled turn left behind.
THEOREM CallsAreSound == Spec => CallsSound
<1>1. IInv => TypeOK /\ BaseStands /\ RefusedUntouched /\ ChangesReported
  <2>. SUFFICES ASSUME IInv PROVE TypeOK /\ BaseStands /\ RefusedUntouched /\ ChangesReported
    OBVIOUS
  <2>1. BaseStands
    BY DEF IInv, CallOK, RequestOK, BaseStands, Looked
  <2>2. RefusedUntouched
    BY DEF IInv, CallOK, StageOK, DoneOK, RefusedUntouched
  <2>3. ChangesReported
    BY DEF IInv, TypeOK, CallOK, DoneOK, ChangesReported
  <2>. QED
    BY <2>1, <2>2, <2>3 DEF IInv
<1>2. IInv /\ [Next]_vars =>
        [\A c \in Call : c \in touched' \ touched => req[c].kind \in role \/ engine[c] = "abandoned"]_vars
  BY TouchFacts DEF IInv, CallOK, DoneOK, Looked
<1>3. Spec => RoleHolds
  BY <1>2, ToolsInvariant, PTL DEF Spec, RoleHolds
<1>. QED
  BY <1>1, <1>3, ToolsInvariant, PTL DEF CallsSound

\* A content is replaced only if the model has read or written it, or a program outside slipped
\* in, and a file is created only where there is none; an error never gives the right away.
THEOREM ReplacedWasSeen == Spec => ReplacesSeen
<1>1. IInv => KnownIsEarned /\ ShownIsEarned
  BY DEF IInv, HashesEarned, CallOK, StageOK, KnownIsEarned, ShownIsEarned
<1>2. IInv /\ [Next]_vars =>
        [\A c \in Call : c \in touched' \ touched =>
           LET before == disk[req[c].path] IN
           IF base[c] = Absent THEN before = Absent ELSE before \in earned \/ c \in raced]_vars
  <2>. SUFFICES ASSUME IInv, [Next]_vars, NEW c \in Call, c \in touched' \ touched
                PROVE  IF base[c] = Absent THEN disk[req[c].path] = Absent
                       ELSE disk[req[c].path] \in earned \/ c \in raced
    OBVIOUS
  <2>1. pc[c] \in Looked /\ (base[c] = Absent => disk[req[c].path] = Absent)
    BY TouchFacts
  <2>2. /\ base[c] = Absent \/ base[c] \in earned
        /\ disk[req[c].path] = base[c] \/ c \in raced
    BY <2>1 DEF IInv, CallOK, RequestOK
  <2>. QED
    BY <2>1, <2>2
<1>3. Spec => SeenBeforeReplaced
  BY <1>2, ToolsInvariant, PTL DEF Spec, SeenBeforeReplaced
<1>. QED
  BY <1>1, <1>3, ToolsInvariant, PTL DEF ReplacesSeen
=============================================================================
