----------------------------- MODULE ToolRuntime -----------------------------
(***************************************************************************)
(* The engine's tools behind their gate: CompositeToolRuntime              *)
(* (ironclad/tool_runtime/composite.py) with the file tools (files.py),    *)
(* the resolution of commands (Executor of exec.py) and the engine's wait  *)
(* for a call and its stop (Engine._start_and_wait, engine/loop.py).       *)
(*                                                                         *)
(* A file tool runs in a thread of its own, so a cancelled turn can leave  *)
(* one behind that is still at work while the next turn, an undo or a      *)
(* switch of the role goes on.  Programs outside change files whenever     *)
(* they like.  A path that locate() refuses, outside the project or         *)
(* protected, is None.  A file's content stands for its sha256; a write's  *)
(* content is what is left after apply_newline, an edit's what its         *)
(* replacements make of the file.  How a command runs is a matter of Jobs. *)
(***************************************************************************)
EXTENDS Resolution

CONSTANTS
  MaxCall,     \* bound: calls the model makes; they are numbered in order
  Path,        \* files of the project
  Content,     \* contents that are written whole
  Initial,     \* what a file may hold at first
  Allowed,     \* policy.allowed_commands
  Role,        \* what a role lets the model call: sets of kinds
  Ceiling,     \* highest risks a policy may allow
  MaxOutside,  \* bound: changes by programs outside
  MaxUndo,     \* bound: undos
  MaxFail,     \* bound: failures of the file system or the journal
  Absent, Torn, \* no file there; what a failed creation leaves
  Wrong,       \* an expected_sha that is no file's digest
  None

Value == Content \cup {Absent, Torn}
Call == 1..MaxCall
Kind == {"read", "write", "edit", "command", "bad"}  \* bad: an unknown tool or no JSON
Status == {"ok", "failed", "invalid", "denied", "cancelled"}

ASSUME ToolAssumption ==
  /\ {MaxCall, MaxOutside, MaxUndo, MaxFail} \subseteq Nat
  /\ Allowed \subseteq Name /\ Initial \subseteq Content \cup {Absent}
  /\ \A r \in Role : r \subseteq Kind
  /\ Ceiling \subseteq 0..2
  /\ Absent \notin Content /\ Torn \notin Content /\ Absent # Torn
  /\ Wrong \notin Value /\ None \notin Value \cup Call \cup Path \cup {Wrong} /\ None \notin Status
  /\ None \notin [status : Status, shown : SUBSET Value, changed : BOOLEAN]

VARIABLES
  disk,        \* content of every file
  readHashes, ownWrites,  \* FileTools.read_hashes, _own_writes
  lock,        \* who holds mutation_lock: a call or None
  pc, req,     \* where each call is, and its arguments until the engine is done with it
  base,        \* the content the call found
  argv,        \* Executor._resolved: the program authorized for the call
  program,     \* the program that runs for it
  result,      \* its ToolResult
  engine,      \* what the engine does about the call
  reported,    \* calls whose changes are in the engine's records
  role, ceiling,  \* _allowed_tools; the highest risk policy allows
  preImage,    \* the journal's content of each file, for an undo
  forget,      \* files an undo restored, before invalidate_after_undo
  known,       \* digests the model has been told
  earned,      \* history: contents the model has read or written
  raced,       \* history: calls whose file a program outside changed since they looked
  touched,     \* history: calls that changed a file
  started,     \* history: calls a program was started for
  outside, undos, fails  \* counters for the bounds

files == <<disk, lock, base>>
hashes == <<readHashes, ownWrites>>
gate == <<argv, program, started, role, ceiling>>
history == <<known, earned, raced, touched>>
undoing == <<preImage, forget, undos>>
vars == <<files, hashes, pc, req, gate, result, engine, reported, undoing, history, outside, fails>>

Result(status, shown, changed) == [status |-> status, shown |-> shown, changed |-> changed]
Request == [kind : {"write", "edit"}, path : Path, sha : Value \cup {None, Wrong}, content : Content]
           \cup [kind : {"read"}, path : Path \cup {None}, sha : {None}, content : {None}]
           \cup [kind : {"write", "edit", "command", "bad"}, path : {None}, sha : {None}, content : {None}]
Settled == {"none", "recorded", "late", "abandoned"}

TypeOK ==
  /\ disk \in [Path -> Value]
  /\ readHashes \in [Path -> Value \cup {None}] /\ ownWrites \in [Path -> Value \cup {None}]
  /\ lock \in Call \cup {None}
  /\ pc \in [Call -> {"new", "authorized", "queued", "loaded", "checked", "cleared", "written",
                      "running", "ended"}]
  /\ req \in [Call -> Request \cup {None}] /\ base \in [Call -> Value \cup {None}]
  /\ argv \in [Call -> Resolutions \cup {None}] /\ program \in [Call -> Resolutions \cup {None}]
  /\ result \in [Call -> [status : Status, shown : SUBSET Value, changed : BOOLEAN] \cup {None}]
  /\ engine \in [Call -> Settled \cup {"waiting", "stopping"}] /\ reported \subseteq Call
  /\ role \in Role /\ ceiling \in Ceiling
  /\ preImage \in [Path -> Value \cup {None}] /\ forget \subseteq Path
  /\ known \subseteq Value /\ earned \subseteq Value /\ raced \subseteq Call /\ touched \subseteq Call
  /\ started \subseteq Call
  /\ outside \in 0..MaxOutside /\ undos \in 0..MaxUndo /\ fails \in 0..MaxFail

Init ==
  /\ disk \in [Path -> Initial]
  /\ \E P \in SUBSET {p \in Path : disk[p] # Absent} :  \* read before
       /\ readHashes = [p \in Path |-> IF p \in P THEN disk[p] ELSE None]
       /\ known = {disk[p] : p \in P}
  /\ ownWrites = [p \in Path |-> None]
  /\ lock = None
  /\ pc = [c \in Call |-> "new"] /\ req = [c \in Call |-> None]
  /\ base = [c \in Call |-> None] /\ argv = [c \in Call |-> None] /\ program = [c \in Call |-> None]
  /\ result = [c \in Call |-> None] /\ engine = [c \in Call |-> "none"] /\ reported = {}
  /\ role \in Role /\ ceiling \in Ceiling
  /\ preImage = [p \in Path |-> None] /\ forget = {}
  /\ earned = known /\ raced = {} /\ touched = {} /\ started = {}
  /\ outside = 0 /\ undos = 0 /\ fails = 0

-----------------------------------------------------------------------------
(* The gate *)

Mutating(kind) == kind # "read"  \* an unknown tool counts as mutating
Unsettled == {c \in Call : engine[c] \notin Settled}
Idle == Unsettled = {}

Risk(kind) == CASE kind = "read" -> 0 [] kind \in {"write", "edit"} -> 1 [] OTHER -> 2

\* why a call is turned away before anything runs, None if it is not; found is what a command's
\* argv is resolved to.  (A fragment of the command line that policy denies is left out.)
Refusal(kind, found) ==
  CASE kind = "bad" -> "invalid"
    [] kind # "bad" /\ (kind \notin role \/ Risk(kind) > ceiling) -> "denied"
    [] kind = "command" /\ kind \in role /\ Risk(kind) <= ceiling ->
         IF found.verdict # "ok" THEN found.verdict
         ELSE IF found.name \notin Allowed THEN "denied" ELSE None
    [] OTHER -> None

Findings == {resolved.found : resolved \in Resolutions}

\* the model's next call, of a group: calls that change nothing run together, others alone
Dispatched(c, r) ==
  /\ pc[c] = "new" /\ \A d \in 1..c - 1 : pc[d] # "new"
  /\ \A d \in Unsettled : engine[d] = "waiting" /\ ~Mutating(req[d].kind) /\ ~Mutating(r.kind)
  /\ r.sha \in known \cup {None, Wrong} /\ (r.kind = "edit" /\ r.path # None => r.sha # None)
  /\ req' = [req EXCEPT ![c] = r]
  /\ engine' = [engine EXCEPT ![c] = "waiting"]

Ends(c, res) ==
  /\ pc' = [pc EXCEPT ![c] = "ended"]
  /\ result' = [result EXCEPT ![c] = res]

Refuse(c) == \E r \in Request : \E found \in IF r.kind = "command" THEN Findings ELSE {None} :
  /\ Dispatched(c, r) /\ Refusal(r.kind, found) # None
  /\ Ends(c, Result(Refusal(r.kind, found), {}, FALSE))
  /\ UNCHANGED <<files, hashes, gate, reported, undoing, history, outside, fails>>

\* a file tool: off to a thread
Hand(c) == \E r \in Request :
  /\ Dispatched(c, r) /\ r.kind # "command" /\ Refusal(r.kind, None) = None
  /\ pc' = [pc EXCEPT ![c] = "queued"]
  /\ UNCHANGED <<files, hashes, gate, result, reported, undoing, history, outside, fails>>

\* a command: its program is resolved, judged and remembered
Authorize(c) == \E r \in {q \in Request : q.kind = "command"}, resolved \in Resolutions :
  /\ Dispatched(c, r) /\ Refusal(r.kind, resolved.found) = None
  /\ pc' = [pc EXCEPT ![c] = "authorized"]
  /\ argv' = [argv EXCEPT ![c] = resolved]
  /\ UNCHANGED <<files, hashes, program, started, role, ceiling, result, reported, undoing,
                 history, outside, fails>>

\* mutant: the program is looked for again
ArgvForStart_Again(c) ==
  {r \in Resolutions : r.found.verdict = "ok" /\ r.backend = argv[c].backend}

ArgvForStart(c) == {argv[c]}

\* after the fingerprint of the tree was taken, which may take a while
Launch(c) ==
  /\ pc[c] = "authorized"
  /\ argv[c].backend # "none"
  /\ \E resolved \in ArgvForStart(c) : program' = [program EXCEPT ![c] = resolved]
  /\ started' = started \cup {c}
  /\ argv' = [argv EXCEPT ![c] = None]
  /\ pc' = [pc EXCEPT ![c] = "running"]
  /\ UNCHANGED <<files, hashes, req, role, ceiling, result, engine, reported, undoing,
                 history, outside, fails>>

\* no backend is ready, or the program is gone
LaunchFails(c) ==
  /\ pc[c] = "authorized"
  /\ argv' = [argv EXCEPT ![c] = None]
  /\ \E status \in {"denied", "invalid", "failed"} :
       /\ (status = "denied") = (argv[c].backend = "none")
       /\ Ends(c, Result(status, {}, FALSE))
  /\ UNCHANGED <<files, hashes, req, program, started, role, ceiling, engine, reported, undoing,
                 history, outside, fails>>

JobEnds(c) ==
  /\ pc[c] = "running"
  /\ \E status \in {"ok", "failed", "cancelled"} :
       /\ status = "cancelled" => engine[c] \in {"stopping", "abandoned"}
       /\ Ends(c, Result(status, {}, FALSE))
  /\ program' = [program EXCEPT ![c] = None]
  /\ UNCHANGED <<files, hashes, req, argv, started, role, ceiling, engine, reported, undoing, history,
                 outside, fails>>

-----------------------------------------------------------------------------
(* read_file, which takes no lock *)

\* the content found at the request's path; None if locate() refuses the path
Found(r) == IF r.path = None THEN None ELSE disk[r.path]

Load(c) ==
  /\ pc[c] = "queued" /\ req[c].kind = "read"
  /\ Found(req[c]) \notin {Absent, None}
  /\ base' = [base EXCEPT ![c] = Found(req[c])]
  /\ pc' = [pc EXCEPT ![c] = "loaded"]
  /\ UNCHANGED <<disk, lock, hashes, req, gate, result, engine, reported, undoing, history,
                 outside, fails>>

\* no such file, or one that is too large or not text
LoadFails(c) ==
  /\ pc[c] = "queued" /\ req[c].kind = "read"
  /\ \E status \in {"failed", "invalid"} :
       /\ Found(req[c]) = Absent => status = "failed"
       /\ Found(req[c]) = None => status = "invalid"
       /\ Ends(c, Result(status, {}, FALSE))
  /\ UNCHANGED <<files, hashes, req, gate, engine, reported, undoing, history, outside, fails>>

Note(c) ==
  /\ pc[c] = "loaded"
  /\ readHashes' = [readHashes EXCEPT ![req[c].path] = base[c]]
  /\ earned' = earned \cup {base[c]}
  /\ Ends(c, Result("ok", {base[c]}, FALSE))
  /\ UNCHANGED <<files, ownWrites, req, gate, engine, reported, undoing, known, raced, touched,
                 outside, fails>>

-----------------------------------------------------------------------------
(* write_file and edit_file, under mutation_lock *)

\* mutant: the current digest is told whatever it is
StaleError_Tells(p, digest) == {digest}

\* the digests the error tells
StaleError(p, digest) ==
  IF digest \in {ownWrites[p], readHashes[p]} THEN {digest} ELSE {}

Matches(r, found) == r.sha = found

\* what becomes of a write that found this content: its result, or None if it goes on
Verdict(r, found) ==
  CASE r.path = None -> Result("invalid", {}, FALSE)
    [] found = Absent ->
         IF r.kind = "edit" THEN Result("failed", {}, FALSE)
         ELSE IF r.sha # None THEN Result("invalid", {}, FALSE) ELSE None
    [] found \notin {Absent, None} /\ ~Matches(r, found) ->
         Result("invalid", StaleError(r.path, found), FALSE)
    [] OTHER -> IF r.content = found THEN Result("ok", {found}, FALSE) ELSE None

Queued(c) == pc[c] = "queued" /\ req[c].kind \in {"write", "edit"}

\* mutant: mutation_lock is not taken
Free_Always == TRUE

Free == lock = None

\* it has the lock and finds that there is nothing to write
Decline(c) ==
  LET r == req[c] IN
  /\ Queued(c) /\ Free
  /\ \/ /\ Verdict(r, Found(r)) # None
        /\ Ends(c, Verdict(r, Found(r)))
     \/ /\ r.kind = "edit" /\ Verdict(r, Found(r)) = None  \* old is not found, or too often
        /\ Ends(c, Result("invalid", {}, FALSE))
  /\ UNCHANGED <<files, hashes, req, gate, engine, reported, undoing, history, outside, fails>>

Enter(c) ==
  LET r == req[c] IN
  /\ Queued(c) /\ Free
  /\ Verdict(r, Found(r)) = None
  /\ lock' = c
  /\ base' = [base EXCEPT ![c] = Found(r)]
  /\ pc' = [pc EXCEPT ![c] = "checked"]
  /\ UNCHANGED <<disk, hashes, req, gate, result, engine, reported, undoing, history, outside, fails>>

Refusing == {"checked"}

\* _check_commit finds the session lock lost, which SessionLock says when it is
RefuseCommit(c) ==
  /\ pc[c] \in Refusing
  /\ lock' = None
  /\ Ends(c, Result("denied", {}, FALSE))
  /\ UNCHANGED <<disk, base, hashes, req, gate, engine, reported, undoing, history, outside, fails>>

\* ownership is confirmed and the pre-image journaled
Clear(c) ==
  /\ pc[c] = "checked"
  /\ pc' = [pc EXCEPT ![c] = "cleared"]
  /\ preImage' = [preImage EXCEPT ![req[c].path] = IF @ = None THEN disk[req[c].path] ELSE @]
  /\ UNCHANGED <<files, hashes, req, gate, result, engine, reported, forget, undos, history,
                 outside, fails>>

\* the journal refuses, or the new content cannot be put beside the old; nothing is written
WriteFails(c) ==
  /\ pc[c] \in {"checked", "cleared"}
  /\ fails < MaxFail /\ fails' = fails + 1
  /\ lock' = None
  /\ Ends(c, Result("failed", {}, FALSE))
  /\ UNCHANGED <<disk, base, hashes, req, gate, engine, reported, undoing, history, outside>>

Writes(c, value) ==
  /\ disk' = [disk EXCEPT ![req[c].path] = value]
  /\ touched' = touched \cup {c}
  /\ earned' = earned \cup {value}

\* atomic_replace
Replace(c) ==
  /\ pc[c] = "cleared" /\ base[c] # Absent /\ disk[req[c].path] # Absent
  /\ Writes(c, req[c].content)
  /\ pc' = [pc EXCEPT ![c] = "written"]
  /\ UNCHANGED <<lock, base, hashes, req, gate, result, engine, reported, undoing, known, raced,
                 outside, fails>>

Creatable(p) == disk[p] = Absent

Create(c) ==
  /\ pc[c] = "cleared" /\ base[c] = Absent /\ Creatable(req[c].path)
  /\ Writes(c, req[c].content)
  /\ pc' = [pc EXCEPT ![c] = "written"]
  /\ UNCHANGED <<lock, base, hashes, req, gate, result, engine, reported, undoing, known, raced,
                 outside, fails>>

\* the disk is full half way
CreateTorn(c) ==
  /\ pc[c] = "cleared" /\ base[c] = Absent /\ Creatable(req[c].path)
  /\ fails < MaxFail /\ fails' = fails + 1
  /\ Writes(c, Torn)
  /\ lock' = None
  /\ Ends(c, Result("failed", {}, FALSE))
  /\ UNCHANGED <<base, hashes, req, gate, engine, reported, undoing, known, raced, outside>>

\* the file that was to be created is there now, or the one to be replaced is not
CommitTooLate(c) ==
  /\ pc[c] = "cleared" /\ (base[c] = Absent) # (disk[req[c].path] = Absent)
  /\ lock' = None
  /\ Ends(c, Result(IF base[c] = Absent THEN "invalid" ELSE "failed", {}, FALSE))
  /\ UNCHANGED <<disk, base, hashes, req, gate, engine, reported, undoing, history, outside, fails>>

\* mutant: the lock is kept
Released_Kept == lock

Released == None

Finish(c) ==
  LET r == req[c] IN
  /\ pc[c] = "written"
  /\ readHashes' = [readHashes EXCEPT ![r.path] = r.content]
  /\ ownWrites' = [ownWrites EXCEPT ![r.path] = r.content]
  /\ lock' = Released
  /\ Ends(c, Result("ok", {r.content}, TRUE))
  /\ UNCHANGED <<disk, base, req, gate, engine, reported, undoing, history, outside, fails>>

-----------------------------------------------------------------------------
(* The engine waits for the call, or stops it *)

Over(c) == req' = [req EXCEPT ![c] = None] /\ base' = [base EXCEPT ![c] = None]

Answer(c) ==
  /\ engine[c] = "waiting" /\ pc[c] = "ended"
  /\ engine' = [engine EXCEPT ![c] = "recorded"]
  /\ reported' = reported \cup {c}
  /\ known' = known \cup result[c].shown
  /\ Over(c)
  /\ UNCHANGED <<disk, lock, hashes, pc, gate, result, undoing, earned, raced, touched, outside, fails>>

\* the user's cancel, or the deadline; start() itself is not interrupted
Cancel ==
  /\ ~Idle /\ \A c \in Call : pc[c] # "authorized"
  /\ \E c \in Call : engine[c] = "waiting"
  /\ engine' = [c \in Call |-> IF engine[c] = "waiting" THEN "stopping" ELSE engine[c]]
  /\ UNCHANGED <<files, hashes, pc, req, gate, result, reported, undoing, history, outside, fails>>

LateCounts(c) == result[c].status = "ok" /\ result[c].changed

\* _stop_job: the call's own result came in time
Stopped(c) ==
  /\ engine[c] = "stopping" /\ pc[c] = "ended"
  /\ engine' = [engine EXCEPT ![c] = "late"]
  /\ reported' = IF LateCounts(c) THEN reported \cup {c} ELSE reported
  /\ Over(c)
  /\ UNCHANGED <<disk, lock, hashes, pc, gate, result, undoing, history, outside, fails>>

\* ... or JOB_STOP_TIMEOUT_S passed
Abandon(c) ==
  /\ engine[c] = "stopping" /\ pc[c] # "ended"
  /\ engine' = [engine EXCEPT ![c] = "abandoned"]
  /\ UNCHANGED <<files, hashes, pc, req, gate, result, reported, undoing, history, outside, fails>>

-----------------------------------------------------------------------------
(* Between turns, and around them *)

MaySwitch == Idle

SetRole ==
  /\ MaySwitch
  /\ role' \in Role \ {role}
  /\ UNCHANGED <<files, hashes, pc, req, argv, program, started, ceiling, result, engine, reported,
                 undoing, history, outside, fails>>

Undoable(p) == preImage[p] # None /\ preImage[p] # disk[p]

\* CheckpointStore.undo_last, for a file the journal has; see Checkpoints
Undo(p) ==
  /\ Idle /\ Free /\ undos < MaxUndo
  /\ Undoable(p)
  /\ disk' = [disk EXCEPT ![p] = preImage[p]]
  /\ preImage' = [preImage EXCEPT ![p] = None]
  /\ forget' = forget \cup {p}
  /\ undos' = undos + 1
  /\ UNCHANGED <<lock, base, hashes, pc, req, gate, result, engine, reported, history, outside, fails>>

\* the on_undone hook: invalidate_after_undo
Forget ==
  /\ forget # {} /\ Free
  /\ readHashes' = [p \in Path |-> IF p \in forget THEN None ELSE readHashes[p]]
  /\ ownWrites' = [p \in Path |-> IF p \in forget THEN None ELSE ownWrites[p]]
  /\ forget' = {}
  /\ UNCHANGED <<files, pc, req, gate, result, engine, reported, preImage, undos, history,
                 outside, fails>>

\* an editor, another process, or what a command left running
Outside(p, value) ==
  /\ outside < MaxOutside /\ outside' = outside + 1
  /\ value # disk[p]
  /\ disk' = [disk EXCEPT ![p] = value]
  /\ raced' = raced \cup {c \in Call : pc[c] \in {"checked", "cleared"} /\ req[c].path = p}
  /\ UNCHANGED <<lock, base, hashes, pc, req, gate, result, engine, reported, undoing, known,
                 earned, touched, fails>>

Done == Idle /\ (\A c \in Call : pc[c] # "new") /\ UNCHANGED vars

Tool(c) ==
  \/ Launch(c) \/ LaunchFails(c) \/ JobEnds(c)
  \/ Load(c) \/ LoadFails(c) \/ Note(c)
  \/ Decline(c) \/ Enter(c) \/ RefuseCommit(c) \/ Clear(c) \/ WriteFails(c)
  \/ Replace(c) \/ Create(c) \/ CreateTorn(c) \/ CommitTooLate(c) \/ Finish(c)

Engine(c) == Answer(c) \/ Stopped(c) \/ Abandon(c)

Next ==
  \/ \E c \in Call : Refuse(c) \/ Hand(c) \/ Authorize(c) \/ Tool(c) \/ Engine(c)
  \/ Cancel \/ SetRole \/ Forget \/ Done
  \/ \E p \in Path : Undo(p) \/ \E value \in Content \cup {Absent} : Outside(p, value)

Spec == Init /\ [][Next]_vars

\* the threads, the jobs and the event loop all run; nobody has to cancel, to undo or to call
FairSpec == Spec /\ \A c \in Call : WF_vars(Tool(c)) /\ WF_vars(Engine(c))

-----------------------------------------------------------------------------
(* Properties *)

\* The model is told the digest of a content, which lets it replace a file that has it, only
\* if it has written that content itself or read it, be it a range of lines only: an error about a stale digest never gives away
\* the one of an edit from outside (FileTools._stale_error).
KnownIsEarned == known \subseteq earned
ShownIsEarned == \A c \in Call : result[c] # None => result[c].shown \subseteq earned

\* Between its look at the file and its replacement a write is alone: no other tool call and
\* no undo changes the file, not even one left behind by a cancelled turn (mutation_lock).
BaseStands ==
  \A c \in Call : pc[c] \in {"checked", "cleared"} => disk[req[c].path] = base[c] \/ c \in raced

\* A call that is answered with INVALID or DENIED has changed nothing and started nothing.
RefusedUntouched ==
  \A c \in Call : result[c] # None /\ result[c].status \in {"invalid", "denied"} =>
    c \notin touched /\ c \notin started

\* The program that runs is the one that policy allowed when it judged the call, whatever was
\* installed or moved since (Executor._argv_for_start); and nothing of the project is run as a
\* program, but a verified interpreter of its own (resolve_program_argv).
AuthorizedRuns ==
  \A c \in Call : program[c] # None =>
    /\ program[c].found.verdict = "ok" /\ program[c].found.name \in Allowed
    /\ program[c].found.at # "project"
    /\ (program[c].found.at = "image") = (program[c].backend = "docker")

\* A command runs without isolation only if the settings say that it may: no backend being
\* ready, or a configured one failing, is not answered by the host (select_backend).
NoSilentHost ==
  \A c \in Call : program[c] # None => (program[c].backend = "host" => program[c].allowHost)

\* What runs is what was judged, where it was judged to run, and kept there: within the project
\* and off its metadata, to which the file tools are no way around.
RunsAsJudged == AuthorizedRuns /\ NoSilentHost /\ Confines /\ FileToolsWithin

\* Every change by a file tool is in the engine's records, also when the call was cancelled while
\* it wrote; but for the torn file a failed creation leaves, and a call the engine gave up on.
ChangesReported ==
  \A c \in touched : engine[c] \in {"recorded", "late"} =>
    c \in reported \/ result[c].status = "failed"

\* A tool replaces a content only if the model has read (of) or written it, or a program outside
\* changed the file in the instant before; and it creates a file only where there is none.
SeenBeforeReplaced ==
  [][\A c \in Call : c \in touched' \ touched =>
       LET before == disk[req[c].path] IN
       IF base[c] = Absent THEN before = Absent ELSE before \in earned \/ c \in raced]_vars

\* Nothing is overwritten that the model has not seen, nor given the right to by an error.
ReplacesSeen == [](KnownIsEarned /\ ShownIsEarned) /\ SeenBeforeReplaced

\* Files are changed only by kinds of calls the role allows, except by a call that was
\* abandoned before the role was switched.
RoleHolds ==
  [][\A c \in Call : c \in touched' \ touched => req[c].kind \in role \/ engine[c] = "abandoned"]_vars

\* What a call may do and what it has done are what the engine and the role say, whatever
\* overlaps with it.
CallsSound == [](TypeOK /\ BaseStands /\ RefusedUntouched /\ ChangesReported) /\ RoleHolds

\* The engine gets an answer to every call or gives it up.
CallsSettle == \A c \in Call : engine[c] = "waiting" ~> engine[c] \in Settled
=============================================================================
