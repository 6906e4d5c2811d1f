----------------------------- MODULE Resolution -----------------------------
(***************************************************************************)
(* Which program a command runs, and under which backend: the Executor's   *)
(* resolve_argv and what it calls (ironclad/tool_runtime/exec.py),         *)
(* select_backend (backends/__init__.py) and the judgement of              *)
(* CompositeToolRuntime._authorize (composite.py).  What a backend lets    *)
(* the program do is Confinement.                                          *)
(*                                                                         *)
(* Nothing here has a state: a command is what the model asks for, an      *)
(* environment what is on the disk and in the settings.  argv[0] is a bare *)
(* name, the path of the project's .venv interpreter, another path in the  *)
(* project, or a path outside; a name is python, pytest or another one.    *)
(***************************************************************************)
EXTENDS Confinement

CommandTool == {"run_command", "run_tests"}
Where == {"bare", "venv", "project", "outside"}
Name == {"python", "pytest", "other"}

\* module: what python -m is given; suite: the model leaves the choice of the tests to the code
Command == [tool : CommandTool, suite : BOOLEAN, where : Where, name : Name, module : {"runner", "none"}]

\* interpreter: what .venv holds; found: the programs on the user's PATH, project directories
\* and relative entries left out; link: a path outside leads back into the project; markers:
\* what a test suite is recognized by; shadowed: a project file has a runner module's name
Environment ==
  [interpreter : {"none", "script", "verified"}, found : SUBSET Name, link : BOOLEAN,
   markers : {"native", "python", "none"}, shadowed : BOOLEAN, container : BOOLEAN]

\* bwrap stands for seatbelt, too, which is tried next and no host has both
ReadyOn(h) ==
  (IF BwrapReady(h) \/ SeatbeltReady(h) THEN {"bwrap"} ELSE {}) \cup
  (IF DockerReady(h) THEN {"docker"} ELSE {})

\* the sandbox settings, and which backends are ready
Settings ==
  [requested : {"auto", "docker", "bwrap", "host"}, allowHost : BOOLEAN,
   ready : {ReadyOn(h) : h \in Host}]

-----------------------------------------------------------------------------
(* select_backend *)

\* "none": the caller refuses to run anything
Selected(s) ==
  CASE s.requested = "auto" -> IF "bwrap" \in s.ready THEN "bwrap"
                               ELSE IF "docker" \in s.ready THEN "docker"
                               ELSE IF s.allowHost THEN "host" ELSE "none"
    [] s.requested = "host" -> IF s.allowHost THEN "host" ELSE "none"
    [] OTHER -> IF s.requested \in s.ready THEN s.requested ELSE "none"

-----------------------------------------------------------------------------
(* resolve_argv *)

\* venv_python: only an interpreter that is structurally one
VenvPython(e) == e.interpreter = "verified"

\* detect_test_argv, _uses_pytest
Detected(e) ==
  [tool |-> "run_tests", suite |-> FALSE, where |-> "bare",
   name |-> IF e.markers = "native" THEN "other" ELSE "python", module |-> "runner"]

\* _prefer_venv
Preferred(q, e) ==
  IF VenvPython(e) /\ ~e.container /\ q.where = "bare" /\ q.name \in {"python", "pytest"}
  THEN [q EXCEPT !.where = "venv", !.name = "python",
                 !.module = IF q.name = "pytest" THEN "runner" ELSE q.module]
  ELSE q

Refused(why) == [verdict |-> why, at |-> "nowhere", name |-> "other"]
Runs(at, name) == [verdict |-> "ok", at |-> at, name |-> name]

\* resolve_program_argv
Program(q, e) ==
  CASE q.where = "venv" /\ VenvPython(e) ->
         IF e.container THEN Runs("image", "python") ELSE Runs("venv", "python")
    [] q.where = "project" \/ (q.where = "venv" /\ ~VenvPython(e)) -> Refused("denied")
    [] q.where = "outside" ->
         IF e.link \/ e.container THEN Refused("denied")
         ELSE IF q.name \in e.found THEN Runs("host", q.name) ELSE Refused("invalid")
    [] q.where = "bare" ->
         IF e.container THEN Runs("image", q.name)
         ELSE IF q.name \in e.found THEN Runs("host", q.name) ELSE Refused("invalid")

\* runner_for: a known test runner that no project file stands in for
IsRunner(q, e) ==
  \/ q.name = "pytest"
  \/ q.name = "python" /\ q.module = "runner" /\ ~e.shadowed
  \/ q.name = "other" /\ q.module = "runner"

Resolve(q, e) ==
  IF q.tool = "run_command" THEN Program(Preferred(q, e), e)
  ELSE IF q.suite /\ e.markers = "none" THEN Refused("invalid")
  ELSE LET asked == Preferred(IF q.suite THEN Detected(e) ELSE q, e)
           found == Program(asked, e)
       IN IF found.verdict = "ok" /\ ~IsRunner(asked, e) THEN Refused("invalid") ELSE found

\* everything a call can come to, with the backend it would run under
Resolutions ==
  LET Found == [container \in BOOLEAN |->
        {Resolve(q, e) : q \in Command, e \in {env \in Environment : env.container = container}}]
  IN UNION {[found : Found[Selected(s) = "docker"], backend : {Selected(s)}, allowHost : {s.allowHost}] :
            s \in Settings}
=============================================================================
