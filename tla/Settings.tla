------------------------------ MODULE Settings ------------------------------
(* The settings of the program: config.toml, what writes it and what reads  *)
(* it.  `nedster setup` and `nedster models install` build the two managed  *)
(* models under staged names, try them, copy them over and then replace the *)
(* file (install_plan); `nedster models use` replaces only the worker's key *)
(* (set_default_worker); both go through activate_config.  Each step may    *)
(* fail or be the last one before the process dies.  resolve_config layers  *)
(* what a process starts with.                                              *)
EXTENDS CommandLine, Sequences

CONSTANTS
  Absent,        \* no such file
  Torn,          \* a file cut off in the middle of being written
  Broken,        \* a file its owner left with a syntax error
  Garbled,       \* a text a command wrote that is not a document
  Nothing,       \* no command, no answer, no model
  Second,        \* bound: the seconds the wall clock shows, by which backups are named
  MaxCommands,   \* bound: commands that write the file
  MaxEdits,      \* bound: edits of the file by its owner
  MaxDeaths      \* bound: commands that die on the way

VARIABLES
  file,      \* config.toml
  candidate, \* config.toml.new
  backups,   \* config.toml.bak-<second> by second, Absent where there is none
  server,    \* the managed models, by name
  cmd,       \* the command that runs, or Nothing
  commands, edits, deaths,
  given,     \* history: what was replaced, and the second of its copy
  reused     \* history: the seconds in which a copy fell on an earlier one

replaced == <<given, reused>>
settings == <<file, candidate, backups, server, cmd, commands, edits, deaths, replaced>>

-----------------------------------------------------------------------------
Staged == [worker |-> "worker-next", router |-> "router-next"]
Staging == [worker |-> "stage-worker", router |-> "stage-router"]
Copying == [worker |-> "copy-worker", router |-> "copy-router"]
Alias == {"worker", "router"}
Name == Alias \cup {"worker-next", "router-next"}
Build == [good : BOOLEAN]

(* The keys told apart: the worker model (managed), the two that carry      *)
(* consent, the role, which only the file's owner ever writes, and the rest *)
(* of the owner's: values that are written as they were read, a table       *)
(* within a table, the string it becomes when it is written, or a character *)
(* or a key that is written as something no parser of TOML takes.           *)
Worker == {"unset", "alias", "other"}
Risk == {"unset", "read", "write", "execute"}
Host == {"unset", "no", "yes"}
Role == {"unset", "code", "plan", "typo"}
Rest == {"plain", "nested", "flat", "awkward"}
Doc == [coder : Worker, risk : Risk, host : Host, role : Role, rest : Rest]
Empty == [coder |-> "unset", risk |-> "unset", host |-> "unset", role |-> "unset", rest |-> "plain"]

(* The terms of setup: flags, whether a terminal is there to ask at, what   *)
(* the probe of the sandbox found, and the answers to the two questions.    *)
Terms == [flagHost : BOOLEAN, flagExec : BOOLEAN, yes : BOOLEAN, tty : BOOLEAN,
          probe : {"isolated", "partial", "nothing"}, exec : BOOLEAN, host : BOOLEAN]
Interactive(t) == t.tty /\ ~t.yes
Questioned(t) == Interactive(t) /\ ~t.flagHost /\ ~t.flagExec
Possible(t) ==
  /\ t.exec => Questioned(t) /\ t.probe # "nothing"
  /\ t.host => Questioned(t) /\ t.probe # "isolated" /\ ~t.exec

(* What the user can be said to have agreed to, or refused, on these terms. *)
Said(t) == [host |-> t.flagHost \/ t.host,
            exec |-> t.flagHost \/ t.host \/ t.exec \/ (t.probe = "isolated" /\ (t.flagExec \/ t.yes)),
            refused |-> Questioned(t) /\ ~t.exec /\ ~t.host]
Silent == [host |-> FALSE, exec |-> FALSE, refused |-> FALSE]

(* _decide_execution: an ExecutionChoice ("unset" leaves the key as it is), *)
(* or Nothing for leaving both.                                             *)
Decide(t) ==
  CASE t.flagHost -> [risk |-> "execute", host |-> "yes"]
    [] ~t.flagHost /\ ~Questioned(t) ->
         IF t.probe = "isolated" /\ (t.flagExec \/ t.yes) THEN [risk |-> "execute", host |-> "unset"] ELSE Nothing
    [] Questioned(t) ->
         CASE t.exec -> [risk |-> "execute", host |-> "unset"]
           [] t.host -> [risk |-> "execute", host |-> "yes"]
           [] OTHER -> [risk |-> "write", host |-> "no"]

Or(value, default) == IF value = "unset" THEN default ELSE value

(* merge_config over render_config: managed keys are replaced, others only  *)
(* filled in, and an explicit answer overrides the two keys of consent.     *)
Merged(doc, choice) ==
  [doc EXCEPT !.coder = "alias",
              !.risk = IF choice # Nothing THEN choice.risk ELSE Or(@, "write"),
              !.host = IF choice # Nothing /\ choice.host # "unset" THEN choice.host ELSE Or(@, "no")]

(* _dump_toml: json.dumps writes a character beyond the first plane as two  *)
(* escapes and a key is written without quotes, neither of which is TOML;   *)
(* a table below the first level becomes a string (_toml_value).            *)
Dumped(doc) ==
  CASE doc.rest = "awkward" -> Garbled
    [] doc.rest = "nested" -> [doc EXCEPT !.rest = "flat"]
    [] OTHER -> doc

(* _read, tomllib.loads: a file that is not there is an empty one           *)
Content == IF file = Absent THEN Empty ELSE file
Readable == file \notin {Torn, Broken, Garbled}

-----------------------------------------------------------------------------
Consent == [risk : {"write", "execute"}, host : {"unset", "no", "yes"}]
ASSUME SettingsAssumption ==
  /\ {MaxCommands, MaxEdits, MaxDeaths} \subseteq Nat
  /\ {Absent, Torn, Broken, Garbled} \cap Doc = {}
  /\ Torn # Absent /\ Broken # Absent /\ Torn # Broken
  /\ Garbled \notin {Absent, Torn, Broken}
  /\ Nothing \notin Build /\ Nothing \notin Consent

TypeOK ==
  /\ file \in Doc \cup {Absent, Torn, Broken, Garbled}
  /\ candidate \in Doc \cup {Absent, Torn, Garbled}
  /\ backups \in [Second -> Doc \cup {Absent, Torn}]
  /\ server \in [Name -> Build \cup {Nothing}]
  /\ cmd = Nothing \/ cmd.kind \in {"setup", "use"}
  /\ commands \in 0..MaxCommands /\ edits \in 0..MaxEdits /\ deaths \in 0..MaxDeaths
  /\ given \subseteq [second : Second, text : Doc] /\ reused \subseteq Second

(* A first start, or one after an earlier successful setup with the worker  *)
(* changed by hand or not.  Bound: what is hard to write comes with the     *)
(* managed worker, no role and no consent.                                  *)
SettingsInit ==
  /\ \/ file = Absent /\ server = [n \in Name |-> Nothing]
     \/ /\ file \in [coder : {"alias", "other"}, risk : {"write", "execute"}, host : {"no", "yes"},
                     role : {"unset", "plan"}, rest : {"plain", "nested", "awkward"}]
        /\ file.risk = "execute" <=> file.host = "yes"
        /\ file.rest # "plain" => file.coder = "alias" /\ file.role = "unset" /\ file.host = "no"
        /\ server = [n \in Name |-> IF n \in Alias THEN [good |-> TRUE] ELSE Nothing]
  /\ candidate = Absent /\ backups = [s \in Second |-> Absent]
  /\ cmd = Nothing /\ commands = 0 /\ edits = 0 /\ deaths = 0
  /\ given = {} /\ reused = {}

-----------------------------------------------------------------------------
(* The owner's editor.  Consent is edited between commands, the role also   *)
(* while one works; a save in the instant between a command's reading of    *)
(* the file and its replacement of it is left out.                          *)
Edit ==
  /\ edits < MaxEdits
  /\ edits' = edits + 1
  /\ cmd # Nothing => cmd.at \notin {"write", "backup", "replace"}
  /\ Readable
  /\ \E role \in {"plan", "typo"}, risk \in {"unset", "execute"}, host \in {"no", "yes"} :
       /\ cmd # Nothing => risk = Content.risk /\ host = Content.host
       /\ file' = [Content EXCEPT !.role = role, !.risk = risk, !.host = host]
  /\ UNCHANGED <<candidate, backups, server, cmd, commands, deaths, replaced>>

BreakFile ==
  /\ edits < MaxEdits /\ cmd = Nothing /\ file # Absent
  /\ edits' = edits + 1
  /\ file' = Broken
  /\ UNCHANGED <<candidate, backups, server, cmd, commands, deaths, replaced>>

-----------------------------------------------------------------------------
(* _setup: the settings are resolved first, so a broken file ends it there; *)
(* `models install` is the same without a question (every term false).  A   *)
(* dry run, and a declined download, change nothing.                        *)
BeginSetup ==
  /\ cmd = Nothing /\ commands < MaxCommands /\ Readable
  /\ commands' = commands + 1
  /\ \E terms \in {t \in Terms : Possible(t)} :
       cmd' = [kind |-> "setup", at |-> "prepare", said |-> Said(terms), choice |-> Decide(terms),
               text |-> Nothing, second |-> Nothing]
  /\ UNCHANGED <<file, candidate, backups, server, edits, deaths, replaced>>

(* models use: the server is asked first, and an unknown name is refused.   *)
BeginUse ==
  /\ cmd = Nothing /\ commands < MaxCommands /\ Readable
  /\ commands' = commands + 1
  /\ \E name \in {"alias", "other"} :
       /\ name = "alias" => server["worker"] # Nothing
       /\ cmd' = [kind |-> "use", at |-> "read", said |-> Silent, choice |-> name, text |-> Nothing,
                  second |-> Nothing]
  /\ UNCHANGED <<file, candidate, backups, server, edits, deaths, replaced>>

At(step) == cmd # Nothing /\ cmd.at = step
Go(step) == cmd' = [cmd EXCEPT !.at = step]
Same == UNCHANGED <<commands, edits, deaths, replaced>>

(* install, ensure_service, the pulls, then each alias under its staged     *)
(* name; whether a build works shows only when it is tried.                 *)
Prepare == At("prepare") /\ Go("stage-worker") /\ UNCHANGED <<file, candidate, backups, server>> /\ Same

Stage ==
  /\ \E alias \in Alias, good \in BOOLEAN :
       /\ At(Staging[alias])
       /\ server' = [server EXCEPT ![Staged[alias]] = [good |-> good]]
       /\ Go(IF alias = "worker" THEN "stage-router" ELSE "verify")
  /\ UNCHANGED <<file, candidate, backups>> /\ Same

(* mutant: only the worker is tried                                         *)
Verify_Worker ==
  /\ At("verify")
  /\ server[Staged["worker"]].good
  /\ Go("copy-worker")
  /\ UNCHANGED <<file, candidate, backups, server>> /\ Same

(* _verify_staged                                                           *)
Verify ==
  /\ At("verify")
  /\ \A alias \in Alias : server[Staged[alias]].good
  /\ Go("copy-worker")
  /\ UNCHANGED <<file, candidate, backups, server>> /\ Same

Copy ==
  /\ \E alias \in Alias :
       /\ At(Copying[alias])
       /\ server' = [server EXCEPT ![alias] = server[Staged[alias]]]
       /\ Go(IF alias = "worker" THEN "copy-router" ELSE "read")
  /\ UNCHANGED <<file, candidate, backups>> /\ Same

(* The file as it is now, with the keys of this command, becomes the text,  *)
(* every value of it written anew.                                          *)
ReadExisting ==
  /\ At("read") /\ Readable
  /\ cmd' = [cmd EXCEPT !.at = "write",
                        !.text = Dumped(IF cmd.kind = "use" THEN [Content EXCEPT !.coder = cmd.choice]
                                        ELSE Merged(Content, cmd.choice))]
  /\ UNCHANGED <<file, candidate, backups, server>> /\ Same

(* activate_config: the candidate, the copy of the old file, the rename     *)
WriteCandidate ==
  /\ At("write")
  /\ IF candidate # Torn THEN candidate' = Torn /\ UNCHANGED cmd
     ELSE candidate' = cmd.text /\ Go("backup")
  /\ UNCHANGED <<file, backups, server>> /\ Same

(* The copy is named by the second of the wall clock, and shutil.copy2      *)
(* writes over one that has that name: two commands in one second, or a     *)
(* clock that was set back.                                                 *)
Keep(now, content) ==
  /\ backups' = [backups EXCEPT ![now] = content]
  /\ reused' = IF backups[now] = Absent THEN reused ELSE reused \cup {now}

CopyAt(now) == Keep(now, file) /\ cmd' = [cmd EXCEPT !.at = "replace", !.second = now]

Backup ==
  /\ At("backup")
  /\ IF file = Absent THEN Go("replace") /\ UNCHANGED <<backups, reused>> ELSE \E now \in Second : CopyAt(now)
  /\ UNCHANGED <<file, candidate, server, commands, edits, deaths, given>>

Replace ==
  /\ At("replace")
  /\ file' = candidate /\ candidate' = Absent
  /\ given' = IF file = Absent THEN given ELSE given \cup {[second |-> cmd.second, text |-> file]}
  /\ Go("clean")
  /\ UNCHANGED <<backups, server, commands, edits, deaths, reused>>

(* The finally of install_plan: what this command staged goes, unless       *)
(* ollama refuses.                                                          *)
Created == CASE cmd.at \in {"prepare", "stage-worker"} -> {}
             [] cmd.at = "stage-router" -> {Staged["worker"]}
             [] OTHER -> {Staged[alias] : alias \in Alias}
Unstage ==
  IF cmd.kind = "use" THEN UNCHANGED server
  ELSE \E gone \in SUBSET Created : server' = [n \in Name |-> IF n \in gone THEN Nothing ELSE server[n]]

Finish ==
  /\ At("clean")
  /\ cmd' = Nothing
  /\ Unstage
  /\ UNCHANGED <<file, candidate, backups>> /\ Same

(* A copy that fails or is cut off may leave a torn backup.                 *)
CutCopy ==
  \/ UNCHANGED <<backups, reused>>
  \/ At("backup") /\ file # Absent /\ \E now \in Second : Keep(now, Torn)

(* Any step may fail: what could not be written stays torn, activate_config *)
(* removes its candidate only once it has it whole.  The staged names are   *)
(* cleaned up all the same.                                                 *)
Fail ==
  /\ cmd # Nothing /\ cmd.at # "clean"
  /\ cmd' = Nothing
  /\ candidate' = IF cmd.at \in {"backup", "replace"} THEN Absent ELSE candidate
  /\ CutCopy
  /\ Unstage
  /\ UNCHANGED <<file, commands, edits, deaths, given>>

(* Killed, or interrupted from the keyboard: then the finally still runs.   *)
Die ==
  /\ cmd # Nothing /\ deaths < MaxDeaths
  /\ deaths' = deaths + 1
  /\ cmd' = Nothing
  /\ CutCopy
  /\ UNCHANGED server \/ Unstage
  /\ UNCHANGED <<file, candidate, commands, edits, given>>

-----------------------------------------------------------------------------
(* resolve_config: defaults, the user's file, the project's file, the       *)
(* environment, the command line.  The project's layer may not name the     *)
(* host or the risk above what stands, nor a role at all (_tighten,         *)
(* _apply_project_layer); an unknown role keeps the one before (_set).      *)
Rank == [read |-> 0, write |-> 1, execute |-> 2]
Defaults == [coder |-> "unset", risk |-> "write", host |-> FALSE, role |-> "code"]

Laid(below, layer) ==
  [coder |-> Or(layer.coder, below.coder),
   risk |-> Or(layer.risk, below.risk),
   host |-> IF layer.host = "unset" THEN below.host ELSE layer.host = "yes",
   role |-> IF layer.role \in {"unset", "typo"} THEN below.role ELSE layer.role]

(* mutant: the last layer counts, as between the owner's own                *)
Tightened_Last(below, layer) ==
  [below EXCEPT !.coder = Or(layer.coder, @),
                !.risk = IF layer.risk # "unset" THEN layer.risk ELSE @,
                !.host = @ /\ layer.host # "no"]

(* _apply_project_layer with _tighten                                        *)
Tightened(below, layer) ==
  [below EXCEPT !.coder = Or(layer.coder, @),
                !.risk = IF layer.risk # "unset" /\ Rank[layer.risk] < Rank[@] THEN layer.risk ELSE @,
                !.host = @ /\ layer.host # "no"]

Resolve(user, project, env, flags) == Laid(Laid(Tightened(Laid(Defaults, user), project), env), flags)

CommandStep == Prepare \/ Stage \/ Verify \/ Copy \/ ReadExisting \/ WriteCandidate \/ Backup \/ Replace \/ Finish \/ Fail \/ Die
SettingsNext == Edit \/ BreakFile \/ BeginSetup \/ BeginUse \/ CommandStep

-----------------------------------------------------------------------------
(* config.toml is never half a text: a command that fails or dies on the    *)
(* way leaves the one that was there (activate_config writes beside it and  *)
(* renames).  Where a command has left one that nothing can read, the       *)
(* document it read had a value or a key that _dump_toml does not write.    *)
FileWhole ==
  /\ file # Torn
  /\ file = Broken => edits > 0
  /\ file = Garbled => \E old \in given : old.text.rest = "awkward"

(* What a command has replaced is in the backup it was told of, whatever    *)
(* failed or died since, unless a later command made, or began, its copy in *)
(* the same second (activate_config copies before it renames).              *)
ReplacedKept == \A old \in given : old.second \in reused \/ backups[old.second] = old.text

(* What the file names as the worker is on the server and was tried: a      *)
(* setup that fails or dies half-way, at whatever step, has neither named a *)
(* model that is missing nor put one in place that failed its trial.        *)
WorkerReady ==
  /\ file \in Doc /\ file.coder = "alias" => server["worker"] # Nothing
  /\ \A alias \in Alias : server[alias] # Nothing => server[alias].good

(* No file of a project lets a process that starts now do more than it would *)
(* do elsewhere, whatever its environment, nor picks its role; and a role    *)
(* that its owner misspelt in a later layer does not widen the one below it  *)
(* (resolve_config, _apply_project_layer, _tighten, _set).                   *)
Layer == [coder : {"unset"}, risk : {"read", "execute"}, host : {"no", "yes"}, role : {"code"}]
Environment == [coder : {"unset"}, risk : {"unset", "execute"}, host : {"unset"}, role : {"unset", "typo"}]
ProjectTightens ==
  cmd = Nothing /\ Readable =>
    \A env \in Environment :
      LET without == Resolve(Content, Empty, env, Empty)
      IN \A project \in Layer :
           LET with == Resolve(Content, project, env, Empty)
           IN /\ Rank[with.risk] <= Rank[without.risk]
              /\ with.host => without.host
              /\ with.role = without.role
              /\ Content.role = "plan" => with.role = "plan"

(* A document that a command writes has the two keys of consent only as the *)
(* user agreed on its own terms, takes them back when the user refused, and *)
(* keeps what is the owner's alone, the role also when it is edited while   *)
(* the models are downloaded, the rest unless it holds a table within a     *)
(* table (_decide_execution, merge_config, set_default_worker).             *)
AsAgreed ==
  cmd # Nothing /\ edits' = edits /\ file' \notin {file, Garbled} =>
    /\ file'.role = Content.role
    /\ Content.rest # "nested" => file'.rest = Content.rest
    /\ file'.host = "yes" => cmd.said.host \/ (Content.host = "yes" /\ ~cmd.said.refused)
    /\ file'.risk = "execute" => cmd.said.exec \/ (Content.risk = "execute" /\ ~cmd.said.refused)
OnlyAsAgreed == [][AsAgreed]_settings

(* A setup leaves the settings whole, usable, recoverable and as agreed,    *)
(* wherever it stops, and no command line waits for a consent in vain.      *)
SettingsStand == [](TypeOK /\ FileWhole /\ ReplacedKept /\ WorkerReady /\ Confirmed) /\ OnlyAsAgreed
=============================================================================
