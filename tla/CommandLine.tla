----------------------------- MODULE CommandLine -----------------------------
(* What a command line of `nedster` comes to: what build_parser accepts,    *)
(* _check_flags, _admits_interactive_ui and _dispatch, and what each        *)
(* handler asks of its flags, of the terminal and of the user before it     *)
(* changes anything (nedster_agent/cli.py).  Nothing here has a state.      *)
EXTENDS Naturals

Verb == {"bare", "tui", "resume", "run", "init", "setup", "doctor", "models", "verify-ledger",
         "permissions", "soul", "config", "sessions"}
Actions(verb) ==
  CASE verb = "models" -> {"list", "recommend", "install", "use"}
    [] verb = "soul" -> {"show", "path", "remember"}
    [] verb = "config" -> {"show", "get", "path"}
    [] verb = "sessions" -> {"list", "show", "rename", "delete", "prune"}
    [] OTHER -> {"none"}

(* accept_global_options: these also stand before the verb; --project,      *)
(* --config and --ascii make no difference here.                            *)
Everywhere == {"json", "plain", "no-tui", "color", "no-color"}

(* The options of one verb; an objective is an argument or a brief.         *)
OwnFlags(verb, action) ==
  CASE verb = "setup" -> {"yes", "no-input", "dry-run", "allow-execution", "allow-host-execution"}
    [] verb = "run" -> {"jsonl", "argument", "brief"}
    [] verb = "init" -> {"print"}
    [] verb = "models" -> {"dry-run"}
    [] action = "delete" -> {"yes", "dry-run"}
    [] action = "remember" -> {"yes"}
    [] action = "prune" -> {"dry-run"}
    [] OTHER -> {}

(* At most one way to say which conversation: a group that excludes         *)
(* others, or an argument that has to be there.                             *)
Refers(verb, action) ==
  CASE verb \in {"run", "tui", "resume"} -> {"none", "reference", "latest"}
    [] verb = "sessions" /\ action \in {"show", "rename", "delete"} -> {"reference"}
    [] OTHER -> {"none"}

(* The text that comes with it, by whether its handler can use it: a name,  *)
(* a key, a preference, a number of days, an objective from any source.     *)
Texts(verb, action) ==
  CASE verb = "run" \/ action \in {"rename", "remember", "prune"} -> {"fit", "unfit"}
    [] action \in {"use", "get"} -> {"fit", "unfit", "none"}
    [] OTHER -> {"none"}

LinesOf(verb, action) ==
  [verb : {verb}, action : {action}, flags : SUBSET (Everywhere \cup OwnFlags(verb, action)),
   refers : Refers(verb, action), text : Texts(verb, action), stdin : BOOLEAN, stdout : BOOLEAN]
Line == UNION {UNION {LinesOf(verb, action) : action \in Actions(verb)} : verb \in Verb}

-----------------------------------------------------------------------------
Has(l, flag) == flag \in l.flags
Modes(l) == l.flags \cap {"json", "plain", "jsonl"}

(* _check_flags *)
Clashing(l) == (\E a, b \in Modes(l) : a # b) \/ (Has(l, "color") /\ Has(l, "no-color"))

(* _admits_interactive_ui *)
Admitted(l) == l.stdin /\ l.stdout /\ ~Has(l, "json") /\ ~Has(l, "plain") /\ ~Has(l, "no-tui")

(* _read_objective: from one source, the pipe if there is no other          *)
NoObjective(l) ==
  \/ Has(l, "argument") /\ Has(l, "brief")
  \/ ~Has(l, "argument") /\ ~Has(l, "brief") /\ l.stdin
  \/ l.text = "unfit"

(* What ends in exit 2 with nothing done                                    *)
Unanswerable(l) ==
  \/ l.action = "delete" /\ ~Has(l, "dry-run") /\ ~Has(l, "yes") /\ (Has(l, "json") \/ ~l.stdin)
  \/ l.action = "remember" /\ ~Has(l, "yes") /\ ~l.stdin
Misused(l) ==
  \/ Clashing(l) \/ Unanswerable(l)
  \/ l.verb \in {"tui", "resume"} /\ ~Admitted(l)
  \/ l.verb = "run" /\ NoObjective(l)
  \/ l.action \in {"use", "get", "rename", "prune", "remember"} /\ l.text # "fit"

(* _tui_or_help, _resume: the full screen, or the help                      *)
OpensWindow(l) == l.verb \in {"bare", "tui", "resume"} /\ ~Misused(l) /\ Admitted(l)

(* _ask_yes_no: which lines have a question before they go on; on a first   *)
(* start without a verb it is setup's.                                      *)
AsksYesNo(l) ==
  \/ l.verb = "bare" /\ Admitted(l)
  \/ l.verb = "setup" /\ l.stdin /\ ~Has(l, "no-input") /\ ~Has(l, "yes") /\ ~Has(l, "json")
  \/ l.action = "delete" /\ ~Has(l, "dry-run") /\ ~Has(l, "yes")
  \/ l.action = "remember" /\ ~Has(l, "yes")

(* The handlers that write, unless they are only to show what they would;   *)
(* `models use` has no dry run, though the parser takes the flag.           *)
Previews(l) == Has(l, "print") \/ (Has(l, "dry-run") /\ l.action # "use")
Writes(l) ==
  \/ l.verb \in {"run", "init", "setup"}
  \/ l.action \in {"install", "use", "remember", "rename", "delete", "prune"}
Changes(l, agreed) ==
  Writes(l) /\ ~Misused(l) /\ ~Previews(l) /\ (AsksYesNo(l) => agreed)

-----------------------------------------------------------------------------
(* Nobody is asked who cannot answer: whatever the flags, a line that does  *)
(* not come from a terminal ends or goes on, it never waits; what cannot be *)
(* taken back was agreed to at the terminal or by --yes; and the full       *)
(* screen is only opened at a terminal that did not ask for another output. *)
Confirmed ==
  \A l \in Line :
    /\ AsksYesNo(l) /\ ~Misused(l) => l.stdin
    /\ \A agreed \in BOOLEAN : Changes(l, agreed) /\ l.action \in {"delete", "remember"} =>
         Has(l, "yes") \/ (l.stdin /\ agreed)
    /\ OpensWindow(l) => l.stdin /\ l.stdout /\ Modes(l) = {}
=============================================================================
