---------------------------- MODULE Conversations ----------------------------
(***************************************************************************)
(* The list of saved conversations and what its users do with it: the      *)
(* listings and the one resolver of references                             *)
(* (ironclad/session_store/sqlite_store.py), `nedster sessions`, `resume`  *)
(* and `run --session` (nedster_agent/cli.py), the window's commands, its  *)
(* picker and its confirmation (tui.py, widgets/session_picker.py), and    *)
(* the names conversations get (native.py).                                *)
(*                                                                         *)
(* One window, one command at a time and one more window, `other`, share   *)
(* the store.  What a user reads and then acts on, a preview, a list, a    *)
(* title, may be out of date by then.  A text is a value that stands for   *)
(* what is typed, said or chosen as a name; which ids begin with it and    *)
(* which texts it occurs in are constants.  Locks are held or free here:   *)
(* SessionLock has their life.                                             *)
(***************************************************************************)
EXTENDS Naturals, FiniteSets, SequencesExt

CONSTANTS
  Id,          \* conversations, numbered as they are created
  Word, Blank, \* Blank \in Word
  FullId,      \* [Id -> Word]
  Begins,      \* [Id -> SUBSET Word]: what the id begins with, itself included
  Occurs,      \* [Word -> SUBSET Word]: what occurs in a text, itself included
  Short,       \* texts of fewer than MIN_PREFIX_CHARS characters
  Naming, Speech, Query, \* bounds: names that are called, what is said, what a picker is filtered by
  Nil,
  Most, MostAll  \* bounds: how often each of the variable `bounds` may happen, and all of them together

ASSUME ConversationsAssumption ==
  /\ 1..3 \subseteq Id /\ Id \subseteq Nat /\ Nil \notin Id /\ Nil \notin Word \cup {"window", "run", "other"}
  /\ Blank \in Word /\ Naming \cup Speech \subseteq Word \ {Blank} /\ Query \subseteq Word
  /\ \A i \in Id : FullId[i] # Blank /\ FullId[i] \in Begins[i]
  /\ \A i, j \in Id : FullId[i] \in Begins[j] => i = j

VARIABLES
  entry,    \* sessions: state, project, title, first user text, messages, live holder
  recent,   \* ids by updated_ns, the latest last
  at,       \* the window: closed, idle, a step of a turn, or the screen it shows
  current,  \* its session_id
  holds,    \* has it the lock of current (_locked)?
  options, query, index,   \* the picker
  asked,    \* the conversation of the confirmation
  below,    \* what is under the confirmation
  name,     \* what _auto_title is about to write
  command,  \* the running command, or Nil
  called,   \* history: the name users last gave
  raced,    \* history: conversations named by somebody between the two steps of _auto_title
  bounds    \* commands, names called, turns, other windows' holds, this window's starts and screens

stored == <<entry, recent>>
picker == <<options, query, index>>
window == <<at, current, holds, picker, asked, below, name>>
conversations == <<stored, window, command, called, raced, bounds>>

Saved == {i \in Id : entry[i].is = "saved"}
Mine == {i \in Saved : entry[i].root = "here"}
Live(i) == entry[i].holder # Nil
Blanked == [is |-> "none", root |-> "here", title |-> Blank, first |-> Nil, count |-> 0, holder |-> Nil]

ConversationsTypeOK ==
  /\ \A i \in Id :
       /\ entry[i].is \in {"none", "saved", "deleted"} /\ entry[i].root \in {"here", "there"}
       /\ entry[i].title \in Word /\ entry[i].first \in Word \cup {Nil}
       /\ entry[i].holder \in {Nil, "window", "run", "other"}
  /\ ToSet(recent) = Saved /\ IsInjective(recent)
  /\ at \in {"closed", "idle", "auto", "name", "say", "picker", "confirm"}
  /\ current \in Id \cup {Nil} /\ (holds => entry[current].holder = "window")

\* One conversation with the name it got by itself, one without, one of another project.
ConversationsInit ==
  /\ \E text \in Speech : entry = [i \in Id |->
       CASE i = 1 -> [Blanked EXCEPT !.is = "saved", !.title = text, !.count = 1, !.first = text]
         [] i = 2 -> [Blanked EXCEPT !.is = "saved", !.count = 1, !.first = text]
         [] i = 3 -> [Blanked EXCEPT !.is = "saved", !.root = "there", !.title = text]
         [] OTHER -> Blanked]
  /\ recent = <<1, 3, 2>>
  /\ at = "closed" /\ current = Nil /\ holds = FALSE
  /\ options = <<>> /\ query = Blank /\ index = 0 /\ asked = Nil /\ below = "idle" /\ name = Nil
  /\ command = Nil
  /\ called = [i \in Id |-> Nil]
  /\ raced = {}
  /\ bounds = [kind \in DOMAIN Most |-> 0]

Counted(kind) ==
  /\ bounds[kind] < Most[kind] /\ FoldFunction(+, 0, bounds) < MostAll
  /\ bounds' = [bounds EXCEPT ![kind] = @ + 1]

\* what of the sequence s is in S, in its order
Those(s, S) ==
  LET among[n \in 0..Len(s)] ==
        IF n = 0 THEN <<>> ELSE IF s[n] \in S THEN Append(among[n - 1], s[n]) ELSE among[n - 1]
  IN among[Len(s)]

-----------------------------------------------------------------------------
(* The store *)

\* list_sessions, search_sessions: the project's conversations, the latest first
ListSessions == Reverse(Those(recent, Mine))
NonEmpty == Those(ListSessions, {i \in Mine : entry[i].count > 0})
LatestNonEmpty == IF NonEmpty = <<>> THEN Nil ELSE NonEmpty[1]

\* the union of the two kinds of reference
Matches(ref) == {i \in Mine : (ref \notin Short /\ ref \in Begins[i]) \/ entry[i].title = ref}

\* resolve_session: the one conversation, or none (not found, ambiguous, of another project)
Resolved(ref) ==
  LET exact == {i \in Saved : FullId[i] = ref}
      found == IF ref = Blank THEN Mine ELSE IF exact # {} THEN exact ELSE Matches(ref)
  IN IF Cardinality(found) = 1 THEN found \cap Mine ELSE {}

Titled(i, title) == entry' = [entry EXCEPT ![i].title = IF i \in Saved THEN title ELSE @]

Step(kind, step) == command # Nil /\ command.kind = kind /\ command.step = step

\* between the two steps of _auto_title
BeingNamed(i) == (Step("run", "name") /\ command.id = i) \/ (name # Nil /\ current = i)

\* set_title by a user: it is no activity, and says nothing of a row that is gone
Rename(i, title) ==
  /\ Titled(i, title) /\ UNCHANGED recent
  /\ called' = [called EXCEPT ![i] = IF i \in Saved THEN title ELSE @]
  /\ raced' = IF BeingNamed(i) THEN raced \cup {i} ELSE raced

\* create: a row with an id of its own
Unused(i) == entry[i].is = "none" /\ \A j \in Id : entry[j].is = "none" => i <= j
Fresh(title, holder) == [Blanked EXCEPT !.is = "saved", !.title = title, !.holder = holder]

\* append_message, append_transcript: a text of the user, and _touch
Say(i, text) ==
  /\ entry' = [entry EXCEPT ![i].count = @ + 1, ![i].first = IF @ = Nil THEN text ELSE @]
  /\ recent' = Append(Those(recent, Id \ {i}), i)

\* delete_session_cascade: refused while somebody live holds the conversation
Delete(i) ==
  IF Live(i) THEN UNCHANGED stored
  ELSE /\ entry' = [entry EXCEPT ![i] = [Blanked EXCEPT !.is = "deleted", !.root = entry[i].root]]
       /\ recent' = Those(recent, Id \ {i})

Held(i, holder) == [entry EXCEPT ![i].holder = holder]
Freed(i, holder) == [entry EXCEPT ![i].holder = IF @ = holder THEN Nil ELSE @]
CanHold(i, holder) == i \in Saved /\ entry[i].holder \in {Nil, holder}

-----------------------------------------------------------------------------
(* A conversation's name *)

\* mutant: the first prompt of a process names its conversation
Unnamed_Always(i) == i \in Saved

Unnamed(i) == i \in Saved /\ entry[i].title = Blank

\* _auto_title: first it looks ...
AutoName(i, text) ==
  IF ~Unnamed(i) THEN Nil ELSE IF entry[i].first # Nil THEN entry[i].first ELSE text

\* ... then it writes
WriteName(i, title) ==
  /\ Titled(i, title) /\ UNCHANGED <<recent, called, raced>>

-----------------------------------------------------------------------------
(* `nedster sessions rename` and `delete`, `nedster run` *)

Begin(kind, i, title, step) ==
  /\ command = Nil /\ Counted("commands")
  /\ command' = [kind |-> kind, id |-> i, title |-> title, step |-> step, name |-> Nil]

\* _find_session, _resolve_run_session: an unresolved reference ends the command
BeginRename(ref, title) ==
  /\ bounds["renames"] < Most["renames"]
  /\ \E i \in Resolved(ref) : Begin("rename", i, title, "write")
  /\ UNCHANGED <<stored, window, called, raced>>

BeginDelete(ref) ==
  /\ \E i \in Resolved(ref) : Begin("delete", i, Blank, "asked")
  /\ UNCHANGED <<stored, window, called, raced>>

BeginRun(ref, title) ==
  /\ \E i \in Resolved(ref) : ~Live(i) /\ Begin("run", i, title, "admit")
  /\ UNCHANGED <<stored, window, called, raced>>

\* run --continue: latest_non_empty, or a new one as without a reference
BeginLatest(title) ==
  /\ LatestNonEmpty # Nil
  /\ Begin("run", LatestNonEmpty, title, "admit")
  /\ UNCHANGED <<stored, window, called, raced>>

BeginNew(title) ==
  \E i \in Id : Unused(i) /\
    /\ Begin("run", i, Blank, "admit")
    /\ entry' = [entry EXCEPT ![i] = Fresh(title, Nil)] /\ recent' = Append(recent, i)
    /\ called' = [called EXCEPT ![i] = IF title = Blank THEN Nil ELSE title]
    /\ UNCHANGED <<window, raced>>

Over == command' = Nil /\ UNCHANGED bounds
RenameWrite ==
  /\ Step("rename", "write")
  /\ Rename(command.id, command.title)
  /\ command' = Nil /\ Counted("renames")
  /\ UNCHANGED window

\* the answer to "Delete this conversation and its saved checkpoints?", or --yes
DeleteAnswer(yes) ==
  /\ Step("delete", "asked")
  /\ IF yes THEN Delete(command.id) ELSE UNCHANGED stored
  /\ Over /\ UNCHANGED <<window, called, raced>>

\* NativeSession resolves the id again, is admitted, and only then writes --name
RunAdmitted ==
  /\ Step("run", "admit")
  /\ IF CanHold(command.id, "run")
     THEN /\ entry' = [Held(command.id, "run") EXCEPT ![command.id].title = IF command.title = Blank THEN @ ELSE command.title]
          /\ called' = [called EXCEPT ![command.id] = IF command.title = Blank THEN @ ELSE command.title]
          /\ command' = [command EXCEPT !.step = "auto"]
     ELSE UNCHANGED <<entry, called>> /\ command' = Nil
  /\ UNCHANGED <<recent, window, raced, bounds>>

RunLooks(text) ==
  /\ Step("run", "auto")
  /\ command' = [command EXCEPT !.name = AutoName(command.id, text),
                        !.step = IF AutoName(command.id, text) = Nil THEN "say" ELSE "name"]
  /\ UNCHANGED <<stored, window, called, raced, bounds>>

RunNames ==
  /\ Step("run", "name")
  /\ WriteName(command.id, command.name)
  /\ command' = [command EXCEPT !.step = "say"]
  /\ UNCHANGED <<window, bounds>>

RunSays(text) ==
  /\ Step("run", "say") /\ Counted("turns")
  /\ Say(command.id, text)
  /\ command' = [command EXCEPT !.step = "end"]
  /\ UNCHANGED <<window, called, raced>>

\* the run ends, at any step, or dies: a dead holder is no holder
RunEnds ==
  /\ command # Nil /\ command.kind = "run" /\ command.step # "admit"
  /\ entry' = Freed(command.id, "run")
  /\ Over /\ UNCHANGED <<recent, window, called, raced>>

CommandNext ==
  \/ \E ref \in Word : BeginDelete(ref) \/ \E title \in Naming : BeginRename(ref, title)
  \/ \E ref \in Word, title \in Naming \cup {Blank} : BeginRun(ref, title)
  \/ \E title \in Naming \cup {Blank} : BeginLatest(title) \/ BeginNew(title)
  \/ RenameWrite \/ \E yes \in BOOLEAN : DeleteAnswer(yes)
  \/ RunAdmitted \/ RunNames \/ RunEnds \/ \E text \in Speech : RunLooks(text) \/ RunSays(text)

-----------------------------------------------------------------------------
(* The window *)

Elsewhere == UNCHANGED <<command, raced>>
Shows(screen) == at' = screen /\ UNCHANGED <<picker, asked, below, name>>

\* _resume, _tui_or_help: on a conversation, whose lock it may not get, or on none yet
OpenOn(i) ==
  /\ at = "closed" /\ Counted("opens")
  /\ current' = i /\ holds' = (i # Nil /\ CanHold(i, "window"))
  /\ entry' = IF holds' THEN Held(i, "window") ELSE entry
  /\ Shows("idle") /\ UNCHANGED <<recent, called>> /\ Elsewhere

OpenWindow == OpenOn(Nil) \/ OpenOn(LatestNonEmpty) \/ \E ref \in Word : \E i \in Resolved(ref) : OpenOn(i)

\* the window is closed, or dies
CloseWindow ==
  /\ at # "closed"
  /\ entry' = IF holds THEN Freed(current, "window") ELSE entry
  /\ at' = "closed" /\ current' = Nil /\ holds' = FALSE /\ name' = Nil /\ asked' = Nil
  /\ UNCHANGED <<recent, picker, below, called, bounds>> /\ Elsewhere

\* the lock of current called back
Left == IF holds THEN Freed(current, "window") ELSE entry

\* _cmd_resume: the lock of the other conversation first, then the switch
Switch(i) ==
  IF CanHold(i, "window")
  THEN entry' = [Left EXCEPT ![i].holder = "window"] /\ current' = i /\ holds' = TRUE
  ELSE UNCHANGED <<entry, current, holds>>

ResumeHere(ref) ==
  /\ at = "idle" /\ \E i \in Resolved(ref) : Switch(i)
  /\ Shows("idle") /\ UNCHANGED <<recent, called, bounds>> /\ Elsewhere

\* _cmd_new
NewHere ==
  /\ at = "idle"
  /\ \E i \in Id : Unused(i) /\ current' = i /\ recent' = Append(recent, i)
                   /\ entry' = [Left EXCEPT ![i] = Fresh(Blank, "window")]
  /\ holds' = TRUE
  /\ Shows("idle") /\ UNCHANGED <<called, bounds>> /\ Elsewhere

\* _cmd_rename; before the first turn there is no row to name, and nothing is kept
RenameHere(title) ==
  /\ at = "idle" /\ Counted("renames") /\ current # Nil
  /\ Rename(current, title)
  /\ UNCHANGED <<window, command>>

\* _activate_session: ensure_session, then the lock, or no turn
TurnStarts ==
  /\ at = "idle" /\ bounds["turns"] < Most["turns"]
  /\ \/ /\ current = Nil
        /\ \E i \in Id : Unused(i) /\ current' = i /\ recent' = Append(recent, i)
                         /\ entry' = [entry EXCEPT ![i] = Fresh(Blank, "window")]
     \/ current # Nil /\ CanHold(current, "window") /\ entry' = Held(current, "window")
        /\ UNCHANGED <<recent, current>>
  /\ holds' = TRUE
  /\ Shows("auto") /\ UNCHANGED <<called, bounds>> /\ Elsewhere

TurnLooks(text) ==
  /\ at = "auto"
  /\ name' = AutoName(current, text)
  /\ at' = IF name' = Nil THEN "say" ELSE "name"
  /\ UNCHANGED <<stored, current, holds, picker, asked, below, called, bounds>> /\ Elsewhere

TurnNames ==
  /\ at = "name"
  /\ WriteName(current, name)
  /\ name' = Nil /\ at' = "say"
  /\ UNCHANGED <<command, current, holds, picker, asked, below, bounds>>

TurnSays(text) ==
  /\ at = "say"
  /\ Say(current, text) /\ Counted("turns")
  /\ Shows("idle") /\ UNCHANGED <<current, holds, called>> /\ Elsewhere

-----------------------------------------------------------------------------
(* The window's picker and its confirmation *)

Screen == UNCHANGED <<stored, current, holds, name, called>> /\ Elsewhere

\* _matches, as _search_hit: id prefix, or part of the title or of the first text
Hit(option, text) ==
  \/ text = Blank \/ text \in Begins[option.id]
  \/ text \in Occurs[option.title] \/ (option.first # Nil /\ text \in Occurs[option.first])

Filtered == Those(options, {o \in ToSet(options) : Hit(o, query)})

\* mutant: the row is looked up in the whole list
Highlighted_Unfiltered == options[index]

\* _highlighted
Highlighted == Filtered[index]

\* _picker_options: what the store says now, and stays on the screen
ShowPicker ==
  /\ at = "idle" /\ NonEmpty # <<>> /\ Counted("screens")
  /\ options' = [n \in DOMAIN NonEmpty |->
       LET i == NonEmpty[n] IN
       [id |-> i, title |-> entry[i].title, first |-> entry[i].first, current |-> i = current,
        locked |-> Live(i) /\ ~(holds /\ i = current)]]
  /\ query' = Blank /\ index' = 1
  /\ at' = "picker" /\ UNCHANGED <<asked, below>> /\ Screen

\* _filter_changed with _rebuild
Filter(text) ==
  /\ at = "picker"
  /\ query' = text
  /\ index' = IF \E n \in DOMAIN options : Hit(options[n], text) THEN 1 ELSE 0
  /\ UNCHANGED <<at, options, asked, below, bounds>> /\ Screen

Move ==
  /\ at = "picker"
  /\ index' \in DOMAIN Filtered \ {index}
  /\ UNCHANGED <<at, options, query, asked, below, bounds>> /\ Screen

PickerGone == options' = <<>> /\ query' = Blank /\ index' = 0

\* _choose, _picker_chosen: /resume with the id of the row
Choose ==
  /\ at = "picker" /\ index # 0 /\ ~Highlighted.locked
  /\ \/ \E i \in Resolved(FullId[Highlighted.id]) : Switch(i)
     \/ Resolved(FullId[Highlighted.id]) = {} /\ UNCHANGED <<entry, current, holds>>
  /\ at' = "idle" /\ PickerGone
  /\ UNCHANGED <<recent, asked, below, name, called, bounds>> /\ Elsewhere

\* _confirm_delete, from /delete with a reference ...
AskDelete(ref) ==
  /\ at = "idle" /\ Counted("screens") /\ asked' \in Resolved(ref) \ {current}
  /\ below' = "idle" /\ at' = "confirm"
  /\ UNCHANGED picker /\ Screen

\* ... and from a row of the picker (action_delete_row)
AskDeleteRow ==
  /\ at = "picker" /\ index # 0 /\ ~Highlighted.current /\ ~Highlighted.locked
  /\ Highlighted.id # current
  /\ asked' = Highlighted.id /\ below' = "picker" /\ at' = "confirm"
  /\ UNCHANGED <<picker, bounds>> /\ Screen

\* _perform_delete; the picker goes first
Answer(yes) ==
  /\ at = "confirm"
  /\ IF yes THEN Delete(asked) ELSE UNCHANGED stored
  /\ IF yes \/ below = "idle" THEN at' = "idle" /\ PickerGone ELSE at' = "picker" /\ UNCHANGED picker
  /\ asked' = Nil /\ below' = "idle"
  /\ UNCHANGED <<current, holds, name, called, bounds>> /\ Elsewhere

EscapePicker ==
  /\ at = "picker" /\ at' = "idle" /\ PickerGone
  /\ UNCHANGED <<asked, below, bounds>> /\ Screen

WindowNext ==
  \/ OpenWindow \/ CloseWindow \/ NewHere \/ (\E ref \in Word : ResumeHere(ref) \/ AskDelete(ref))
  \/ \E text \in Query : Filter(text)
  \/ \E title \in Naming : RenameHere(title)
  \/ TurnStarts \/ TurnNames \/ \E text \in Speech : TurnLooks(text) \/ TurnSays(text)
  \/ ShowPicker \/ Move \/ Choose \/ AskDeleteRow \/ EscapePicker \/ \E yes \in BOOLEAN : Answer(yes)

-----------------------------------------------------------------------------
(* The other window: it holds a conversation, of this project or another, for a while *)

OtherHolds(i) ==
  /\ i \in Saved /\ ~Live(i) /\ Counted("holds")
  /\ entry' = Held(i, "other") /\ UNCHANGED recent

OtherSays(i, text) ==
  /\ entry[i].holder = "other" /\ ~Unnamed(i) /\ Counted("turns")
  /\ Say(i, text)

OtherLeaves(i) ==
  /\ entry[i].holder = "other"
  /\ entry' = Freed(i, "other") /\ UNCHANGED <<recent, bounds>>

OtherNext ==
  /\ \E i \in Id : OtherHolds(i) \/ OtherLeaves(i) \/ \E text \in Speech : OtherSays(i, text)
  /\ UNCHANGED <<window, command, called, raced>>

ConversationsNext == CommandNext \/ WindowNext \/ OtherNext
ConversationsSpec == ConversationsInit /\ [][ConversationsNext]_conversations

-----------------------------------------------------------------------------
(* Properties *)

\* A reference means what its user can see that it means: the one conversation of this project
\* that has it as its id, or the only one whose id begins with it or that is called so; never
\* one of several, and never one of another project (resolve_session).
Meant(ref) == {i \in Mine : (ref \notin Short /\ ref \in Begins[i]) \/ entry[i].title = ref}
ReferencesSound ==
  \A ref \in Word \ {Blank} :
    /\ \A i \in Resolved(ref) : i \in Mine /\ (FullId[i] = ref \/ Meant(ref) = {i})
    /\ Cardinality(Meant(ref)) = 1 /\ Resolved(ref) = {} => \E i \in Saved \ Mine : FullId[i] = ref

\* However old the list, the preview or the reference is by then: the window goes to the
\* conversation whose row was highlighted, with its lock (or, if that one is gone by then, to one
\* that has its id for a name); what is deleted is what was asked about,
\* is of this project and held by nobody; no command touches another project's.
ActsOnShown ==
  [][/\ at = "picker" /\ current' # current /\ at' # "closed" =>
          LET shown == Filtered[index].id IN
          /\ current' = shown \/ (shown \notin Saved /\ entry[current'].title = FullId[shown])
          /\ current' \in Saved /\ holds'
     /\ \A i \in Saved : entry'[i].is = "deleted" =>
          /\ i \in Mine /\ ~Live(i)
          /\ (at = "confirm" /\ i = asked) \/ (command # Nil /\ command.kind = "delete" /\ i = command.id)
     /\ \A i \in Saved \ Mine : entry'[i] # entry[i] =>
          "other" \in {entry[i].holder, entry'[i].holder}]_conversations

\* A name that a user gave stays until a user gives another ("never overwrites a name"), but for
\* one given between the two steps of _auto_title; and a name alone moves nothing in the lists.
NamesStand ==
  [][\A i \in Saved : entry'[i].is = "saved" /\ entry'[i].title # entry[i].title =>
       /\ called'[i] # Nil => entry'[i].title = called'[i] \/ i \in raced'
       /\ entry'[i].count = entry[i].count /\ recent' = recent]_conversations

\* The list: what a user points at is what is meant.
PointedAt == [](ConversationsTypeOK /\ ReferencesSound) /\ ActsOnShown
=============================================================================
