--------------------------- MODULE SessionIdentity ---------------------------
(* What a conversation is sent under: the facts and instructions of the     *)
(* project and the user's voice, each read once and stored with the session *)
(* (session_instructions, session_soul, Engine._session), and the role,     *)
(* which the engine, the gate of the tools and the first message share and  *)
(* which a resumed session gets back (NativeSession._saved_role,            *)
(* switch_session, set_role; Engine.set_role).                              *)
EXTENDS Naturals

CONSTANTS
  Session,
  None,
  MaxProject,    \* bound: versions of the project's files
  MaxSoul,       \* bound: versions of soul.md, 0 being no file
  MaxStarts      \* bound: processes started

VARIABLES
  saved,   \* the state rows of each session
  row,     \* the sessions that exist
  project, \* the version of the project's files
  soul,    \* the version of soul.md
  win,     \* the process that runs, or None
  starts,
  sent,    \* history: what the last request of each session began with
  kept     \* history: the role each session ran under last, or was given since

identity == <<saved, row, project, soul, win, starts, sent, kept>>

-----------------------------------------------------------------------------
RoleName == {"code", "plan"}
Mode == {"off", "full"}
NoState == [facts |-> None, instructions |-> None, soul |-> None, role |-> None]
OrNone(S) == S \cup {None}
State == [facts : OrNone(0..MaxProject), instructions : OrNone(0..MaxProject),
          soul : OrNone(0..MaxSoul), role : OrNone(RoleName)]
Lasting == [facts : 0..MaxProject, instructions : 0..MaxProject, soul : 0..MaxSoul]
Prefix == [role : RoleName, lasting : Lasting]
Window == [sid : OrNone(Session), role : RoleName, gate : RoleName,
           default : RoleName, override : OrNone(RoleName), mode : Mode,
           cache : [Session -> OrNone(Prefix)]]

(* None is none of the values it stands beside; there is room for the       *)
(* template of soul.md.                                                     *)
ASSUME IdentityAssumption ==
  /\ MaxProject \in Nat /\ MaxSoul \in Nat \ {0} /\ MaxStarts \in Nat
  /\ None \notin Nat /\ None \notin RoleName /\ None \notin Session
  /\ None \notin Prefix /\ None \notin Window

IdentityTypeOK ==
  /\ saved \in [Session -> State] /\ row \subseteq Session
  /\ project \in 0..MaxProject /\ soul \in 0..MaxSoul /\ starts \in 0..MaxStarts
  /\ win \in OrNone(Window)
  /\ sent \in [Session -> OrNone(Prefix)] /\ kept \in [Session -> OrNone(RoleName)]

IdentityInit ==
  /\ saved = [s \in Session |-> NoState] /\ row = {}
  /\ project = 0 /\ soul = 0 /\ starts = 0
  /\ win = None
  /\ sent = [s \in Session |-> None] /\ kept = [s \in Session |-> None]

-----------------------------------------------------------------------------
First(value, otherwise) == IF value # None THEN value ELSE otherwise

(* load_soul and ensure_soul_file: 0 is no text; the template is version 1. *)
Template(mode) == IF mode = "full" /\ soul = 0 THEN 1 ELSE soul
Voice(mode) == IF mode = "full" THEN Template(mode) ELSE 0

(* mutant: an empty snapshot is taken for none                             *)
Snapshot_Blank(state, mode) ==
  [state EXCEPT !.instructions = IF @ \in {None, 0} THEN project ELSE @, !.soul = First(@, Voice(mode))]

(* session_instructions, session_soul: what is stored stands.               *)
Snapshot(state, mode) ==
  [state EXCEPT !.instructions = First(@, project), !.soul = First(@, Voice(mode))]

(* Engine._session adds the facts; the copy it makes stays for the process. *)
Loaded(state, mode) == Snapshot([state EXCEPT !.facts = First(@, project)], mode)

(* build_system_prompt: the prompt of the role stands between what is fixed *)
(* for every session and what is fixed for this one.                        *)
LastingOf(state) == [facts |-> state.facts, instructions |-> state.instructions, soul |-> state.soul]
PrefixOf(state, role) == [role |-> role, lasting |-> LastingOf(state)]

(* ensure_soul_file writes the template only when a snapshot is still due.  *)
SoulAfter(state, mode) == IF state.soul = None THEN Template(mode) ELSE soul

(* _saved_role, and the order of override, saved and default                *)
SavedRole(s, fresh) == IF fresh \/ s = None THEN None ELSE saved[s].role
RoleFor(s, fresh, override, default) == First(override, First(SavedRole(s, fresh), default))

(* mutant: only the current session's engine copy gets the role            *)
Under_Current(w, role) ==
  [w EXCEPT !.role = role, !.gate = role,
            !.cache = [s \in Session |-> IF @[s] = None \/ s # w.sid THEN @[s] ELSE [@[s] EXCEPT !.role = role]]]

(* Engine.set_role with _apply_role: the engine, the gate, every prefix.    *)
Under(w, role) ==
  [w EXCEPT !.role = role, !.gate = role,
            !.cache = [s \in Session |-> IF @[s] = None THEN None ELSE [@[s] EXCEPT !.role = role]]]

-----------------------------------------------------------------------------
(* The constructor, on a session that exists, on a new one, or on none yet  *)
(* (lazy); it stores the snapshots of the one it has.                       *)
Open(s, default, override, mode) ==
  /\ win = None /\ starts < MaxStarts
  /\ starts' = starts + 1
  /\ LET role == RoleFor(s, s \notin row, override, default) IN
     win' = [sid |-> s, role |-> role, gate |-> role, default |-> default,
             override |-> override, mode |-> mode, cache |-> [t \in Session |-> None]]
  /\ IF s = None
     THEN /\ soul' = Template(mode)      \* a preview: read, nothing stored
          /\ UNCHANGED <<saved, row>>
     ELSE /\ row' = row \cup {s}
          /\ saved' = [saved EXCEPT ![s] = Snapshot(@, mode)]
          /\ soul' = SoulAfter(saved[s], mode)
  /\ UNCHANGED <<project, sent, kept>>

(* It dies between its two snapshots.                                       *)
DieOpening(s) ==
  /\ win = None /\ starts < MaxStarts
  /\ starts' = starts + 1
  /\ row' = row \cup {s}
  /\ saved' = [saved EXCEPT ![s].instructions = First(@, project)]
  /\ UNCHANGED <<project, soul, win, sent, kept>>

(* Engine._session: the one it has, or what is stored with what it fills in *)
StateOf(s) == IF win.cache[s] # None THEN saved[s] ELSE Loaded(saved[s], win.mode)
CopyOf(s) == IF win.cache[s] # None THEN win.cache[s] ELSE PrefixOf(StateOf(s), win.role)

(* run: the row a lazy session still owes, the engine's session, the role   *)
(* stored, the first request.                                               *)
TurnIn(s) ==
  /\ IF win.sid = None THEN s \notin row ELSE s = win.sid
  /\ row' = row \cup {s}
  /\ saved' = [saved EXCEPT ![s] = [StateOf(s) EXCEPT !.role = win.role]]
  /\ soul' = IF win.cache[s] # None THEN soul ELSE SoulAfter(saved[s], win.mode)
  /\ win' = [win EXCEPT !.sid = s, !.cache[s] = CopyOf(s)]
  /\ sent' = [sent EXCEPT ![s] = CopyOf(s)]
  /\ kept' = [kept EXCEPT ![s] = CopyOf(s).role]

Turn == win # None /\ (\E s \in Session : TurnIn(s)) /\ UNCHANGED <<project, starts>>

(* It dies in there: the row, the facts, the instructions, the voice and    *)
(* the role are stored one after the other.                                 *)
DieInTurn ==
  /\ win # None /\ win' = None
  /\ \E s \in Session, stored \in {"row", "facts", "instructions"} :
       /\ IF win.sid = None THEN s \notin row ELSE s = win.sid /\ win.cache[s] = None
       /\ row' = row \cup {s}
       /\ saved' = [saved EXCEPT
            ![s].facts = IF stored = "row" THEN @ ELSE First(@, project),
            ![s].instructions = IF stored = "instructions" THEN First(@, project) ELSE @]
  /\ UNCHANGED <<project, soul, starts, sent, kept>>

(* /role, /act, Shift+Tab: stored at once with the session, if it has a row *)
SetRole(role) ==
  /\ win # None
  /\ win' = Under(win, role)
  /\ IF win.sid = None THEN UNCHANGED <<saved, kept>>
     ELSE /\ saved' = [saved EXCEPT ![win.sid].role = role]
          /\ kept' = [kept EXCEPT ![win.sid] = role]
  /\ UNCHANGED <<row, project, soul, starts, sent>>

(* switch_session and _restore_role                                         *)
Switched(s, fresh) ==
  Under([win EXCEPT !.sid = s], RoleFor(s, fresh, win.override, win.default))

Resume(s) ==
  /\ win # None /\ s \in row /\ s # win.sid
  /\ win' = Switched(s, FALSE)
  /\ UNCHANGED <<saved, row, project, soul, starts, sent, kept>>

(* /new: the row is made at once (new_session)                              *)
New(s) ==
  /\ win # None /\ s \notin row
  /\ row' = row \cup {s}
  /\ win' = Switched(s, TRUE)
  /\ UNCHANGED <<saved, project, soul, starts, sent, kept>>

Close ==
  /\ win # None /\ win' = None
  /\ UNCHANGED <<saved, row, project, soul, starts, sent, kept>>

(* The project's files and soul.md change at any time: an editor, a run     *)
(* itself, /soul, `nedster soul`.                                           *)
EditProject ==
  /\ project < MaxProject /\ project' = project + 1
  /\ UNCHANGED <<saved, row, soul, win, starts, sent, kept>>

EditSoul ==
  /\ soul < MaxSoul /\ soul' = soul + 1
  /\ UNCHANGED <<saved, row, project, win, starts, sent, kept>>

TalkStep ==
  \/ Turn \/ DieInTurn \/ Close \/ EditProject \/ EditSoul
  \/ \E role \in RoleName : SetRole(role)
  \/ \E s \in Session : DieOpening(s) \/ Resume(s) \/ New(s)

-----------------------------------------------------------------------------
(* A session's requests begin alike, whatever has become of the files and   *)
(* however often it was left and resumed (prompt.py: the prefix is          *)
(* byte-identical across the turns of a session), except for the prompt of  *)
(* the role within them: that changes only to the role the session works    *)
(* under now, and only if it was given that one since its last request, or  *)
(* the process was started with one of its own (set_role, build_system_     *)
(* prompt).                                                                 *)
PrefixStands ==
  [][\A s \in Session : sent[s] # None /\ sent'[s] # sent[s] =>
        /\ sent'[s] = [sent[s] EXCEPT !.role = kept'[s]]
        /\ kept[s] # sent[s].role \/ win.override # None]_identity

(* A session goes on under the role it last had: only /role, or a process   *)
(* started with --role, changes it (S2 in native.py).                       *)
RoleStands ==
  [][\A s \in Session : sent'[s] # None /\ win' # None /\ win'.sid = s /\ kept'[s] # kept[s] /\ kept[s] # None =>
        win.override # None \/ win'.role # win.role]_identity

(* The role shown to the model, the one the engine works by and the one the *)
(* tools are gated by are one, in every conversation the process holds.     *)
OneRole ==
  win # None =>
    /\ win.gate = win.role
    /\ \A s \in Session : win.cache[s] # None => win.cache[s].role = win.role

(* One role in every place, from the first request of a session on.         *)
RolesStand == [](IdentityTypeOK /\ OneRole) /\ RoleStands
=============================================================================
