------------------------------- MODULE Window -------------------------------
(***************************************************************************)
(* A window of the terminal interface: what is typed, queued and sent, and *)
(* what a cancel, a command or a picker does to a running turn             *)
(* (nedster_agent/tui.py, widgets/composer.py, widgets/session_picker.py). *)
(*                                                                         *)
(* Handlers run to their end on one event loop; workers (run_worker) take  *)
(* their first step in the order they were started.  What a handler leaves *)
(* for later can be late: a Submitted message on its way from the composer *)
(* to the app, a worker's step, the list of models, an open picker.  The   *)
(* engine is a turn that starts, shows a tool and ends.  A composer's text *)
(* is the sequence of the texts it is made of.                             *)
(***************************************************************************)
EXTENDS Naturals, Sequences, SequencesExt

CONSTANTS
  MaxTexts,   \* bound: texts the user types; submissions that wait in the queue
  MaxTurns,   \* bound: turns; commands come before the last one
  MaxScreens, \* bound: screens over the window
  None, Act, Recalled  \* no value; the text of /act; an entry of the history

Text == 1..MaxTexts

ASSUME WindowAssumption ==
  /\ {MaxTexts, MaxTurns, MaxScreens} \subseteq Nat
  /\ {None, Act, Recalled} \cap Nat = {}
  /\ None \notin Seq(Text \cup {Act, Recalled})

VARIABLES
  session,   \* the runtime is there
  draft,     \* the composer's text
  search,    \* None, or the draft the reverse search began with
  posted,    \* None, or the value of a Submitted that the app has not handled
  screens,   \* the pickers over the window; which they are, and whether read-only
  soul,      \* _pending_soul
  busy, cancelling, queue, turn,
  workers,   \* workers before their first step
  listing,   \* what the list of models is awaited for: "pick", "switch" or None
  engine,    \* the turn in Engine.run, or 0
  stopping,  \* its task is cancelled
  row,       \* a tool row shows as running
  typed,     \* number of texts typed
  sent,      \* history: the texts the engine got
  refused,   \* history: a turn was refused by _activate_session
  meddled,   \* history: what was changed under the running turn
  stray      \* history: a cancel reached another turn than it was meant for

keys == <<draft, search, posted, screens, soul, typed>>
turns == <<busy, cancelling, queue, turn, workers>>
run == <<engine, stopping, row, sent>>
history == <<refused, meddled, stray>>
vars == <<session, keys, turns, listing, run, history>>

Value == Seq(Text \cup {Act, Recalled})

TypeOK ==
  /\ session \in BOOLEAN /\ soul \in BOOLEAN /\ busy \in BOOLEAN /\ cancelling \in BOOLEAN
  /\ draft \in Value /\ search \in Value \cup {None} /\ posted \in Value \cup {None}
  /\ screens \in Seq([screen : {"sessions", "models"}, readonly : BOOLEAN])
  /\ queue \in Seq(Value)
  /\ turn \in 0..MaxTurns /\ engine \in 0..turn /\ typed \in 0..MaxTexts
  /\ workers \in Seq([task : {"turn", "cancel", "undo"}, turn : 0..MaxTurns, value : Value])
  /\ listing \in {None, "pick", "switch"}
  /\ sent \subseteq Text \cup {Act}
  /\ row \in BOOLEAN /\ stopping \in BOOLEAN /\ refused \in BOOLEAN /\ stray \in BOOLEAN
  /\ meddled \subseteq {"model", "conversation", "role", "undo"}

Init ==
  /\ session = FALSE
  /\ draft = <<>> /\ search = None /\ posted = None /\ screens = <<>> /\ soul = FALSE /\ typed = 0
  /\ busy = FALSE /\ cancelling = FALSE /\ queue = <<>> /\ turn = 0 /\ workers = <<>>
  /\ listing = None
  /\ engine = 0 /\ stopping = FALSE /\ row = FALSE /\ sent = {}
  /\ refused = FALSE /\ meddled = {} /\ stray = FALSE

-----------------------------------------------------------------------------
(* Turns *)

\* mutant: a turn goes before the cancels that wait
Started_First(ws, w) ==
  LET cancels == SelectSeq(ws, LAMBDA v : v.task = "cancel" /\ w.task = "turn") IN
  SelectSeq(ws, LAMBDA v : v \notin ToSet(cancels)) \o <<w>> \o cancels

Started(ws, w) == Append(ws, w)

Worker(task, n, value) == [task |-> task, turn |-> n, value |-> value]

\* mutant: the text of a refused turn is dropped
PutBack_Not(value, text) == text

PutBack(value, text) == value \o text

\* _start_turn with the composer showing text; the lock decides (see SessionLock)
StartTurn(value, text) ==
  \/ /\ turn < MaxTurns
     /\ busy' = TRUE /\ turn' = turn + 1
     /\ workers' = Started(workers, Worker("turn", turn + 1, value))
     /\ draft' = text
     /\ UNCHANGED refused
  \/ /\ busy' = FALSE
     /\ draft' = PutBack(value, text)
     /\ refused' = TRUE
     /\ UNCHANGED <<turn, workers>>

Queued(q, value) == Append(q, value)

Taken == busy

\* submit_text, the composer showing text
SubmitText(value, text) ==
  \/ /\ Taken
     /\ queue' = Queued(queue, value)
     /\ draft' = text
     /\ UNCHANGED <<busy, turn, workers, refused>>
  \/ /\ ~Taken /\ ~session
     /\ draft' = value
     /\ UNCHANGED <<busy, queue, turn, workers, refused>>
  \/ /\ ~Taken /\ session
     /\ StartTurn(value, text)
     /\ UNCHANGED queue

FirstWorker(task) == workers # <<>> /\ workers[1].task = task

\* _run_turn up to the engine
TurnBegins ==
  /\ FirstWorker("turn")
  /\ workers' = Tail(workers)
  /\ engine' = workers[1].turn
  /\ sent' = sent \cup ToSet(workers[1].value)
  /\ UNCHANGED <<session, keys, busy, cancelling, queue, turn, listing, stopping, row, history>>

ToolStarts ==
  /\ engine # 0 /\ ~stopping /\ ~row
  /\ row' = TRUE
  /\ UNCHANGED <<session, keys, turns, listing, engine, stopping, sent, history>>

ToolFinishes ==
  /\ engine # 0 /\ row
  /\ row' = FALSE
  /\ UNCHANGED <<session, keys, turns, listing, engine, stopping, sent, history>>

\* _close_turn
Closed == FALSE

Confirmed == FALSE

\* mutant: what was queued during a cancel waits for the turn after
Dequeues_Uncancelled == queue # <<>> /\ session /\ ~cancelling

Dequeues == queue # <<>> /\ session

\* the engine returns or raises: turn.finished, the rest of _run_turn, and _dequeue
TurnEnds ==
  /\ engine # 0
  /\ engine' = 0 /\ stopping' = FALSE
  /\ row' = Closed
  /\ cancelling' = Confirmed /\ meddled' = {}
  /\ \/ /\ ~Dequeues
        /\ busy' = FALSE
        /\ UNCHANGED <<queue, turn, workers, draft, refused>>
     \/ /\ Dequeues
        /\ queue' = Tail(queue)
        /\ StartTurn(queue[1], draft)
  /\ UNCHANGED <<session, search, posted, screens, soul, typed, listing, sent, stray>>

-----------------------------------------------------------------------------
(* Cancelling *)

Returned(q, text) == FlattenSeq(q) \o text

\* cancel_turn; also Ctrl+C, and a heartbeat that finds the lock lost (_heartbeat_lock)
CancelTurn ==
  /\ busy /\ ~cancelling
  /\ cancelling' = TRUE
  /\ draft' = Returned(queue, draft)
  /\ queue' = <<>>
  /\ workers' = Started(workers, Worker("cancel", turn, <<>>))
  /\ UNCHANGED <<session, search, posted, screens, soul, typed, busy, turn, listing, run, history>>

\* NativeSession.cancel, Engine.cancel
CancelRuns ==
  /\ FirstWorker("cancel")
  /\ workers' = Tail(workers)
  /\ stopping' = (engine # 0)
  /\ stray' = (stray \/ engine \notin {0, workers[1].turn})
  /\ UNCHANGED <<session, keys, busy, cancelling, queue, turn, listing, engine, row, sent, refused, meddled>>

\* action_escape: a picker or a search goes first
Escape ==
  \/ /\ screens # <<>>
     /\ screens' = Tail(screens)
     /\ UNCHANGED <<session, draft, search, posted, soul, typed, turns, listing, run, history>>
  \/ /\ screens = <<>> /\ search # None
     /\ draft' = search
     /\ search' = None
     /\ UNCHANGED <<session, posted, screens, soul, typed, turns, listing, run, history>>
  \/ /\ screens = <<>> /\ search = None
     /\ CancelTurn

-----------------------------------------------------------------------------
(* The keyboard *)

Typing == screens = <<>> /\ search = None

Type ==
  /\ Typing /\ typed < MaxTexts
  /\ typed' = typed + 1
  /\ draft' = Append(draft, typed + 1)
  /\ UNCHANGED <<session, search, posted, screens, soul, turns, listing, run, history>>

Enter ==
  /\ Typing /\ posted = None /\ draft # <<>> /\ Len(queue) < MaxTexts
  /\ posted' = draft
  /\ UNCHANGED <<session, draft, search, screens, soul, typed, turns, listing, run, history>>

\* on_submit with a text: the composer is cleared, whatever it shows by now
OnSubmit ==
  /\ posted # None
  /\ posted' = None
  /\ \/ /\ soul
        /\ draft' = <<>> /\ soul' = FALSE
        /\ UNCHANGED <<turns, refused>>
     \/ /\ ~soul
        /\ SubmitText(posted, <<>>)
        /\ UNCHANGED <<soul, cancelling>>
  /\ UNCHANGED <<session, search, screens, typed, listing, run, meddled, stray>>

\* cycle_search; an older match is like the first.  Bounds: only while something
\* else may touch the composer, and not with a Submitted on its way
Search ==
  /\ Typing /\ busy /\ posted = None
  /\ search' = draft
  /\ draft' = <<Recalled>>
  /\ UNCHANGED <<session, posted, screens, soul, typed, turns, listing, run, history>>

\* _end_search by Enter: the composer shows the match, whose fate is not followed
AcceptMatch ==
  /\ screens = <<>> /\ search # None
  /\ draft' = <<>>
  /\ search' = None
  /\ UNCHANGED <<session, posted, screens, soul, typed, turns, listing, run, history>>

-----------------------------------------------------------------------------
(* Commands.  They are typed into an empty composer and handled at once. *)

\* IDLE_ONLY; /act and Shift+Tab look for themselves
IdleOnly == {"/model", "/undo", "/sessions", "/soul", "/role", "/act"}

Waits(command) == busy /\ command \in IdleOnly

Command(command) ==
  /\ Typing /\ draft = <<>> /\ posted = None /\ ~soul /\ turn < MaxTurns
  /\ ~Waits(command)
  /\ session

Under(what) == meddled \cup {w \in {what} : engine # 0}

\* _set_role; the engine may refuse
SetRole ==
  /\ Command("/role")
  /\ meddled' \in {meddled, Under("role")}
  /\ UNCHANGED <<session, keys, turns, listing, run, refused, stray>>

\* _cmd_act: the text is put into the composer and sent as well, whether or not the role is switched;
\* bound: sent once
CmdAct ==
  /\ Command("/act") /\ Act \notin sent
  /\ SubmitText(<<Act>>, <<Act>>)
  /\ UNCHANGED <<session, search, posted, screens, soul, typed, cancelling, listing, run, meddled, stray>>

CmdSoul ==
  /\ Command("/soul")
  /\ soul' = TRUE
  /\ UNCHANGED <<session, draft, search, posted, screens, typed, turns, listing, run, history>>

\* bound: one at a time
CmdUndo ==
  /\ Command("/undo") /\ \A w \in ToSet(workers) : w.task # "undo"
  /\ workers' = Started(workers, Worker("undo", turn, <<>>))
  /\ UNCHANGED <<session, keys, busy, cancelling, queue, turn, listing, run, history>>

UndoRuns ==
  /\ FirstWorker("undo")
  /\ workers' = Tail(workers)
  /\ meddled' = Under("undo")
  /\ UNCHANGED <<session, keys, busy, cancelling, queue, turn, listing, run, refused, stray>>

\* /model with a name, or F4: the worker awaits the list
CmdModel ==
  /\ Command("/model") /\ listing = None
  /\ listing' \in {"pick", "switch"}
  /\ UNCHANGED <<session, keys, turns, run, history>>

Push(screen, readonly) == screens' = <<[screen |-> screen, readonly |-> readonly]>> \o screens

\* the list is there, or the server is not
Listed ==
  /\ listing # None
  /\ listing' = None
  /\ \/ UNCHANGED <<screens, meddled>>
     \/ listing = "pick" /\ Len(screens) < MaxScreens /\ Push("models", FALSE) /\ UNCHANGED meddled
     \/ listing = "switch" /\ meddled' = Under("model") /\ UNCHANGED screens
  /\ UNCHANGED <<session, draft, search, posted, soul, typed, turns, run, refused, stray>>

PickModel ==
  /\ screens # <<>> /\ screens[1].screen = "models"
  /\ screens' = Tail(screens)
  /\ meddled' = Under("model")
  /\ UNCHANGED <<session, draft, search, posted, soul, typed, turns, listing, run, refused, stray>>

\* /sessions, or Ctrl+S at any time; read-only if a turn runs
OpenPicker ==
  /\ session /\ Len(screens) < MaxScreens /\ turn < MaxTurns
  /\ \A i \in DOMAIN screens : screens[i].screen # "sessions"
  /\ Push("sessions", busy)
  /\ UNCHANGED <<session, draft, search, posted, soul, typed, turns, listing, run, history>>

\* _picker_chosen: the conversation is switched, or stays if it cannot be
PickSession ==
  /\ screens # <<>> /\ screens[1].screen = "sessions" /\ ~screens[1].readonly
  /\ screens' = Tail(screens)
  /\ meddled' \in {meddled, Under("conversation")}
  /\ UNCHANGED <<session, draft, search, posted, soul, typed, turns, listing, run, refused, stray>>

Initialize ==
  /\ ~session
  /\ session' = TRUE
  /\ UNCHANGED <<keys, turns, listing, run, history>>

Keyboard == Type \/ Enter \/ Search \/ AcceptMatch \/ Escape \/ PickModel \/ PickSession \/ OpenPicker

Commands == SetRole \/ CmdAct \/ CmdSoul \/ CmdUndo \/ CmdModel

Workers == TurnBegins \/ CancelRuns \/ UndoRuns

Engine == ToolStarts \/ ToolFinishes \/ TurnEnds

Next == Keyboard \/ Commands \/ CancelTurn \/ OnSubmit \/ Listed \/ Workers \/ Engine \/ Initialize

Spec == Init /\ [][Next]_vars

\* messages and workers get their turn on the loop; a turn ends (EngineRun, RunEnds)
FairSpec == Spec /\ WF_vars(OnSubmit) /\ WF_vars(Workers) /\ WF_vars(TurnEnds)

-----------------------------------------------------------------------------
(* Properties *)

Accepted == UNION {ToSet(v) : v \in ToSet(queue) \cup {w.value : w \in ToSet(workers)}}

\* A text that was queued or is about to be sent is sent, stays so or is shown in the composer;
\* no cancel, refused turn or end of a turn drops it.
AcceptedKept == [][Accepted \subseteq Accepted' \cup sent' \cup ToSet(draft')]_vars

\* The engine gets the texts in the order they were typed, through queue, cancels and returns to the
\* composer, as long as no turn was refused.
InOrder == [][refused \/ \A t \in Text \cap (sent' \ sent) : \A u \in Text \cap sent : u < t]_vars

\* What was queued gets to the engine, in order, or back into the composer; what becomes of it there,
\* when a history search is closed over it (composer.py), is not part of it.
TextsKept == AcceptedKept /\ InOrder

\* While a turn runs its role stays and nothing is undone under it.
RoleAndFilesStand == meddled \cap {"role", "undo"} = {}

\* A cancel stops the turn it was meant for, or none.
CancelHits == ~stray

\* No tool row of a turn that is over shows as running.
RowsSettle == row => engine # 0

\* A turn is running, or about to, exactly while the window says so: never two, and none unseen.
OneTurn ==
  LET begun == {w \in ToSet(workers) : w.task = "turn"} IN
  /\ busy <=> engine # 0 \/ begun # {}
  /\ \A w \in begun : engine = 0 /\ w.turn = turn

\* One turn at a time, under one role, which a cancel of another turn does not reach.
TurnsStand == TypeOK /\ RoleAndFilesStand /\ CancelHits /\ RowsSettle /\ OneTurn

\* "cancelling" is over when the turn is.
CancelConfirmed == cancelling ~> ~cancelling

\* What is queued is sent or given back, unless a turn was refused: then the rest of the queue
\* waits for another turn's end.
QueueDrains == queue # <<>> ~> queue = <<>> \/ refused

\* The window comes to rest: no cancel and no queued text hangs.
Settles == CancelConfirmed /\ QueueDrains

\* Idle only (docs/USAGE.md): /model waits for the running turn.  The code does not
\* keep this one (the list of models is awaited after the look), and no run checks it.
ModelStands == "model" \notin meddled
=============================================================================
