------------------------------ MODULE Transcript ------------------------------
(***************************************************************************)
(* What a conversation shows: the widgets of the transcript as a turn's    *)
(* events make them, the display history that the engine stores beside     *)
(* them, and the same history rebuilt for /resume or in a new process      *)
(* (nedster_agent/tui.py, widgets/transcript.py, Engine._transcript,       *)
(* SqliteSessionStore.append_transcript).                                  *)
(*                                                                         *)
(* The engine's events are handled in the step that sends them.  A text is *)
(* the sequence of the pieces it came in, a piece is a number of its own,  *)
(* and so is a call; a call's id is the server's, who may use it again in  *)
(* a later message (not in one: ensure_unique_call_ids).                   *)
(***************************************************************************)
EXTENDS Naturals, Sequences, SequencesExt

CONSTANTS
  MaxTurn, MaxStep,  \* bounds: turns; steps of a turn
  MaxText, MaxPieces, \* bounds: pieces of one message; of all texts
  MaxCalls,          \* bound: calls
  MaxSlips,          \* bound: screens cleared, conversations resumed, processes that die
  MaxId,             \* the ids the server gives, by first use: 1..MaxId
  MaxVerify,         \* auto_verify
  ReplayLimit        \* RESUME_REPLAY_LIMIT

ASSUME TranscriptAssumption ==
  {MaxTurn, MaxStep, MaxText, MaxPieces, MaxCalls, MaxSlips, MaxId, MaxVerify, ReplayLimit} \subseteq Nat

VARIABLES
  screen,   \* the window: its widgets and what it keeps about the turn
  turnOf,   \* the engine's turn
  stored,   \* the display history
  idOf,     \* the id of each call
  owned,    \* the session lock is held
  pieces, turns, slips,
  results,  \* what each call has returned
  since,    \* history: the stored entries from here on belong on the screen
  past,      \* history: the calls up to this one were before the conversation was resumed
  cut,      \* history: the screen was cleared in this turn
  again     \* history: a turn on the screen went on after the engine's own verification

conversation == <<stored, idOf, owned>>
history == <<since, past, cut, again>>
transcript == <<screen, turnOf, conversation, results, pieces, turns, slips, history>>

-----------------------------------------------------------------------------
(* The window *)

\* "reply": a text, that may still grow; "row": a call with its result and whose result it is
Reply(text, final) == [kind |-> "reply", text |-> text, final |-> final]
Row(call, result) == [kind |-> "row", call |-> call, result |-> result, of |-> call]
User(text) == [kind |-> "user", text |-> text]
Badge == [kind |-> "badge"]

\* every widget there was, those on the screen, and tool_rows by id
NoWidgets == [widgets |-> <<>>, shown |-> {}, current |-> 0, replies |-> <<>>, rows |-> <<>>,
          badge |-> FALSE, closed |-> TRUE]

\* f with one value put in
Put(f, key, value) == [k \in DOMAIN f \cup {key} |-> IF k = key THEN value ELSE f[k]]

Add(s, widget) ==
  [s EXCEPT !.widgets = Append(@, widget), !.shown = @ \cup {Len(s.widgets) + 1}]

\* _on_model_delta
Delta(s, text) ==
  LET new == Len(s.widgets) + 1
      t == IF s.current # 0 THEN s
           ELSE [Add(s, Reply(<<>>, FALSE)) EXCEPT !.current = new, !.replies = Append(@, new)] IN
  [t EXCEPT !.widgets[t.current].text = @ \o text]

\* _on_tool_started
ToolStarted(s, call) ==
  [Add(s, Row(call, "running")) EXCEPT
     !.current = 0, !.rows = Put(@, idOf[call], Len(s.widgets) + 1)]

RowOf(s, call) == s.rows[idOf[call]]

\* _on_tool_finished
ToolFinished(s, call, result) ==
  IF idOf[call] \in DOMAIN s.rows
  THEN [s EXCEPT !.widgets[RowOf(s, call)].result = result, !.widgets[RowOf(s, call)].of = call]
  ELSE [Add(s, Row(call, result)) EXCEPT !.rows = Put(@, idOf[call], Len(s.widgets) + 1)]

TextOf(s, replies) == FlattenSeq([k \in DOMAIN replies |-> s.widgets[replies[k]].text])

\* mutant: the answer is always a message of its own
Continues_Not(s, answer) == FALSE

\* the answer begins with what the last reply has streamed
Continues(s, answer) ==
  /\ s.replies # <<>>
  /\ TextOf(s, <<Last(s.replies)>>) # <<>>
  /\ IsPrefix(TextOf(s, <<Last(s.replies)>>), answer)

\* _show_answer: it goes on in the last reply, stands there already, or is added
ShowAnswer(s, answer) ==
  LET ended == [s EXCEPT !.widgets = [w \in DOMAIN @ |->
                   IF w \in ToSet(s.replies) THEN [@[w] EXCEPT !.final = TRUE] ELSE @[w]]] IN
  IF Continues(s, answer) THEN [ended EXCEPT !.widgets[Last(s.replies)].text = answer]
  ELSE IF TextOf(s, s.replies) = answer THEN ended
  ELSE Add(ended, Reply(answer, TRUE))

Running(s) == {w \in DOMAIN s.widgets : s.widgets[w].kind = "row" /\ s.widgets[w].result = "running"}
Tracked(s) == {s.rows[id] : id \in DOMAIN s.rows}

Unfinished(s) == Running(s) \cap Tracked(s)

\* _close_turn
CloseTurn(s) ==
  IF s.closed THEN s
  ELSE LET ended == [s EXCEPT !.widgets = [w \in DOMAIN @ |->
                        IF w \in Unfinished(s) THEN [@[w] EXCEPT !.result = "cancelled"] ELSE @[w]]] IN
       [(IF s.badge THEN Add(ended, Badge) ELSE ended) EXCEPT
          !.closed = TRUE, !.badge = FALSE, !.current = 0, !.replies = <<>>]

\* action_clear: unfinished rows are still tracked, the reply that streams goes on unseen
Cleared(s) ==
  [s EXCEPT !.shown = {}, !.rows = [id \in {i \in DOMAIN @ : @[i] \in Running(s)} |-> @[id]]]

\* replay_widgets, of one entry
Replayed(e) ==
  CASE e.role = "tool" -> <<Row(e.call, "historical")>>
    [] e.role # "tool" /\ e.text = <<>> -> <<>>
    [] e.role = "user" /\ e.text # <<>> -> <<User(e.text)>>
    [] e.role = "assistant" /\ e.text # <<>> -> <<Reply(e.text, TRUE)>>

Newest(entries) == SubSeq(entries, (IF Len(entries) > ReplayLimit THEN Len(entries) - ReplayLimit ELSE 0) + 1, Len(entries))

\* _replay_session
Replay(s, entries) ==
  LET told == FlattenSeq([k \in DOMAIN Newest(entries) |-> Replayed(Newest(entries)[k])])
      clear == Cleared(s) IN
  [clear EXCEPT !.widgets = @ \o told, !.shown = (Len(s.widgets) + 1)..(Len(s.widgets) + Len(told))]
-----------------------------------------------------------------------------
(* The engine's turn, as far as it shows *)

Idle == [phase |-> "idle", step |-> 0, text |-> <<>>, prose |-> <<>>,
         todo |-> <<>>, going |-> <<>>, verifying |-> FALSE, verified |-> 0]

TranscriptInit ==
  /\ screen = NoWidgets /\ turnOf = Idle
  /\ stored = <<>> /\ idOf = <<>> /\ owned = TRUE /\ results = <<>>
  /\ pieces = 0 /\ turns = 0 /\ slips = 0
  /\ since = 1 /\ past = 0 /\ cut = FALSE /\ again = FALSE

In(phase) == turnOf.phase = phase
Slips == slips < MaxSlips /\ slips' = slips + 1
Entry(role, text, call) == [role |-> role, text |-> text, call |-> call]
Answers(calls) == [k \in DOMAIN calls |-> Entry("tool", <<>>, calls[k])]
Asking(turn) == [turn EXCEPT !.phase = "model", !.step = @ + 1, !.text = <<>>, !.verifying = FALSE]
Ending(turn) == [turn EXCEPT !.phase = "ending", !.todo = <<>>, !.going = <<>>]

\* _run_turn and run, up to the first request
TurnBegins ==
  /\ In("idle") /\ owned /\ turns < MaxTurn
  /\ turns' = turns + 1 /\ pieces' = pieces + 1
  /\ screen' = [Add(screen, User(<<pieces'>>)) EXCEPT !.closed = FALSE]
  /\ stored' = Append(stored, Entry("user", <<pieces'>>, 0))
  /\ turnOf' = Asking(Idle)
  /\ UNCHANGED <<idOf, owned, results, slips, history>>

\* model.delta: some text, or thinking
Streams(thinks) ==
  /\ In("model") /\ Len(turnOf.text) < MaxText /\ pieces < MaxPieces
  /\ thinks => screen.current = 0
  /\ pieces' = IF thinks THEN pieces ELSE pieces + 1
  /\ LET text == IF thinks THEN <<>> ELSE <<pieces'>> IN
     /\ screen' = Delta(screen, text)
     /\ turnOf' = [turnOf EXCEPT !.text = @ \o text]
  /\ UNCHANGED <<conversation, results, turns, slips, history>>

Called(ids) == [k \in DOMAIN ids |-> Len(idOf) + k]
Spoke(text, ids) == IF text = <<>> /\ ids = <<>> THEN <<>> ELSE <<Entry("assistant", text, 0)>>

\* the message is complete: its calls are next, or are not run because it was cut off
Asks(ids, complete) ==
  /\ In("model") /\ owned /\ ids # <<>>
  /\ idOf' = idOf \o ids
  /\ stored' = stored \o Spoke(turnOf.text, ids) \o (IF complete THEN <<>> ELSE Answers(Called(ids)))
  /\ turnOf' = IF complete THEN [turnOf EXCEPT !.phase = "tools", !.todo = Called(ids)]
               ELSE Ending([turnOf EXCEPT !.prose = turnOf.text])
  /\ UNCHANGED <<screen, owned, results, pieces, turns, slips, history>>

\* a message without calls ends the turn
Says ==
  /\ In("model") /\ owned
  /\ stored' = stored \o Spoke(turnOf.text, <<>>)
  /\ turnOf' = Ending([turnOf EXCEPT !.prose = turnOf.text])
  /\ UNCHANGED <<screen, idOf, owned, results, pieces, turns, slips, history>>

\* _auto_verify, after calls that changed files: the engine's own call, and its own words,
\* which are no delta
Verifies ==
  /\ In("model") /\ owned /\ turnOf.step > 1 /\ turnOf.verified < MaxVerify /\ Len(idOf) < MaxCalls
  /\ idOf' = Append(idOf, MaxId + Len(idOf) + 1)
  /\ stored' = stored \o Spoke(turnOf.text, <<>>) \o <<Entry("assistant", <<0>>, 0)>>
  /\ turnOf' = [turnOf EXCEPT !.phase = "tools", !.prose = turnOf.text, !.todo = Called(<<0>>),
                              !.verifying = TRUE, !.verified = @ + 1]
  /\ UNCHANGED <<screen, owned, results, pieces, turns, slips, history>>

\* _run_calls: one call, or all at once
Starts(n) ==
  /\ In("tools") /\ owned /\ turnOf.going = <<>> /\ n \in {1, Len(turnOf.todo)}
  /\ turnOf' = [turnOf EXCEPT !.going = SubSeq(turnOf.todo, 1, n), !.todo = SubSeq(@, n + 1, Len(@))]
  /\ LET one == ToolStarted(screen, turnOf.todo[1]) IN
     screen' = IF n = 1 THEN one ELSE ToolStarted(one, turnOf.todo[2])
  /\ UNCHANGED <<conversation, results, pieces, turns, slips, history>>

\* those members of a sequence that are in S, in its order (a SelectSeq that proofs can unfold)
Kept(s, S) ==
  LET among[n \in 0..Len(s)] ==
        IF n = 0 THEN <<>> ELSE IF s[n] \in S THEN Append(among[n - 1], s[n]) ELSE among[n - 1]
  IN among[Len(s)]

Awaited == {call \in ToSet(turnOf.going) : call \notin DOMAIN results}

\* tool.finished
Returns(call, result) ==
  /\ In("tools") /\ call \in Awaited
  /\ results' = Put(results, call, result)
  /\ screen' = ToolFinished(screen, call, result)
  /\ UNCHANGED <<turnOf, stored, idOf, owned, pieces, turns, slips, history>>

\* the group is answered: its next, the next request or the end
Answered(asks) ==
  /\ In("tools") /\ owned /\ turnOf.going # <<>> /\ Awaited = {}
  /\ stored' = stored \o Answers(turnOf.going)
  /\ LET failed == results[turnOf.going[1]] = "failed" IN
     /\ asks => /\ turnOf.todo = <<>> /\ turnOf.step < MaxStep
                /\ turnOf.verifying => failed /\ turnOf.verified < MaxVerify
     /\ again' = (again \/ (asks /\ turnOf.verifying))
  /\ turnOf' = IF turnOf.todo # <<>> THEN [turnOf EXCEPT !.going = <<>>]
               ELSE IF asks THEN Asking([turnOf EXCEPT !.going = <<>>]) ELSE Ending(turnOf)
  /\ UNCHANGED <<screen, idOf, owned, results, pieces, turns, slips, since, past, cut>>

\* the tool-call budget: the rest of the calls is answered without having been run
Exhausted ==
  /\ In("tools") /\ owned /\ turnOf.going = <<>>
  /\ stored' = stored \o Answers(turnOf.todo)
  /\ turnOf' = Ending(turnOf)
  /\ UNCHANGED <<screen, idOf, owned, results, pieces, turns, slips, history>>

\* a cancel, the deadline, a broken connection: what was streamed is not kept, what is
\* finished of a group keeps its result
Stops ==
  /\ In("model") \/ (In("tools") /\ Awaited # {})
  /\ LET done == Kept(turnOf.going, DOMAIN results)
         rest == Kept(turnOf.going, Awaited) IN
     stored' = IF owned THEN stored \o Answers(done \o rest \o turnOf.todo) ELSE stored
  /\ turnOf' = Ending(turnOf)
  /\ UNCHANGED <<screen, idOf, owned, results, pieces, turns, slips, history>>

\* _finish, with nothing stored if the lock is lost, and _on_turn_finished
Finishes ==
  /\ In("ending") \/ (~In("idle") /\ ~owned)
  /\ pieces' = pieces + 1
  /\ stored' = IF owned THEN Append(stored, Entry("assistant", <<pieces'>>, 0)) ELSE stored
  /\ screen' = CloseTurn(ShowAnswer([screen EXCEPT !.badge = TRUE], Append(turnOf.prose, pieces')))
  /\ turnOf' = Idle /\ cut' = FALSE
  /\ since' = IF cut THEN Len(stored') + 1 ELSE since
  /\ UNCHANGED <<idOf, owned, results, turns, slips, past, again>>

\* submit raises: there is no answer
Fails ==
  /\ ~In("idle") /\ Slips
  /\ screen' = CloseTurn(screen)
  /\ turnOf' = Idle /\ cut' = FALSE
  /\ since' = IF cut THEN Len(stored) + 1 ELSE since
  /\ UNCHANGED <<conversation, results, pieces, turns, past, again>>

LosesLock ==
  /\ owned /\ Slips /\ owned' = FALSE
  /\ UNCHANGED <<screen, turnOf, stored, idOf, results, pieces, turns, history>>

Clear ==
  /\ Slips
  /\ screen' = Cleared(screen)
  /\ since' = Len(stored) + 1 /\ cut' = ~In("idle")
  /\ UNCHANGED <<turnOf, conversation, results, pieces, turns, past, again>>

\* /resume while idle, or a new process after the old one has ended or died
Resumes(s) ==
  /\ Slips
  /\ screen' = Replay(s, stored)
  /\ turnOf' = Idle /\ owned' = TRUE
  /\ since' = Len(stored) - Len(Newest(stored)) + 1 /\ past' = Len(idOf) /\ cut' = FALSE /\ again' = FALSE
  /\ UNCHANGED <<stored, idOf, results, pieces, turns>>

\* one or two calls
Messages ==
  {ids \in {<<i>> : i \in 1..MaxId} \cup ((1..MaxId) \X (1..MaxId)) :
     /\ IsInjective(ids) /\ Len(idOf \o ids) <= MaxCalls
     /\ \A k \in DOMAIN ids : \A i \in 1..ids[k] - 1 : i \in ToSet(idOf \o SubSeq(ids, 1, k - 1))}

TranscriptNext ==
  \/ TurnBegins \/ \E thinks \in BOOLEAN : Streams(thinks)
  \/ \E ids \in Messages, complete \in BOOLEAN : Asks(ids, complete)
  \/ Says \/ Verifies \/ \E n \in 1..2 : Starts(n)
  \/ \E call \in Awaited, result \in {"ok", "failed"} : Returns(call, result)
  \/ \E asks \in BOOLEAN : Answered(asks)
  \/ Exhausted \/ Stops \/ Finishes \/ Fails \/ LosesLock
  \/ Clear \/ (In("idle") /\ Resumes(screen)) \/ Resumes(NoWidgets)

TranscriptSpec == TranscriptInit /\ [][TranscriptNext]_transcript

-----------------------------------------------------------------------------
(* Properties *)

OnScreen(kinds) ==
  Kept([w \in DOMAIN screen.widgets |-> w], {w \in screen.shown : screen.widgets[w].kind \in kinds})
Spoken(text) == Kept(text, Nat \ {0})
ShownText == Spoken(TextOf(screen, OnScreen({"user", "reply"})))
Due == Spoken(FlattenSeq([k \in 1..Len(stored) - since + 1 |-> stored[since + k - 1].text]))

\* What was said since the screen was last empty is on it, live or replayed, and in the order
\* in which it was said; and it is there once, but for a turn that went on after the engine's
\* own verification, whose answer can begin with an older text.  Not so in a turn in which
\* the screen was cleared.
TextsShown ==
  cut \/ /\ ToSet(Due) \subseteq ToSet(ShownText)
         /\ again \/ \A j, k \in DOMAIN ShownText : j < k => ShownText[j] < ShownText[k]

\* A row has the result of its own call, a replayed one has none, a call has one row, and no
\* row of a turn that is over still runs.
RowsTrue ==
  LET rows == OnScreen({"row"}) IN
  /\ \A k \in DOMAIN rows :
       LET row == screen.widgets[rows[k]] IN
       /\ row.of = row.call
       /\ row.result \in {"ok", "failed"} => row.call > past /\ results[row.call] = row.result
       /\ row.result = "running" => ~screen.closed
       /\ \A j \in DOMAIN rows : screen.widgets[rows[j]].call = row.call => j = k

\* The screen tells what was said and what was run.
ScreenTrue == TextsShown /\ RowsTrue

\* The code does not keep this one: Ctrl+L takes the reply that streams off the screen with the
\* rest, its later pieces go to the widget that is gone, and so does the turn's answer if it
\* goes on from that reply.
ClearOnlyHides == ToSet(Due) \subseteq ToSet(ShownText)
=============================================================================
