------------------------------ MODULE Transport ------------------------------
(***************************************************************************)
(* One turn of a chat model as a transport reads it from a server's stream *)
(* (ironclad/transport/_common.py, ollama.py, openai_compat.py).           *)
(*                                                                         *)
(* The server writes lines; the network delivers them in chunks that start *)
(* and end anywhere, and may stop anywhere.  The transport puts lines      *)
(* together again, collects text and fragments of tool calls from them and *)
(* hands the calls on when the server said that its turn is finished.      *)
(* Here the server has written before the first chunk is read: a reader    *)
(* cannot tell.  A cancelled turn just stops anywhere.                     *)
(*                                                                         *)
(* A stream is a sequence of cells: a newline, or a part of a line.  The   *)
(* arguments of a call are text in two fragments, valid JSON when both are *)
(* there, or a mapping.                                                    *)
(***************************************************************************)
EXTENDS Naturals, Sequences, FiniteSets, SequencesExt

CONSTANTS
  Dialects,   \* of {"ollama", "openai"}: the transports
  MaxCalls,   \* bound: calls of a turn that are told of one by one
  AtOnce,     \* bound: calls of a turn that are told of at once
  MaxLines,   \* bound: lines of the stream
  MaxLine,    \* max_line_bytes, in cells
  MaxTotal,   \* max_stream_bytes, in cells
  None, Mapping, Newline

Calls == 1..MaxCalls + AtOnce

ASSUME TransportAssumption ==
  /\ Dialects \subseteq {"ollama", "openai"}
  /\ {MaxCalls, AtOnce, MaxLines, MaxLine, MaxTotal} \subseteq Nat
  /\ None \notin Nat \cup {<<"a">>, <<"a", 1>>}
  /\ Mapping \notin Seq([call : Nat, n : Nat])
  /\ Newline \notin [line : Nat, part : Nat]

VARIABLES
  dialect,
  lines,    \* the lines the server wrote
  meant,    \* the calls it told of: call -> what it is to be
  wire,     \* cells on their way
  sent,     \* the server has stopped writing
  buffer,   \* cells the transport holds
  total,    \* number of cells read
  handled,  \* number of lines handled
  parts,    \* partials, builders: key -> call as far as it is known
  text,     \* content_parts: the lines that brought them
  finished, \* final, finish_reason
  outcome,  \* "none", "error" or "delivered"
  turn      \* what was delivered: the calls and the text

server == <<lines, meant>>
reader == <<buffer, total, handled, parts, text, finished>>
streamVars == <<dialect, server, wire, sent, reader, outcome, turn>>

\* An id is the sequence of what it is composed of
Ids == {<<"a">>, <<"a", 1>>}

Fragments(c) == <<[call |-> c, n |-> 1], [call |-> c, n |-> 2]>>

Entry(key, id, name, args) == [key |-> key, id |-> id, name |-> name, args |-> args]

Line(kind, size, entries) == [kind |-> kind, size |-> size, entries |-> entries]

Cells(i, size) == [k \in 1..size |-> [line |-> i, part |-> k]]

Cell == {Newline} \cup [line : DOMAIN lines, part : 1..2]

StreamTypeOK ==
  /\ dialect \in Dialects
  /\ \A i \in DOMAIN lines : lines[i].kind \in {"text", "calls", "finish", "DONE", "bad", "other"}
  /\ DOMAIN meant \subseteq Calls /\ DOMAIN parts \subseteq Calls
  /\ wire \in Seq(Cell)
  /\ buffer \in Seq(Cell)
  /\ sent \in BOOLEAN /\ finished \in BOOLEAN
  /\ total \in 0..MaxTotal /\ handled \in 0..Len(lines)
  /\ text \in Seq(DOMAIN lines)
  /\ \A k \in DOMAIN parts : parts[k].id \in Ids \cup {None} /\ parts[k].name \in Calls \cup {None}

StreamInit ==
  /\ dialect \in Dialects
  /\ lines = <<>> /\ meant = <<>>
  /\ wire = <<>> /\ sent = FALSE
  /\ buffer = <<>> /\ total = 0 /\ handled = 0
  /\ parts = <<>> /\ text = <<>> /\ finished = FALSE
  /\ outcome = "none" /\ turn = None

-----------------------------------------------------------------------------
(* The server *)

Wrote(kind) == \E i \in DOMAIN lines : lines[i].kind = kind

Write(kind, entries) ==
  /\ ~sent /\ outcome = "none"
  /\ Len(lines) < MaxLines /\ ~Wrote("bad")
  /\ LET size == IF kind = "calls" THEN 2 ELSE 1 IN
       /\ lines' = Append(lines, Line(kind, size, entries))
       /\ wire' = wire \o Append(Cells(Len(lines) + 1, size), Newline)
  /\ UNCHANGED <<dialect, sent, reader, outcome, turn>>

\* The line that ends the turn, and what may follow it
Finishes ==
  /\ UNCHANGED meant
  /\ \/ ~Wrote("finish") /\ Write("finish", <<>>)
     \/ dialect = "openai" /\ Wrote("finish") /\ ~Wrote("DONE") /\ \E kind \in {"other", "DONE"} : ~Wrote(kind) /\ Write(kind, <<>>)

\* Text; bad: a line that is no JSON, or Ollama's error; other: a blank line, a comment, a chunk with
\* nothing of this, such as OpenAI's usage or error
WritesOther ==
  /\ ~Wrote("finish") /\ UNCHANGED meant
  /\ \E kind \in {"text", "bad", "other"} : ~Wrote(kind) /\ Write(kind, <<>>)

\* Indices are given in any order; Ollama's calls have none
NextCall(c) == c \notin DOMAIN meant /\ (dialect = "openai" \/ Cardinality(DOMAIN meant) = c - 1)

Meant(id, args) == [id |-> id, args |-> args]

\* A call begins: its name, its id or not, and some of its arguments
BeginsCall ==
  /\ ~Wrote("finish")
  /\ \E c \in 1..MaxCalls, id \in {<<"a">>, None} :
     \E args \in {<<>>, SubSeq(Fragments(c), 1, 1), Mapping} :
       /\ NextCall(c)
       /\ args = Mapping => dialect = "ollama"
       /\ args = <<>> => c = MaxCalls  \* bound
       /\ meant' = [k \in DOMAIN meant \cup {c} |-> IF k = c THEN Meant(id, args) ELSE meant[k]]
       /\ Write("calls", <<Entry(c, id, c, args)>>)

\* The arguments of a call go on; Ollama's of the last one
ContinuesCall ==
  /\ ~Wrote("finish")
  /\ \E c \in DOMAIN meant :
       /\ dialect = "ollama" => c = Cardinality(DOMAIN meant)
       /\ meant[c].args # Mapping /\ Len(meant[c].args) < 2
       /\ LET next == <<Fragments(c)[Len(meant[c].args) + 1]>> IN
            /\ meant' = [meant EXCEPT ![c].args = @ \o next]
            /\ \E id \in {None, meant[c].id} : Write("calls", <<Entry(c, id, None, next)>>)

\* A server that gives no indices tells all calls of a turn at once
WritesCalls ==
  /\ ~Wrote("finish") /\ meant = <<>>
  /\ \E ids \in [1..AtOnce -> Ids \cup {None}] :
       /\ meant' = [c \in 1..AtOnce |-> Meant(ids[c], Fragments(c))]
       /\ Write("calls", [c \in 1..AtOnce |-> Entry(None, ids[c], c, Fragments(c))])

Server == Finishes \/ WritesOther \/ BeginsCall \/ ContinuesCall \/ WritesCalls

\* The stream is sent, or a part of it: how it ends (properly, broken, silent) shows when it was read
Sends ==
  /\ ~sent /\ outcome = "none"
  /\ sent' = TRUE
  /\ \E n \in 0..Len(wire) : wire' = SubSeq(wire, 1, n)
  /\ UNCHANGED <<dialect, server, reader, outcome, turn>>

-----------------------------------------------------------------------------
(* Lines *)

HasLine == \E i \in DOMAIN buffer : buffer[i] = Newline

LineEnd == CHOOSE i \in DOMAIN buffer : buffer[i] = Newline /\ \A j \in 1..i - 1 : buffer[j] # Newline

Fails == outcome' = "error" /\ UNCHANGED turn

GoesOn == UNCHANGED <<outcome, turn>>

TooMuch(n) == total + n > MaxTotal

\* iter_stream_lines: a chunk
ReadChunk ==
  /\ outcome = "none" /\ sent /\ ~HasLine /\ Len(buffer) <= MaxLine
  /\ \E n \in 1..Len(wire) :
       \/ /\ TooMuch(n)
          /\ Fails
          /\ UNCHANGED <<wire, buffer, total>>
       \/ /\ ~TooMuch(n)
          /\ wire' = SubSeq(wire, n + 1, Len(wire))
          /\ buffer' = buffer \o SubSeq(wire, 1, n)
          /\ total' = total + n
          /\ GoesOn
  /\ UNCHANGED <<dialect, server, sent, handled, parts, text, finished>>

\* mutant: such a line is waited out
LineTooLong_Waits == outcome = "none" /\ ~HasLine /\ Len(buffer) > MaxLine /\ UNCHANGED streamVars

LineTooLong ==
  /\ outcome = "none" /\ ~HasLine /\ Len(buffer) > MaxLine
  /\ Fails
  /\ UNCHANGED <<dialect, server, wire, sent, reader>>

-----------------------------------------------------------------------------
(* Calls *)

Known == Cardinality(DOMAIN parts)

New == Entry(None, None, None, <<>>)

\* _accumulate_tool_calls: which partial an entry belongs to
PartialOf(entry) ==
  IF entry.name # None \/ Known = 0 THEN Known + 1 ELSE Known

\* _accumulate: index or position
BuilderOf(entry, place) == IF entry.key # None THEN entry.key ELSE place

KeyOf(entry, place) == IF dialect = "ollama" THEN PartialOf(entry) ELSE BuilderOf(entry, place)

\* Ollama's first id counts, OpenAI's last
IdOf(old, entry) ==
  IF entry.id = None \/ (dialect = "ollama" /\ old.id # None) THEN old.id ELSE entry.id

ArgsOf(old, entry) ==
  IF Mapping \in {entry.args, old.args} THEN Mapping ELSE old.args \o entry.args

Extended(old, entry) ==
  [old EXCEPT !.id = IdOf(old, entry), !.name = IF entry.name # None THEN entry.name ELSE @,
              !.args = ArgsOf(old, entry)]

Put(key, part) == [k \in DOMAIN parts \cup {key} |-> IF k = key THEN part ELSE parts[k]]

\* a line has one entry, or two of which neither is known yet
Accumulated(entries) ==
  IF Len(entries) = 1
  THEN LET key == KeyOf(entries[1], 1) IN
       Put(key, Extended(IF key \in DOMAIN parts THEN parts[key] ELSE New, entries[1]))
  ELSE [k \in DOMAIN entries |-> Extended(New, entries[k])]

-----------------------------------------------------------------------------
(* chat: the lines of a turn *)

Whole(cells) == Len(cells) = lines[cells[1].line].size

\* The rest of a line that was cut: no JSON; or less than "data:", which is skipped
CutLine ==
  /\ \/ Fails
     \/ dialect = "openai" /\ GoesOn
  /\ UNCHANGED <<parts, text, finished>>

ChunkLine(i) ==
  LET line == lines[i] IN
  \/ /\ line.kind = "text"
     /\ text' = Append(text, i)
     /\ UNCHANGED <<parts, finished>> /\ GoesOn
  \/ /\ line.kind = "calls"
     /\ parts' = Accumulated(line.entries)
     /\ UNCHANGED <<text, finished>> /\ GoesOn
  \/ /\ line.kind = "finish"
     /\ finished' = TRUE
     /\ UNCHANGED <<parts, text>> /\ GoesOn
  \/ /\ line.kind = "bad"
     /\ Fails
     /\ UNCHANGED <<parts, text, finished>>
  \/ /\ line.kind = "other"
     /\ UNCHANGED <<parts, text, finished>> /\ GoesOn

\* ensure_unique_call_ids; a missing id is made up
Unused(id, seen) ==
  IF id \notin seen THEN id
  ELSE Append(id, CHOOSE n \in Calls : Append(id, n) \notin seen /\ \A m \in 1..n - 1 : Append(id, m) \in seen)

UniqueIds(ids) ==
  LET unique[k \in 0..Len(ids)] ==
        IF k = 0 THEN <<>>
        ELSE Append(unique[k - 1],
                    Unused(IF ids[k] = None THEN <<"new", k>> ELSE ids[k], ToSet(unique[k - 1])))
  IN unique[Len(ids)]

\* _parse_arguments: what a call's arguments are handed on as
Parsed(args) ==
  [args |-> args, valid |-> args \in {<<>>, Mapping} \cup {Fragments(c) : c \in Calls}]

\* the n-th key is the one that n keys go up to
InOrder(calls) ==
  [n \in 1..Cardinality(DOMAIN calls) |->
     CHOOSE k \in DOMAIN calls : Cardinality({j \in DOMAIN calls : j <= k}) = n]

\* _finalize_calls, _finalize
Finalized ==
  LET keys == InOrder(parts)
      ids == UniqueIds([n \in DOMAIN keys |-> parts[keys[n]].id]) IN
  [n \in DOMAIN keys |-> [id |-> ids[n], name |-> parts[keys[n]].name, args |-> Parsed(parts[keys[n]].args)]]

\* mutant: a stream that ends is a turn that ends
Complete_Always == TRUE

Complete == finished

\* ToolCallsReady and TurnFinished, or the error of a stream that was cut
EndOfTurn ==
  \/ ~Complete /\ Fails
  \/ Complete /\ outcome' = "delivered" /\ turn' = [calls |-> Finalized, text |-> text]

Handle(cells) ==
  LET i == cells[1].line IN
  /\ handled' = handled + 1
  /\ \/ ~Whole(cells) /\ CutLine
     \/ Whole(cells) /\ lines[i].kind # "DONE" /\ ChunkLine(i)
     \/ Whole(cells) /\ lines[i].kind = "DONE" /\ EndOfTurn /\ UNCHANGED <<parts, text, finished>>

Rest == SubSeq(buffer, LineEnd + 1, Len(buffer))

HandleLine ==
  /\ outcome = "none" /\ HasLine
  /\ buffer' = Rest
  /\ Handle(SubSeq(buffer, 1, LineEnd - 1))
  /\ UNCHANGED <<dialect, server, wire, sent, total>>

\* the last line need not end with a newline
LastLine ==
  /\ outcome = "none" /\ ~HasLine /\ buffer # <<>> /\ Len(buffer) <= MaxLine
  /\ sent /\ wire = <<>>
  /\ buffer' = <<>>
  /\ Handle(buffer)
  /\ UNCHANGED <<dialect, server, wire, sent, total>>

StreamEnds ==
  /\ outcome = "none" /\ buffer = <<>> /\ sent /\ wire = <<>>
  /\ EndOfTurn
  /\ UNCHANGED <<dialect, server, wire, sent, reader>>

\* httpx: the connection broke, or nothing came for `timeout` seconds
RequestFails ==
  /\ outcome = "none" /\ ~HasLine /\ Len(buffer) <= MaxLine /\ sent /\ wire = <<>>
  /\ Fails
  /\ UNCHANGED <<dialect, server, wire, sent, reader>>

Client == ReadChunk \/ LineTooLong \/ HandleLine \/ LastLine \/ StreamEnds \/ RequestFails

Done == outcome # "none" /\ UNCHANGED streamVars

StreamNext == Server \/ Sends \/ Client \/ Done

StreamSpec == StreamInit /\ [][StreamNext]_streamVars

\* what arrives is read; if nothing does, httpx's timeout ends the turn.  Sends: that nothing
\* arrives is one of its outcomes.
FairStreamSpec == StreamSpec /\ WF_streamVars(Sends) /\ WF_streamVars(Client)

-----------------------------------------------------------------------------
(* Properties *)

Delivered == outcome = "delivered"

\* A turn that is handed on is the server's turn, whole, however its stream was cut into chunks: it was
\* finished, every call has its name and its own arguments, in order, and no text is missing or doubled.
TurnWhole ==
  Delivered =>
    LET keys == InOrder(meant) IN
    /\ Wrote("finish")
    /\ [n \in DOMAIN turn.calls |-> [name |-> turn.calls[n].name, args |-> turn.calls[n].args]]
       = [n \in DOMAIN keys |-> [name |-> keys[n], args |-> Parsed(meant[keys[n]].args)]]
    /\ ToSet(turn.text) = {i \in DOMAIN lines : lines[i].kind = "text"}
    /\ IsInjective(turn.text)

\* The ids of a turn's calls differ, and stay the server's if those differ.
IdsUnique ==
  Delivered =>
    LET keys == InOrder(meant)
        given == [n \in DOMAIN keys |-> meant[keys[n]].id] IN
    /\ \A m, n \in DOMAIN turn.calls : turn.calls[m].id = turn.calls[n].id => m = n
    /\ IsInjective(given) => \A n \in DOMAIN given : given[n] \in {None, turn.calls[n].id}

\* What the transport holds starts where the last line it handled ended and goes as far as it has read:
\* no part of a line is skipped, handled twice or joined to another line.
LinesKept ==
  LET written(n) == FlattenSeq([i \in 1..n |-> Append(Cells(i, lines[i].size), Newline)]) IN
  /\ buffer = SubSeq(written(Len(lines)), Len(written(handled)) + 1, total)
  /\ wire = SubSeq(written(Len(lines)), total + 1, total + Len(wire))

\* A turn comes out as the server meant it, or not at all.
TurnSound == StreamTypeOK /\ TurnWhole /\ IdsUnique /\ LinesKept

\* Every turn ends: delivered or with an error.
TurnSettles == <>(outcome # "none")
=============================================================================
