------------------------------ MODULE Compaction ------------------------------
(***************************************************************************)
(* A conversation that outgrows the model's window: ContextManager and     *)
(* OutputVault (ironclad/engine/context.py), Engine._maybe_compact         *)
(* (loop.py), and the outputs table with its pruning (sqlite_store.py).    *)
(*                                                                         *)
(* Sizes are left open: whether masking is enough, and after how many      *)
(* dropped groups the prompt fits, is any choice.  A call and its result   *)
(* are one entry, one call to an assistant message, and call ids are all   *)
(* different; the caps on the summary's lists are left out.                *)
(***************************************************************************)
EXTENDS Naturals, Sequences, FiniteSets

CONSTANTS
  Keep,      \* how many of the latest outputs each round of masking spares
  Kind,      \* calls to consider: size of the output, and what a validation says
  MaxCalls, MaxUsers, MaxAnswers, MaxCrash  \* bounds

ASSUME CompactionAssumption ==
  /\ Keep \in SUBSET (Nat \ {0}) /\ 1 \in Keep
  /\ Kind \subseteq {"short", "long", "huge"} \X {"none", "passes", "fails"}
  /\ {MaxCalls, MaxUsers, MaxAnswers, MaxCrash} \subseteq Nat

Call == 1..MaxCalls

VARIABLES
  history,  \* session.messages[2:]
  summary,  \* context.summary
  failing,  \* call of the latest validation if it failed, else 0 (_failing_validation)
  pc,       \* where _maybe_compact is
  keep,     \* outputs spared by the masking in progress
  handles,  \* stored by this compaction
  stored,   \* messages table
  saved,    \* state table: COMPACTION_STATE
  outputs,  \* outputs table: the call of each handle that has a row
  parts,    \* handles of rows whose text is a cut output's, not the whole one
  old,      \* handles of rows older than any prune's cutoff
  calls, answers, crashes,  \* counts
  torn,     \* history: a crash left stored and saved apart
  slipped,  \* history: calls whose stub was dropped, its handle in no list
  halved    \* history: calls whose cut result was masked or dropped

memory == <<history, summary, failing, pc, keep, handles>>
disk == <<stored, saved, outputs, parts, old>>
counts == <<calls, answers, crashes>>
vars == <<memory, disk, counts, torn, slipped, halved>>

Data == [count : Nat, calls : SUBSET Call, handles : SUBSET Nat]
NoData == [count |-> 0, calls |-> {}, handles |-> {}]

\* entries of a history.  An assistant message is a group with the result of its call:
\* whole, cut (with the handle of the full text) or stub (with a handle); call 0 is none
User == [kind |-> "user"]
Group(c, form, h) == [kind |-> "group", call |-> c, form |-> form, handle |-> h]
Summary(d) == [kind |-> "summary", data |-> d]

Entry ==
  {User} \cup [kind : {"summary"}, data : Data]
    \cup [kind : {"group"}, call : {0}, form : {"none"}, handle : {0}]
    \cup [kind : {"group"}, call : Call, form : {"whole"}, handle : {0}]
    \cup [kind : {"group"}, call : Call, form : {"cut", "stub"}, handle : Nat]

Groups(m) == {i \in DOMAIN m : m[i].kind = "group"}
Tools(m) == {i \in Groups(m) : m[i].call # 0}
Summaries(m) == {i \in DOMAIN m : m[i].kind = "summary"}

Init ==
  /\ history = <<>> /\ summary = NoData /\ failing = 0
  /\ pc = "idle" /\ keep = 1 /\ handles = {}
  /\ stored = <<>> /\ saved = NoData
  /\ outputs = <<>> /\ parts = {} /\ old = {}
  /\ calls = 0 /\ answers = 0 /\ crashes = 0 /\ torn = FALSE /\ slipped = {} /\ halved = {}

-----------------------------------------------------------------------------
(* The outputs table *)

Rows == DOMAIN outputs
OutputOf(h) == IF h \in Rows THEN outputs[h] ELSE 0

\* put_output: MAX(handle) + 1
NewHandle == CHOOSE h \in {1} \cup {g + 1 : g \in Rows} : \A g \in Rows : g < h

AddRows(rows) == outputs' = [h \in Rows \cup DOMAIN rows |-> IF h \in DOMAIN rows THEN rows[h] ELSE outputs[h]]

Put(c) == AddRows([h \in {NewHandle} |-> c]) /\ old' = old \ {NewHandle}

\* the handles a history shows to the model
Cited(m) ==
  {m[i].handle : i \in {j \in Tools(m) : m[j].form \in {"cut", "stub"}}}
    \cup UNION {m[i].data.handles : i \in Summaries(m)}

\* mutant: the ranges of a summary are not read as handles
Referenced_NoRanges == {stored[i].handle : i \in Tools(stored)}

\* _referenced_handles: in messages and state, the number of a summary taken for one too
Referenced ==
  Cited(stored) \cup saved.handles \cup {stored[i].data.count : i \in Summaries(stored)}

\* prune_outputs, from any process
Prune ==
  /\ outputs' = [h \in Rows \ (old \ Referenced) |-> outputs[h]]
  /\ parts' = parts \ (old \ Referenced)
  /\ old' = old \cap Referenced
  /\ UNCHANGED <<memory, stored, saved, counts, torn, slipped, halved>>

\* days go by, which no compaction takes
Age ==
  /\ pc = "idle"
  /\ old' = Rows
  /\ UNCHANGED <<memory, stored, saved, outputs, parts, counts, torn, slipped, halved>>

-----------------------------------------------------------------------------
(* Between compactions: messages are appended *)

Append2(e) == history' = Append(history, e) /\ stored' = Append(stored, e)

\* _drive appends the user's message before anything else
UserMessage ==
  /\ pc = "idle"
  /\ Cardinality({i \in DOMAIN history : history[i] = User}) < MaxUsers
  /\ Append2(User)
  /\ UNCHANGED <<summary, failing, pc, keep, handles, saved, outputs, parts, old, counts, torn, slipped, halved>>

Answer ==
  /\ pc = "idle" /\ history # <<>>
  /\ answers < MaxAnswers
  /\ answers' = answers + 1
  /\ Append2(Group(0, "none", 0))
  /\ UNCHANGED <<summary, failing, pc, keep, handles, saved, outputs, parts, old, calls, crashes, torn, slipped, halved>>

\* _exec_one stores an output longer than the event's preview; tool_message cuts one
\* that is longer still and cites the handle
ToolCall(size, check) ==
  /\ pc = "idle" /\ history # <<>> /\ calls < MaxCalls
  /\ calls' = calls + 1
  /\ IF size = "short" THEN UNCHANGED <<outputs, old>> ELSE Put(calls + 1)
  /\ Append2(IF size = "huge" THEN Group(calls + 1, "cut", NewHandle)
             ELSE Group(calls + 1, "whole", 0))
  /\ failing' = CASE check = "fails" -> calls + 1 [] check = "passes" -> 0 [] OTHER -> failing
  /\ UNCHANGED <<summary, pc, keep, handles, saved, parts, answers, crashes, torn, slipped, halved>>

-----------------------------------------------------------------------------
(* _maybe_compact *)

First(S) == CHOOSE i \in S : \A j \in S : i <= j

\* neither among the latest k outputs, nor a stub already, nor the failing validation's
Maskable(k) ==
  {i \in Tools(history) :
     /\ Cardinality({j \in Tools(history) : j > i}) >= k
     /\ history[i].form # "stub" /\ history[i].call # failing}

\* over the limit before a model call, so never right after an answer: _mask with the k
\* that is enough, or the last one
Over(k) ==
  /\ pc = "idle" /\ history # <<>> /\ history[Len(history)] # Group(0, "none", 0)
  /\ k \in Keep
  /\ pc' = "mask" /\ keep' = k /\ handles' = {}
  /\ UNCHANGED <<history, summary, failing, disk, counts, torn, slipped, halved>>

\* _stub and _absorb_group put the output of these again
Unmasked(G) == {i \in G \cap Tools(history) : history[i].form # "stub"}

\* the handle it is put under
HandleOf(G, i) == NewHandle + Cardinality({j \in Unmasked(G) : j < i})

\* _body_of the results at I is put: of a cut one only what the message still shows, which
\* cites the whole text's handle as no message does any more
PutBodies(I) ==
  LET cut == {i \in I : history[i].form = "cut"} IN
  /\ parts' = parts \cup {HandleOf(I, i) : i \in cut}
  /\ halved' = halved \cup {history[i].call : i \in cut}

\* _stub of the next output
Mask ==
  /\ pc = "mask" /\ Maskable(keep) # {}
  /\ LET i == First(Maskable(keep)) IN
       /\ Put(history[i].call)
       /\ PutBodies({i})
       /\ history' = [history EXCEPT ![i] = Group(history[i].call, "stub", NewHandle)]
  /\ handles' = handles \cup {NewHandle}
  /\ UNCHANGED <<summary, failing, pc, keep, stored, saved, counts, torn, slipped>>

Oldest(n) == {i \in Groups(history) : Cardinality({j \in Groups(history) : j < i}) < n}

\* mutant: the evidence of earlier compactions is not carried on
Absorbed_Anew(G) ==
  [count |-> summary.count + 1,
   calls |-> {history[i].call : i \in G \cap Tools(history)},
   handles |-> summary.handles \cup handles \cup {HandleOf(G, i) : i \in Unmasked(G)}]

\* mutant: the summary lists the handles of this compaction only
Absorbed_OwnHandles(G) ==
  [count |-> summary.count + 1,
   calls |-> summary.calls \cup {history[i].call : i \in G \cap Tools(history)},
   handles |-> handles \cup {HandleOf(G, i) : i \in Unmasked(G)}]

\* SummaryData.absorb, and the handles of _drop_groups
Absorbed(G) ==
  [count |-> summary.count + 1,
   calls |-> summary.calls \cup {history[i].call : i \in G \cap Tools(history)},
   handles |-> summary.handles \cup handles \cup {HandleOf(G, i) : i \in Unmasked(G)}]

\* _rebuilt: the summary takes the place of the first removed group
Rebuilt(G, data) ==
  LET kept == DOMAIN history \ ((G \cup Summaries(history)) \ {First(G)})
      place(k) == CHOOSE i \in kept : Cardinality({j \in kept : j <= i}) = k
  IN [k \in 1..Cardinality(kept) |-> IF place(k) = First(G) THEN Summary(data) ELSE history[place(k)]]

\* still over after the last masking: _drop_groups, all but the newest at most
DropGroups(n) ==
  /\ pc = "mask" /\ keep = 1 /\ Maskable(1) = {}
  /\ n \in 1..Cardinality(Groups(history)) - 1
  /\ LET G == Oldest(n)
         data == Absorbed(G)
         new == {HandleOf(G, i) : i \in Unmasked(G)}
     IN
     /\ AddRows([h \in new |-> history[CHOOSE i \in Unmasked(G) : HandleOf(G, i) = h].call])
     /\ PutBodies(Unmasked(G))
     /\ old' = old \ new
     /\ handles' = handles \cup new
     /\ history' = Rebuilt(G, data)
     /\ summary' = data
     /\ slipped' = slipped \cup
          {history[i].call : i \in {j \in G \cap Tools(history) :
                                     history[j].form = "stub" /\ history[j].handle \notin data.handles}}
  /\ pc' = "messages"
  /\ UNCHANGED <<failing, keep, stored, saved, counts, torn>>

\* masking was enough, or nothing is left to drop; with nothing masked nothing is stored
KeepGroups ==
  /\ pc = "mask" /\ Maskable(keep) = {}
  /\ pc' = IF handles = {} THEN "idle" ELSE "messages"
  /\ UNCHANGED <<history, summary, failing, keep, handles, disk, counts, torn, slipped, halved>>

\* replace_messages
StoreMessages ==
  /\ pc = "messages"
  /\ stored' = history
  /\ pc' = "state"
  /\ UNCHANGED <<history, summary, failing, keep, handles, saved, outputs, parts, old, counts, torn, slipped, halved>>

\* set_state(COMPACTION_STATE)
StoreState ==
  /\ pc = "state"
  /\ saved' = summary
  /\ pc' = "idle"
  /\ UNCHANGED <<history, summary, failing, keep, handles, stored, outputs, parts, old, counts, torn, slipped, halved>>

\* mutant: the saved summary is not loaded
Restart_NoSummary ==
  /\ crashes < MaxCrash
  /\ crashes' = crashes + 1
  /\ history' = stored /\ summary' = NoData
  /\ failing' = 0 /\ pc' = "idle" /\ keep' = 1 /\ handles' = {}
  /\ torn' = (torn \/ (pc = "state" /\ saved # summary))
  /\ UNCHANGED <<disk, calls, answers, slipped, halved>>

\* the process ends anywhere, and _session loads the conversation in the next one
Restart ==
  /\ crashes < MaxCrash
  /\ crashes' = crashes + 1
  /\ history' = stored /\ summary' = saved
  /\ failing' = 0 /\ pc' = "idle" /\ keep' = 1 /\ handles' = {}
  /\ torn' = (torn \/ (pc = "state" /\ saved # summary))
  /\ UNCHANGED <<disk, calls, answers, slipped, halved>>

Next ==
  \/ UserMessage \/ Answer
  \/ \E kind \in Kind : ToolCall(kind[1], kind[2])
  \/ \E k \in Keep : Over(k)
  \/ Mask \/ KeepGroups \/ StoreMessages \/ StoreState
  \/ \E n \in 1..Cardinality(Groups(history)) : DropGroups(n)
  \/ Prune \/ Age \/ Restart

Spec == Init /\ [][Next]_vars
-----------------------------------------------------------------------------
(* Properties *)

TypeOK ==
  /\ history \in Seq(Entry) /\ stored \in Seq(Entry)
  /\ summary \in Data /\ saved \in Data
  /\ failing \in 0..MaxCalls /\ keep \in Keep
  /\ pc \in {"idle", "mask", "messages", "state"}
  /\ handles \subseteq Nat /\ old \subseteq Rows
  /\ Rows \subseteq Nat \ {0} /\ \A h \in Rows : outputs[h] \in Call
  /\ calls \in 0..MaxCalls /\ answers \in 0..MaxAnswers /\ crashes \in 0..MaxCrash
  /\ torn \in BOOLEAN /\ slipped \subseteq Call

\* A row has a part of an output only if a compaction masked or dropped its cut result.
PartsOK == parts \subseteq Rows /\ halved \subseteq Call /\ \A h \in parts : outputs[h] \in halved

\* Whatever crashes and prunes, a handle that a message shows is that of a stored output,
\* and a stub's or a cut output's is its own call's ("truthful stubs pointing at a durable
\* handle"; prune_outputs).
CitedResolve ==
  \A m \in {history, stored} :
    /\ Cited(m) \subseteq Rows
    /\ \A i \in Tools(m) : m[i].form # "whole" => OutputOf(m[i].handle) = m[i].call

\* Every call ever made is in the history or accounted for by its one summary, in memory and
\* in the store, unless a crash came between the two writes of a compaction.
EvidenceKept ==
  torn \/ \A m \in {history, stored} :
    /\ Cardinality(Summaries(m)) <= 1
    /\ Call \cap 1..calls = {m[i].call : i \in Tools(m)} \cup UNION {m[i].data.calls : i \in Summaries(m)}

\* what a call put out is in the history, or the history shows the handle of a row for it: of a
\* row of rows, where those not in parts have the whole text
Findable(c, rows) ==
  \/ \E i \in Tools(history) : history[i].call = c /\ history[i].form = "whole"
  \/ \E h \in Cited(history) \cap rows : OutputOf(h) = c

\* "The full text stays available through show_output" (docs/ARCHITECTURE.md:84). The code does not
\* keep this one, for two reasons: a stub that was masked by a compaction that dropped nothing takes
\* its handle with it, and what is masked or dropped of a cut result is the cut text: the handle
\* of the whole one is in no message then, only in that text, and a prune takes its row. No run
\* checks it.
OutputsAvailable == \A c \in 1..calls : Findable(c, Rows \ parts)

\* Those stubs, and a crash between the two writes of a compaction, are the only ways to lose
\* an output; and only one whose cut result was masked or dropped is had in part only.
OnlyStubsSlip ==
  torn \/ \A c \in 1..calls \ slipped :
            Findable(c, Rows) /\ (c \notin halved => Findable(c, Rows \ parts))

\* Handles stay good, nothing but a slipped stub hides an output, and nothing but a cut one's
\* masking takes a part of it.
HandlesSound == TypeOK /\ PartsOK /\ CitedResolve /\ OnlyStubsSlip

\* What the stored summary offers it offers for good: its handles stay in it, and each stays
\* the handle of the same output, through later compactions, restarts and prunes.
OffersStand ==
  [][torn' \/ \A i \in Summaries(stored) : \A h \in stored[i].data.handles :
       h \in Cited(stored') /\ OutputOf(h)' = OutputOf(h)]_vars
===============================================================================
