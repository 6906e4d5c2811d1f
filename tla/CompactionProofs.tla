--------------------------- MODULE CompactionProofs ---------------------------
(***************************************************************************)
(* Proofs about Compaction, for every number of calls, messages, prunes    *)
(* and crashes, and whatever each compaction masks and drops: the handles  *)
(* a conversation shows stay good and nothing but a slipped stub hides an  *)
(* output (HandlesSound), no call is forgotten (EvidenceKept), and what a  *)
(* stored summary offers it offers for good (OffersStand).                 *)
(***************************************************************************)
EXTENDS Compaction, FiniteSetTheorems, FunctionTheorems, WellFoundedInduction, TLAPS

(* What one entry of a history shows: handles, calls it tells of, and the text of a call. *)
IsSummary(e) == e.kind = "summary"
Cites(e) == e.kind = "group" /\ e.form \in {"cut", "stub"}
HandlesOf(e) == {h \in Nat : (Cites(e) /\ h = e.handle) \/ (IsSummary(e) /\ h \in e.data.handles)}
CallsOf(e) == {c \in Call : (e.kind = "group" /\ c = e.call) \/ (IsSummary(e) /\ c \in e.data.calls)}
Whole(e, c) == e.kind = "group" /\ e.form = "whole" /\ e.call = c

(* ... and a history m of them, with the outputs out *)
Shown(m) == {h \in Nat : \E e \in Range(m) : h \in HandlesOf(e)}
Told(m) == {c \in Call : \E e \in Range(m) : c \in CallsOf(e)}
Reach(m, out, c) ==
  \E e \in Range(m) : Whole(e, c) \/ \E h \in HandlesOf(e) : h \in DOMAIN out /\ out[h] = c
Good(m, out) ==
  \A e \in Range(m) : HandlesOf(e) \subseteq DOMAIN out /\ (Cites(e) => out[e.handle] = e.call)
OneSummary(m) == \A i, j \in Summaries(m) : i = j
Says(m, d) == \A e \in Range(m) : IsSummary(e) => e.data = d
Offers(m, k) ==
  \A e \in Range(m) : IsSummary(e) =>
    \E f \in Range(k) : IsSummary(f) /\ e.data.handles \subseteq f.data.handles

(* A history m of n calls is in order: each handle is good, at most one      *)
(* entry is a summary, and it tells of every call and, but for those in      *)
(* lost, lets it be read; the last two unless a crash tore it.               *)
HistoryOK(m, out, n, lost, whole) ==
  /\ m \in Seq(Entry)
  /\ Good(m, out) /\ OneSummary(m) /\ Told(m) \subseteq 1..n
  /\ whole => 1..n \subseteq Told(m) /\ \A c \in (1..n) \ lost : Reach(m, out, c)

(* What _maybe_compact has in memory and not yet in the store, by how far it *)
(* is: history until replace_messages, the summary until set_state.          *)
PhaseOK ==
  /\ pc \in {"idle", "state"} => history = stored
  /\ pc = "mask" /\ handles = {} => history = stored
  /\ pc \in {"idle", "mask"} => saved = summary
  /\ pc \in {"messages", "state"} => summary.handles \subseteq saved.handles \cup handles

(* Handles are given out in order, and no prune may take one that a message  *)
(* or the summary shows, stored or not: it is referenced in the store, or    *)
(* this compaction has just given it out.                                    *)
RowsOK ==
  /\ \E bound \in Nat : \A h \in Rows : h <= bound
  /\ saved.handles \subseteq Rows /\ summary.handles \subseteq Rows
  /\ pc # "idle" => handles \subseteq Rows \ old
  /\ pc \in {"mask", "messages"} => Shown(history) \subseteq Shown(stored) \cup saved.handles \cup handles

(* What the stored conversation and the one in memory tell and show. *)
HistoriesOK ==
  /\ HistoryOK(history, outputs, calls, slipped, ~torn)
  /\ HistoryOK(stored, outputs, calls, slipped, ~torn)

(* Unless torn, the summary that is shown is the one that is known, and what *)
(* the stored one offers is offered still by what will take its place.       *)
SummaryOK ==
  /\ summary.calls \subseteq 1..calls /\ saved.calls \subseteq 1..calls
  /\ ~torn => /\ Says(history, summary) /\ (pc # "state" => Says(stored, saved))
              /\ Offers(stored, history)

CInv == TypeOK /\ PhaseOK /\ RowsOK /\ HistoriesOK /\ SummaryOK

-----------------------------------------------------------------------------
(* Entries and histories *)

\* A history's entries are entries, each of one kind.
LEMMA Entries ==
  ASSUME NEW m \in Seq(Entry)
  PROVE  /\ DOMAIN m = 1..Len(m) /\ Len(m) \in Nat
         /\ \A i \in DOMAIN m : m[i] \in Entry /\ m[i] \in Range(m)
         /\ \A e \in Range(m) : e \in Entry /\ \E i \in DOMAIN m : m[i] = e
BY DEF Range

\* What an entry can be.
LEMMA Kinds ==
  ASSUME NEW e \in Entry
  PROVE  /\ e.kind \in {"user", "group", "summary"}
         /\ e.kind = "group" => /\ e.form \in {"none", "whole", "cut", "stub"} /\ e.handle \in Nat
                                /\ e.call \in Nat /\ (e.form = "none" <=> e.call = 0)
                                /\ (e.form # "none" => e.call \in Call)
         /\ e.kind = "summary" => e.data \in Data
BY DEF Entry, User, Call

\* Cited, the calls told and the outputs to be read, entry by entry.
LEMMA Reads ==
  ASSUME NEW m \in Seq(Entry)
  PROVE  /\ Cited(m) = Shown(m)
         /\ {m[i].call : i \in Tools(m)} \cup UNION {m[i].data.calls : i \in Summaries(m)} = Told(m)
<1>1. \A i \in DOMAIN m : /\ i \in Tools(m) <=> m[i].kind = "group" /\ m[i].form # "none"
                          /\ i \in Summaries(m) <=> IsSummary(m[i])
  BY Entries, Kinds DEF Tools, Groups, Summaries, IsSummary
<1>2. Cited(m) \subseteq Shown(m)
  <2>1. ASSUME NEW i \in Tools(m), m[i].form \in {"cut", "stub"}
        PROVE  m[i].handle \in Shown(m)
    BY <2>1, <1>1, Entries, Kinds DEF Shown, HandlesOf, Cites, Tools, Groups
  <2>2. ASSUME NEW i \in Summaries(m), NEW h \in m[i].data.handles
        PROVE  h \in Shown(m)
    BY <2>2, <1>1, Entries, Kinds DEF Shown, HandlesOf, IsSummary, Summaries, Data
  <2>. QED
    BY <2>1, <2>2 DEF Cited
<1>3. ASSUME NEW h \in Shown(m)
      PROVE  h \in Cited(m)
  <2>1. PICK i \in DOMAIN m : h \in HandlesOf(m[i])
    BY Entries DEF Shown
  <2>2. CASE Cites(m[i]) /\ h = m[i].handle
    BY <2>2, <1>1 DEF Cites, Cited
  <2>3. CASE IsSummary(m[i]) /\ h \in m[i].data.handles
    BY <2>3, <1>1 DEF Cited
  <2>. QED
    BY <2>1, <2>2, <2>3 DEF HandlesOf
<1>4. ASSUME NEW i \in Tools(m)
      PROVE  m[i].call \in Told(m)
  BY <1>1, Entries, Kinds DEF Told, CallsOf, Tools, Groups
<1>5. ASSUME NEW i \in Summaries(m), NEW c \in m[i].data.calls
      PROVE  c \in Told(m)
  BY <1>1, Entries, Kinds DEF Told, CallsOf, IsSummary, Summaries, Data
<1>6. ASSUME NEW c \in Told(m)
      PROVE  c \in {m[i].call : i \in Tools(m)} \cup UNION {m[i].data.calls : i \in Summaries(m)}
  <2>1. PICK i \in DOMAIN m : c \in CallsOf(m[i])
    BY Entries DEF Told
  <2>2. c \in Call /\ c # 0
    BY CompactionAssumption DEF Told, Call
  <2>3. CASE m[i].kind = "group" /\ c = m[i].call
    <3>1. i \in Tools(m)
      BY <2>2, <2>3 DEF Tools, Groups
    <3>. QED
      BY <2>3, <3>1
  <2>4. CASE IsSummary(m[i]) /\ c \in m[i].data.calls
    BY <2>4, <1>1
  <2>. QED
    BY <2>1, <2>3, <2>4 DEF CallsOf
<1>. QED
  BY <1>2, <1>3, <1>4, <1>5, <1>6

-----------------------------------------------------------------------------
(* One history changes *)

\* A history is in order as long as the outputs it shows are kept; more may be lost, and torn.
LEMMA RowsKept ==
  ASSUME NEW m, NEW out, NEW n, NEW lost, NEW whole, HistoryOK(m, out, n, lost, whole),
         NEW out2, NEW lost2, NEW whole2, lost \subseteq lost2, whole2 => whole,
         \A h \in Shown(m) : h \in DOMAIN out2 /\ out2[h] = out[h]
  PROVE  HistoryOK(m, out2, n, lost2, whole2)
<1>1. \A e \in Range(m) : HandlesOf(e) \subseteq Shown(m)
  BY DEF Shown, HandlesOf
<1>2. \A e \in Range(m) : Cites(e) => e.handle \in HandlesOf(e)
  BY Entries, Kinds DEF HistoryOK, HandlesOf, Cites
<1>3. Good(m, out2)
  BY <1>1, <1>2 DEF HistoryOK, Good
<1>4. \A c : Reach(m, out, c) => Reach(m, out2, c)
  BY <1>1 DEF Reach
<1>. QED
  BY <1>3, <1>4 DEF HistoryOK

\* An entry is appended.
LEMMA Appended ==
  ASSUME NEW m \in Seq(Entry), NEW e \in Entry, ~IsSummary(e)
  PROVE  /\ Append(m, e) \in Seq(Entry) /\ Range(Append(m, e)) = Range(m) \cup {e}
         /\ Shown(Append(m, e)) = Shown(m) \cup HandlesOf(e)
         /\ OneSummary(m) => OneSummary(Append(m, e))
<1>. DEFINE k == Append(m, e)
<1>1. k \in Seq(Entry) /\ Len(k) = Len(m) + 1 /\ DOMAIN k = 1..Len(m) + 1 /\ DOMAIN m = 1..Len(m) /\ Len(m) \in Nat
  BY Entries
<1>2. k[Len(m) + 1] = e /\ \A i \in 1..Len(m) : k[i] = m[i]
  BY Entries
<1>. HIDE DEF k
<1>3. Range(k) = Range(m) \cup {e}
  <2>1. Range(k) \subseteq Range(m) \cup {e}
    BY <1>1, <1>2 DEF Range
  <2>2. Range(m) \subseteq Range(k)
    BY <1>1, <1>2 DEF Range
  <2>3. Len(m) + 1 \in DOMAIN k
    BY <1>1
  <2>4. e \in Range(k)
    BY <2>3, <1>2 DEF Range
  <2>. QED
    BY <2>1, <2>2, <2>4
<1>4. Shown(k) = Shown(m) \cup HandlesOf(e)
  BY <1>3 DEF Shown, HandlesOf
<1>5. Summaries(k) = Summaries(m)
  BY <1>1, <1>2 DEF Summaries, IsSummary
<1>. QED
  BY <1>1, <1>3, <1>4, <1>5 DEF OneSummary, k

\* A user's message or an answer keeps a history in order.
LEMMA PlainAppended ==
  ASSUME NEW m, NEW out, NEW n, NEW lost, NEW whole, HistoryOK(m, out, n, lost, whole),
         NEW e \in {User, Group(0, "none", 0)}
  PROVE  HistoryOK(Append(m, e), out, n, lost, whole) /\ Shown(Append(m, e)) = Shown(m)
<1>1. e \in Entry /\ ~IsSummary(e) /\ ~Cites(e) /\ HandlesOf(e) = {} /\ CallsOf(e) = {}
  BY CompactionAssumption DEF Entry, User, Group, IsSummary, Cites, HandlesOf, CallsOf, Call
<1>2. m \in Seq(Entry) /\ Range(Append(m, e)) = Range(m) \cup {e}
  BY <1>1, Appended DEF HistoryOK
<1>3. Told(Append(m, e)) = Told(m)
  BY <1>1, <1>2 DEF Told
<1>4. Good(Append(m, e), out)
  BY <1>1, <1>2 DEF HistoryOK, Good
<1>5. \A c : Reach(m, out, c) => Reach(Append(m, e), out, c)
  BY <1>2 DEF Reach
<1>6. /\ Append(m, e) \in Seq(Entry) /\ OneSummary(Append(m, e))
      /\ Shown(Append(m, e)) = Shown(m) \cup HandlesOf(e)
  BY <1>1, Appended DEF HistoryOK
<1>. QED
  BY <1>1, <1>3, <1>4, <1>5, <1>6 DEF HistoryOK

\* So does a call with its result, whole or cut, if the output it cites is stored.
LEMMA CallAppended ==
  ASSUME NEW m, NEW out, NEW n \in Nat, NEW lost, NEW whole, HistoryOK(m, out, n, lost, whole),
         n + 1 \in Call, NEW h \in Nat, NEW e \in {Group(n + 1, "whole", 0), Group(n + 1, "cut", h)},
         Cites(e) => h \in DOMAIN out /\ out[h] = n + 1
  PROVE  HistoryOK(Append(m, e), out, n + 1, lost, whole) /\ Shown(Append(m, e)) = Shown(m) \cup HandlesOf(e)
<1>1. e \in Entry /\ ~IsSummary(e) /\ CallsOf(e) = {n + 1}
  BY DEF Entry, Group, IsSummary, CallsOf
<1>2. Cites(e) => e.handle = h /\ HandlesOf(e) = {h}
  BY DEF Group, Cites, HandlesOf, IsSummary
<1>3. ~Cites(e) => HandlesOf(e) = {} /\ Whole(e, n + 1)
  BY DEF Group, Cites, HandlesOf, IsSummary, Whole
<1>4. m \in Seq(Entry) /\ Range(Append(m, e)) = Range(m) \cup {e}
  BY <1>1, Appended DEF HistoryOK
<1>5. Told(Append(m, e)) = Told(m) \cup {n + 1}
  BY <1>1, <1>4 DEF Told
<1>6. Good(Append(m, e), out)
  <2>1. HandlesOf(e) \subseteq DOMAIN out
    BY <1>2, <1>3
  <2>2. Cites(e) => out[e.handle] = e.call
    BY <1>2 DEF Group, Cites
  <2>. QED
    BY <1>4, <2>1, <2>2 DEF HistoryOK, Good
<1>7. Reach(Append(m, e), out, n + 1)
  BY <1>2, <1>3, <1>4 DEF Reach
<1>8. \A c : Reach(m, out, c) => Reach(Append(m, e), out, c)
  BY <1>4 DEF Reach
<1>9. 1..n + 1 = (1..n) \cup {n + 1}
  OBVIOUS
<1>. QED
  BY <1>1, <1>4, <1>5, <1>6, <1>7, <1>8, <1>9, Appended DEF HistoryOK

\* The entry at i of m, a call's, becomes a stub in k, and its output gets the row h.
Stubbed(m, i, h, out, k, out2) ==
  /\ i \in Tools(m) /\ h \in Nat /\ h \notin DOMAIN out
  /\ DOMAIN out2 = DOMAIN out \cup {h} /\ out2[h] = m[i].call /\ \A g \in DOMAIN out : out2[g] = out[g]
  /\ k \in Seq(Entry) /\ DOMAIN k = DOMAIN m /\ k[i] = Group(m[i].call, "stub", h)
  /\ \A j \in DOMAIN m : j # i => k[j] = m[j]

\* An output is masked: its stub has the handle it has just been stored under.
LEMMA Masked ==
  ASSUME NEW m, NEW out, NEW n, NEW lost, NEW whole, HistoryOK(m, out, n, lost, whole),
         NEW i, NEW h, NEW k, NEW out2, Stubbed(m, i, h, out, k, out2)
  PROVE  /\ HistoryOK(k, out2, n, lost, whole)
         /\ Shown(k) \subseteq Shown(m) \cup {h}
         /\ \A d : Says(m, d) => Says(k, d)
         /\ \A s : Offers(s, m) => Offers(s, k)
<1>0. /\ i \in Tools(m) /\ h \in Nat /\ h \notin DOMAIN out
      /\ DOMAIN out2 = DOMAIN out \cup {h} /\ out2[h] = m[i].call /\ \A g \in DOMAIN out : out2[g] = out[g]
      /\ k \in Seq(Entry) /\ DOMAIN k = DOMAIN m /\ k[i] = Group(m[i].call, "stub", h)
      /\ \A j \in DOMAIN m : j # i => k[j] = m[j]
  BY DEF Stubbed
<1>. DEFINE e == m[i]
            f == Group(m[i].call, "stub", h)
<1>1. /\ i \in DOMAIN m /\ e \in Entry /\ e \in Range(m) /\ e.kind = "group" /\ e.call # 0
      /\ ~IsSummary(e) /\ CallsOf(e) = {e.call} /\ e.call \in Call
  BY <1>0, Entries, Kinds DEF HistoryOK, Tools, Groups, IsSummary, CallsOf
<1>2. /\ f \in Entry /\ ~IsSummary(f) /\ Cites(f) /\ f.handle = h /\ f.call = e.call
      /\ HandlesOf(f) = {h} /\ CallsOf(f) = {e.call}
  BY <1>0, <1>1 DEF Entry, Group, IsSummary, Cites, HandlesOf, CallsOf
<1>3. DOMAIN k = DOMAIN m /\ k[i] = f /\ (\A j \in DOMAIN m \ {i} : k[j] = m[j]) /\ k \in Seq(Entry)
  BY <1>0
<1>. HIDE DEF e, f
<1>4. /\ f \in Range(k) /\ \A g \in Range(k) : g = f \/ g \in Range(m)
      /\ \A g \in Range(m) : g = e \/ g \in Range(k)
  <2>1. f \in Range(k)
    BY <1>1, <1>3 DEF Range
  <2>2. ASSUME NEW g \in Range(k), g # f
        PROVE  g \in Range(m)
    BY <1>3, <2>2 DEF Range
  <2>3. ASSUME NEW g \in Range(m), g # e
        PROVE  g \in Range(k)
    BY <1>3, <2>3 DEF Range, e
  <2>. QED
    BY <2>1, <2>2, <2>3
<1>5. Summaries(k) = Summaries(m)
  BY <1>1, <1>2, <1>3 DEF Summaries, IsSummary, e
<1>6. Shown(k) \subseteq Shown(m) \cup {h}
  BY <1>2, <1>4 DEF Shown
<1>7. Told(k) = Told(m)
  BY <1>1, <1>2, <1>4 DEF Told
<1>8. Good(k, out2)
  <2>1. ASSUME NEW g \in Range(m)
        PROVE  HandlesOf(g) \subseteq DOMAIN out2 /\ (Cites(g) => out2[g.handle] = g.call)
    BY <1>0, Entries, Kinds DEF HistoryOK, Good, HandlesOf, Cites
  <2>2. HandlesOf(f) \subseteq DOMAIN out2 /\ out2[f.handle] = f.call
    BY <1>0, <1>2 DEF e
  <2>. QED
    BY <1>4, <2>1, <2>2 DEF Good
<1>9. ASSUME NEW c, Reach(m, out, c)
      PROVE  Reach(k, out2, c)
  <2>1. PICK g \in Range(m) : Whole(g, c) \/ \E x \in HandlesOf(g) : x \in DOMAIN out /\ out[x] = c
    BY <1>9 DEF Reach
  <2>2. CASE g # e
    BY <1>0, <1>4, <2>1, <2>2 DEF Reach
  <2>3. CASE g = e
    <3>1. e.call = c
      <4>1. CASE Whole(e, c)
        BY <4>1 DEF Whole
      <4>2. CASE ~Whole(e, c)
        <5>1. PICK x \in HandlesOf(e) : x \in DOMAIN out /\ out[x] = c
          BY <2>1, <2>3, <4>2
        <5>2. Cites(e) /\ x = e.handle
          BY <1>1, <5>1 DEF HandlesOf
        <5>. QED
          BY <1>1, <5>1, <5>2 DEF HistoryOK, Good
      <4>. QED
        BY <4>1, <4>2
    <3>2. h \in HandlesOf(f) /\ h \in DOMAIN out2 /\ out2[h] = c
      BY <1>0, <1>2, <3>1 DEF e
    <3>. QED
      BY <1>4, <3>2 DEF Reach
  <2>. QED
    BY <2>2, <2>3
<1>10. \A d : Says(m, d) => Says(k, d)
  BY <1>2, <1>4 DEF Says
<1>11. ASSUME NEW s, Offers(s, m)
       PROVE  Offers(s, k)
  <2>1. \A g \in Range(m) : IsSummary(g) => g \in Range(k)
    BY <1>1, <1>4
  <2>. QED
    BY <1>11, <2>1 DEF Offers
<1>12. HistoryOK(k, out2, n, lost, whole)
  BY <1>3, <1>5, <1>7, <1>8, <1>9 DEF HistoryOK, OneSummary
<1>. QED
  BY <1>6, <1>10, <1>11, <1>12

-----------------------------------------------------------------------------
(* The outputs table *)

\* A set of numbers that is not empty has a first one.
LEMMA FirstIsOne ==
  ASSUME NEW S \in SUBSET Nat, S # {}
  PROVE  First(S) \in S /\ \A j \in S : First(S) <= j
<1>1. PICK x \in S : \A y \in S : ~(<<y, x>> \in OpToRel(<, Nat))
  BY NatLessThanWellFounded, WFMin
<1>2. ASSUME NEW j \in S
      PROVE  x <= j
  <2>1. j \in Nat /\ x \in Nat /\ ~(j < x)
    BY <1>1 DEF OpToRel
  <2>. QED
    BY <2>1
<1>. QED
  BY <1>2 DEF First

\* The handle that put_output gives out is beyond those of all rows.
LEMMA NewHandleIsNew ==
  ASSUME TypeOK, RowsOK
  PROVE  NewHandle \in Nat \ {0} /\ \A g \in Rows : g < NewHandle
<1>. DEFINE B == {b \in Nat : \A g \in Rows : g < b}
<1>1. Rows \subseteq Nat \ {0}
  BY DEF TypeOK
<1>2. PICK b0 \in Nat : \A g \in Rows : g <= b0
  BY DEF RowsOK
<1>3. b0 + 1 \in B
  BY <1>1, <1>2
<1>4. PICK b \in B : \A c \in B : b <= c
  <2>1. B \in SUBSET Nat /\ B # {}
    BY <1>3
  <2>. HIDE DEF B
  <2>. QED
    BY <2>1, FirstIsOne
<1>5. b \in {1} \cup {g + 1 : g \in Rows} \/ b = 0
  <2>1. SUFFICES ASSUME b # 0, b # 1
                 PROVE  \E g \in Rows : b = g + 1
    OBVIOUS
  <2>2. b - 1 \in Nat /\ ~(b <= b - 1)
    BY <2>1
  <2>3. b - 1 \notin B
    BY <1>4, <2>2
  <2>4. PICK g \in Rows : ~(g < b - 1)
    BY <2>2, <2>3
  <2>5. g \in Nat /\ g < b
    BY <1>1
  <2>. QED
    BY <2>2, <2>4, <2>5
<1>6. \E h \in {1} \cup {g + 1 : g \in Rows} : \A g \in Rows : g < h
  <2>1. CASE b = 0
    <3>1. Rows = {}
      BY <1>1, <2>1
    <3>. QED
      BY <3>1
  <2>2. CASE b # 0
    BY <1>5, <2>2
  <2>. QED
    BY <2>1, <2>2
<1>7. NewHandle \in {1} \cup {g + 1 : g \in Rows} /\ \A g \in Rows : g < NewHandle
  BY <1>6 DEF NewHandle
<1>. QED
  BY <1>1, <1>7

\* Rows with fresh handles leave the others as they are.
LEMMA Added ==
  ASSUME NEW rows, AddRows(rows), DOMAIN rows \cap Rows = {}
  PROVE  /\ Rows' = Rows \cup DOMAIN rows
         /\ \A h \in Rows : outputs'[h] = outputs[h]
         /\ \A h \in DOMAIN rows : outputs'[h] = rows[h]
BY DEF AddRows, Rows

\* One output is stored.
LEMMA Stored ==
  ASSUME TypeOK, RowsOK, NEW c \in Call, Put(c)
  PROVE  /\ NewHandle \in Nat \ {0} /\ NewHandle \notin Rows /\ Rows' = Rows \cup {NewHandle}
         /\ DOMAIN outputs' = DOMAIN outputs \cup {NewHandle}
         /\ outputs'[NewHandle] = c /\ \A h \in Rows : outputs'[h] = outputs[h]
         /\ old' \subseteq Rows /\ old' \subseteq old /\ NewHandle \notin old'
         /\ \E bound \in Nat : \A h \in Rows' : h <= bound
         /\ Rows' \subseteq Nat \ {0} /\ \A h \in Rows' : outputs'[h] \in Call
<1>1. NewHandle \in Nat \ {0} /\ NewHandle \notin Rows
  BY NewHandleIsNew DEF TypeOK
<1>2. /\ Rows' = Rows \cup {NewHandle} /\ outputs'[NewHandle] = c
      /\ \A h \in Rows : outputs'[h] = outputs[h]
  <2>. DEFINE rows == [h \in {NewHandle} |-> c]
  <2>1. AddRows(rows) /\ DOMAIN rows = {NewHandle} /\ rows[NewHandle] = c
    BY DEF Put
  <2>. HIDE DEF rows
  <2>. QED
    BY <1>1, <2>1 DEF AddRows, Rows
<1>3. \A h \in Rows' : h <= NewHandle
  BY <1>1, <1>2, NewHandleIsNew DEF TypeOK
<1>4. old' \subseteq old /\ NewHandle \notin old' /\ old \subseteq Rows
  BY DEF Put, TypeOK
<1>5. Rows' \subseteq Nat \ {0} /\ \A h \in Rows' : outputs'[h] \in Call
  BY <1>1, <1>2 DEF TypeOK
<1>. QED
  BY <1>1, <1>2, <1>3, <1>4, <1>5 DEF Rows

-----------------------------------------------------------------------------
(* Dropping groups *)

\* The places of a history, finitely many.
LEMMA Places ==
  ASSUME history \in Seq(Entry), NEW S \in SUBSET DOMAIN history
  PROVE  S \in SUBSET Nat /\ IsFiniteSet(S) /\ Cardinality(S) \in Nat /\ Cardinality(S) <= Len(history)
<1>1. DOMAIN history = 1..Len(history) /\ Len(history) \in Nat
  BY Entries
<1>2. IsFiniteSet(1..Len(history)) /\ Cardinality(1..Len(history)) = Len(history)
  <2>1. \A n \in Nat : IsFiniteSet(1..n) /\ Cardinality(1..n) = n
    BY FS_Interval
  <2>. QED
    BY <1>1, <2>1
<1>. QED
  BY <1>1, <1>2, FS_Subset, FS_CardinalityType

\* The groups to drop are groups, and there is a first one.
LEMMA OldestIsOne ==
  ASSUME history \in Seq(Entry), NEW n \in 1..Cardinality(Groups(history)) - 1
  PROVE  Oldest(n) \subseteq Groups(history) /\ Oldest(n) # {} /\ First(Oldest(n)) \in Oldest(n)
<1>1. Groups(history) \subseteq DOMAIN history /\ Groups(history) \subseteq Nat
  BY Places DEF Groups
<1>2. Groups(history) # {} /\ 0 < n
  <2>1. IsFiniteSet(Groups(history)) /\ Cardinality(Groups(history)) \in Nat
    BY <1>1, Places
  <2>2. 0 < n /\ Cardinality(Groups(history)) # 0
    BY <2>1
  <2>. QED
    BY <2>1, <2>2, FS_EmptySet
<1>3. First(Groups(history)) \in Groups(history) /\ \A j \in Groups(history) : First(Groups(history)) <= j
  BY <1>1, <1>2, FirstIsOne
<1>4. {j \in Groups(history) : j < First(Groups(history))} = {}
  BY <1>1, <1>3
<1>5. First(Groups(history)) \in Oldest(n)
  BY <1>2, <1>3, <1>4, FS_EmptySet DEF Oldest
<1>6. Oldest(n) \in SUBSET Nat /\ Oldest(n) \subseteq Groups(history)
  BY <1>1 DEF Oldest
<1>. QED
  BY <1>5, <1>6, FirstIsOne

\* The outputs of a dropped group get handles of their own.
LEMMA HandlesApart ==
  ASSUME history \in Seq(Entry), NewHandle \in Nat \ {0}, NEW G \in SUBSET DOMAIN history
  PROVE  /\ \A i \in Unmasked(G) : /\ HandleOf(G, i) \in Nat /\ HandleOf(G, i) >= NewHandle
                                   /\ HandleOf(G, i) <= NewHandle + Len(history)
         /\ \A i, j \in Unmasked(G) : HandleOf(G, i) = HandleOf(G, j) => i = j
<1>1. Unmasked(G) \in SUBSET DOMAIN history /\ Unmasked(G) \in SUBSET Nat
  BY Places DEF Unmasked
<1>. DEFINE before(i) == {j \in Unmasked(G) : j < i}
<1>2. \A i : IsFiniteSet(before(i)) /\ Cardinality(before(i)) \in Nat /\ Cardinality(before(i)) <= Len(history)
  BY <1>1, Places
<1>3. ASSUME NEW i \in Unmasked(G), NEW j \in Unmasked(G), i < j
      PROVE  Cardinality(before(i)) < Cardinality(before(j))
  <2>1. before(i) \in SUBSET before(j) /\ i \in before(j) /\ i \notin before(i)
    BY <1>1, <1>3
  <2>2. Cardinality(before(i)) <= Cardinality(before(j)) /\ Cardinality(before(i)) # Cardinality(before(j))
    <3>. HIDE DEF before
    <3>. QED
      BY <1>2, <2>1, FS_Subset
  <2>. HIDE DEF before
  <2>. QED
    BY <1>2, <2>2
<1>4. \A i : HandleOf(G, i) = NewHandle + Cardinality(before(i))
  BY DEF HandleOf
<1>5. ASSUME NEW i \in Unmasked(G), NEW j \in Unmasked(G), HandleOf(G, i) = HandleOf(G, j)
      PROVE  i = j
  <2>1. Cardinality(before(i)) = Cardinality(before(j))
    <3>. HIDE DEF before
    <3>. QED
      BY <1>2, <1>4, <1>5
  <2>2. ~(i < j) /\ ~(j < i)
    <3>. HIDE DEF before
    <3>. QED
      BY <1>2, <1>3, <2>1
  <2>. QED
    BY <1>1, <2>2
<1>6. Len(history) \in Nat
  BY Entries
<1>. HIDE DEF before
<1>. QED
  BY <1>2, <1>4, <1>5, <1>6

\* A set of numbers counts up its members, one by one.
LEMMA Counting ==
  ASSUME NEW S \in SUBSET Nat, IsFiniteSet(S)
  PROVE  /\ \A i \in S : Cardinality({j \in S : j <= i}) \in 1..Cardinality(S)
         /\ \A i, k \in S : Cardinality({j \in S : j <= i}) = Cardinality({j \in S : j <= k}) => i = k
         /\ \A k \in 1..Cardinality(S) : \E i \in S : Cardinality({j \in S : j <= i}) = k
<1>. DEFINE upto(i) == {j \in S : j <= i}
            rank == [i \in S |-> Cardinality(upto(i))]
            n == Cardinality(S)
<1>0. n \in Nat
  BY FS_CardinalityType
<1>1. \A i : upto(i) \in SUBSET S /\ IsFiniteSet(upto(i)) /\ Cardinality(upto(i)) \in Nat /\ Cardinality(upto(i)) <= n
  <2>1. \A i : upto(i) \in SUBSET S
    OBVIOUS
  <2>. HIDE DEF upto
  <2>. QED
    BY <2>1, FS_Subset, FS_CardinalityType
<1>2. \A i \in S : i \in upto(i)
  OBVIOUS
<1>3. \A i \in S : Cardinality(upto(i)) # 0
  <2>. HIDE DEF upto
  <2>. QED
    BY <1>1, <1>2, FS_EmptySet
<1>4. ASSUME NEW i \in S, NEW k \in S, i < k
      PROVE  Cardinality(upto(i)) # Cardinality(upto(k))
  <2>0. i \in Nat /\ k \in Nat /\ \A j \in S : j \in Nat
    OBVIOUS
  <2>1. upto(i) \in SUBSET upto(k)
    <3>1. \A j \in Nat : j <= i => j <= k
      BY <1>4, <2>0
    <3>. QED
      BY <2>0, <3>1
  <2>2. k \in upto(k) /\ k \notin upto(i)
    BY <1>4, <2>0
  <2>. HIDE DEF upto
  <2>. QED
    BY <1>1, <2>1, <2>2, FS_Subset
<1>5. \A i, k \in S : Cardinality(upto(i)) = Cardinality(upto(k)) => i = k
  <2>1. \A i, k \in S : i < k \/ k < i \/ i = k
    OBVIOUS
  <2>. HIDE DEF upto
  <2>. QED
    BY <1>4, <2>1
<1>6. \A i \in S : Cardinality(upto(i)) \in 1..n
  <2>. HIDE DEF upto, n
  <2>. QED
    BY <1>0, <1>1, <1>3
<1>7. rank \in Injection(S, 1..n)
  <2>1. rank \in [S -> 1..n]
    BY <1>6
  <2>2. \A a, b \in S : rank[a] = rank[b] => a = b
    BY <1>5
  <2>. HIDE DEF rank
  <2>. QED
    BY <2>1, <2>2, Fun_IsInj
<1>8. IsFiniteSet(1..n) /\ Cardinality(1..n) = n
  <2>. HIDE DEF n
  <2>. QED
    BY <1>0, FS_Interval
<1>9. rank \in Surjection(S, 1..n)
  <2>. HIDE DEF rank
  <2>. QED
    BY <1>7, <1>8, FS_Injection
<1>10. \A k \in 1..n : \E i \in S : rank[i] = k
  <2>. HIDE DEF rank
  <2>. QED
    BY <1>9, Fun_SurjectionProperties
<1>. QED
  BY <1>5, <1>6, <1>10

\* _rebuilt: what is left is what was neither dropped nor a summary, and the new summary.
LEMMA RebuiltIs ==
  ASSUME history \in Seq(Entry), NEW G, G \subseteq Groups(history), First(G) \in G, NEW data \in Data
  PROVE  /\ Rebuilt(G, data) \in Seq(Entry) /\ OneSummary(Rebuilt(G, data))
         /\ Range(Rebuilt(G, data)) =
              {Summary(data)} \cup {history[j] : j \in DOMAIN history \ (G \cup Summaries(history))}
<1>. DEFINE kept == DOMAIN history \ ((G \cup Summaries(history)) \ {First(G)})
            place(k) == CHOOSE i \in kept : Cardinality({j \in kept : j <= i}) = k
            N == Cardinality(kept)
            R == [k \in 1..N |-> IF place(k) = First(G) THEN Summary(data) ELSE history[place(k)]]
            rest == {history[j] : j \in DOMAIN history \ (G \cup Summaries(history))}
<1>1. Rebuilt(G, data) = R
  BY DEF Rebuilt
<1>2. kept \in SUBSET Nat /\ IsFiniteSet(kept) /\ N \in Nat
  <2>1. kept \in SUBSET DOMAIN history
    OBVIOUS
  <2>. HIDE DEF kept
  <2>. QED
    BY <2>1, Places
<1>3. First(G) \in kept /\ \A i \in kept : i = First(G) \/ i \in DOMAIN history \ (G \cup Summaries(history))
  BY DEF Groups
<1>4. /\ \A k \in 1..N : place(k) \in kept
      /\ \A i \in kept : \E k \in 1..N : place(k) = i
      /\ \A k, l \in 1..N : place(k) = place(l) => k = l
  <2>. DEFINE rank(i) == Cardinality({j \in kept : j <= i})
  <2>1. /\ \A i \in kept : rank(i) \in 1..N
        /\ \A i, k \in kept : rank(i) = rank(k) => i = k
        /\ \A k \in 1..N : \E i \in kept : rank(i) = k
    <3>. HIDE DEF kept
    <3>. QED
      BY <1>2, Counting
  <2>2. \A k : place(k) = CHOOSE i \in kept : rank(i) = k
    OBVIOUS
  <2>. HIDE DEF kept, rank, place, N
  <2>3. \A k \in 1..N : place(k) \in kept /\ rank(place(k)) = k
    BY <2>1, <2>2
  <2>4. \A i \in kept : place(rank(i)) = i
    <3>. SUFFICES ASSUME NEW i \in kept
                  PROVE  place(rank(i)) = i
      OBVIOUS
    <3>1. place(rank(i)) \in kept /\ rank(place(rank(i))) = rank(i)
      BY <2>1, <2>3
    <3>. QED
      BY <2>1, <3>1
  <2>. QED
    BY <2>1, <2>3, <2>4
<1>5. Summary(data) \in Entry /\ IsSummary(Summary(data))
  BY DEF Entry, Summary, IsSummary
<1>6. \A j \in DOMAIN history \ (G \cup Summaries(history)) : history[j] \in Entry /\ ~IsSummary(history[j])
  BY Entries DEF Summaries, IsSummary
<1>. HIDE DEF kept, place, N
<1>7. /\ DOMAIN R = 1..N
      /\ \A k \in 1..N : IF place(k) = First(G) THEN R[k] = Summary(data)
                         ELSE R[k] = history[place(k)] /\ R[k] \in rest /\ R[k] \in Entry /\ ~IsSummary(R[k])
  BY <1>3, <1>4, <1>6
<1>8. R \in Seq(Entry)
  <2>1. \A k \in 1..N : R[k] \in Entry
    BY <1>5, <1>7
  <2>2. R \in [1..N -> Entry]
    BY <2>1
  <2>. HIDE DEF R
  <2>. QED
    BY <1>2, <2>2
<1>9. OneSummary(R)
  <2>1. \A k \in Summaries(R) : k \in 1..N /\ place(k) = First(G)
    BY <1>7 DEF Summaries, IsSummary
  <2>. QED
    BY <1>4, <2>1 DEF OneSummary
<1>10. Range(R) \subseteq {Summary(data)} \cup rest
  BY <1>7 DEF Range
<1>11. Summary(data) \in Range(R)
  <2>1. PICK k \in 1..N : place(k) = First(G)
    BY <1>3, <1>4
  <2>. QED
    BY <1>7, <2>1 DEF Range
<1>12. ASSUME NEW j \in DOMAIN history \ (G \cup Summaries(history))
       PROVE  history[j] \in Range(R)
  <2>1. j \in kept /\ j # First(G)
    BY DEF kept
  <2>2. PICK k \in 1..N : place(k) = j
    BY <1>4, <2>1
  <2>. QED
    BY <1>7, <2>1, <2>2 DEF Range
<1>. QED
  BY <1>1, <1>8, <1>9, <1>10, <1>11, <1>12

-----------------------------------------------------------------------------
(* The steps, one lemma for each kind *)

\* The first state is in order.
LEMMA InitHolds == Init => CInv
<1>. SUFFICES ASSUME Init PROVE CInv
  OBVIOUS
<1>1. 1 \in Keep /\ MaxCalls \in Nat /\ MaxAnswers \in Nat /\ MaxCrash \in Nat
  BY CompactionAssumption
<1>2. Rows = {}
  BY DEF Init, Rows
<1>3. history = <<>> /\ stored = <<>> /\ <<>> \in Seq(Entry) /\ Range(<<>>) = {} /\ Summaries(<<>>) = {}
  BY DEF Init, Range, Summaries
<1>4. HistoryOK(<<>>, outputs, 0, {}, TRUE)
  BY <1>3 DEF HistoryOK, Good, OneSummary, Told
<1>5. HistoriesOK
  BY <1>3, <1>4 DEF HistoriesOK, Init
<1>6. TypeOK
  <2>1. NoData \in Data
    BY DEF Data, NoData
  <2>2. old \subseteq Rows /\ Rows \subseteq Nat \ {0} /\ \A h \in Rows : outputs[h] \in Call
    BY <1>2 DEF Init
  <2>3. 0 \in 0..MaxCalls /\ 0 \in 0..MaxAnswers /\ 0 \in 0..MaxCrash
    BY <1>1
  <2>4. history \in Seq(Entry) /\ stored \in Seq(Entry)
    BY <1>3
  <2>5. /\ summary \in Data /\ saved \in Data /\ failing \in 0..MaxCalls /\ keep \in Keep
        /\ pc \in {"idle", "mask", "messages", "state"} /\ handles \subseteq Nat
        /\ calls \in 0..MaxCalls /\ answers \in 0..MaxAnswers /\ crashes \in 0..MaxCrash
        /\ torn \in BOOLEAN /\ slipped \subseteq Call
    BY <1>1, <2>1, <2>3 DEF Init
  <2>. QED
    BY <2>2, <2>4, <2>5 DEF TypeOK
<1>7. RowsOK
  BY <1>2, <1>3 DEF RowsOK, Init, NoData, Shown
<1>8. PhaseOK /\ SummaryOK
  BY <1>3 DEF PhaseOK, SummaryOK, Init, NoData, Says, Offers
<1>. QED
  BY <1>5, <1>6, <1>7, <1>8 DEF CInv

\* Nothing is lost from Rows: what the two histories and the summaries show is still there.
LEMMA ShownHasRows ==
  ASSUME CInv
  PROVE  /\ Shown(history) \subseteq Rows /\ Shown(stored) \subseteq Rows
         /\ saved.handles \subseteq Rows /\ summary.handles \subseteq Rows
BY DEF CInv, RowsOK, HistoriesOK, HistoryOK, Good, Shown, Rows

\* A history shows the handles of its summary.
LEMMA SummaryShows ==
  ASSUME NEW m \in Seq(Entry), NEW e \in Range(m), IsSummary(e)
  PROVE  e.data.handles \subseteq Shown(m) /\ e.data \in Data
<1>1. e \in Entry /\ e.data \in Data
  BY Entries, Kinds DEF IsSummary
<1>. QED
  BY <1>1 DEF Shown, HandlesOf, Data

\* A prune keeps every row that a history or the summary shows.
LEMMA PruneKeeps ==
  ASSUME CInv, Prune
  PROVE  CInv'
<1>1. Shown(stored) \subseteq Referenced /\ saved.handles \subseteq Referenced
  BY Reads DEF CInv, TypeOK, Referenced
<1>2. Shown(history) \subseteq Referenced \cup (Rows \ old)
  <2>1. CASE pc \in {"idle", "state"}
    BY <1>1, <2>1 DEF CInv, PhaseOK
  <2>2. CASE pc \in {"mask", "messages"}
    BY <1>1, <2>2 DEF CInv, RowsOK
  <2>. QED
    BY <2>1, <2>2 DEF CInv, TypeOK
<1>3. summary.handles \subseteq Referenced \cup (Rows \ old)
  <2>1. CASE pc \in {"idle", "mask"}
    BY <1>1, <2>1 DEF CInv, PhaseOK
  <2>2. CASE pc \in {"messages", "state"}
    BY <1>1, <2>2 DEF CInv, PhaseOK, RowsOK
  <2>. QED
    BY <2>1, <2>2 DEF CInv, TypeOK
<1>4. /\ Rows' = Rows \ (old \ Referenced) /\ \A h \in Rows' : outputs'[h] = outputs[h]
      /\ old' = old \cap Referenced
  BY DEF Prune, Rows
<1>5. UNCHANGED <<memory, stored, saved, counts, torn, slipped>>
  BY DEF Prune
<1>6. HistoriesOK'
  <2>1. HistoryOK(history, outputs', calls, slipped, ~torn)
    <3>1. \A h \in Shown(history) : h \in DOMAIN outputs' /\ outputs'[h] = outputs[h]
      BY <1>2, <1>4, ShownHasRows DEF Rows
    <3>. QED
      BY <3>1, RowsKept DEF CInv, HistoriesOK
  <2>2. HistoryOK(stored, outputs', calls, slipped, ~torn)
    <3>1. \A h \in Shown(stored) : h \in DOMAIN outputs' /\ outputs'[h] = outputs[h]
      BY <1>1, <1>4, ShownHasRows DEF Rows
    <3>. QED
      BY <3>1, RowsKept DEF CInv, HistoriesOK
  <2>. QED
    BY <1>5, <2>1, <2>2 DEF HistoriesOK, memory, counts
<1>7. RowsOK'
  <2>1. \E bound \in Nat : \A h \in Rows' : h <= bound
    BY <1>4 DEF CInv, RowsOK
  <2>2. saved.handles \subseteq Rows' /\ summary.handles \subseteq Rows'
    BY <1>1, <1>3, <1>4, ShownHasRows
  <2>3. pc # "idle" => handles \subseteq Rows' \ old'
    BY <1>4 DEF CInv, RowsOK
  <2>. QED
    BY <1>5, <2>1, <2>2, <2>3 DEF CInv, RowsOK, memory
<1>8. TypeOK'
  BY <1>4, <1>5 DEF CInv, TypeOK, memory, counts, Rows
<1>9. PhaseOK' /\ SummaryOK'
  BY <1>5 DEF CInv, PhaseOK, SummaryOK, memory, counts
<1>. QED
  BY <1>6, <1>7, <1>8, <1>9 DEF CInv

\* Days go by between compactions.
LEMMA AgeKeeps ==
  ASSUME CInv, Age
  PROVE  CInv'
<1>1. UNCHANGED <<memory, stored, saved, outputs, counts, torn, slipped>> /\ old' = Rows /\ pc = "idle"
  BY DEF Age
<1>2. Rows' = Rows
  BY <1>1 DEF Rows
<1>3. TypeOK'
  BY <1>1, <1>2 DEF CInv, TypeOK, memory, counts
<1>4. RowsOK'
  BY <1>1, <1>2 DEF CInv, RowsOK, memory
<1>5. HistoriesOK' /\ PhaseOK' /\ SummaryOK'
  BY <1>1 DEF CInv, HistoriesOK, PhaseOK, SummaryOK, memory, counts
<1>. QED
  BY <1>3, <1>4, <1>5 DEF CInv

\* A user's message or an answer without calls is appended to both histories.
LEMMA PlainKeeps ==
  ASSUME CInv, pc = "idle", NEW e \in {User, Group(0, "none", 0)}, Append2(e), answers' \in 0..MaxAnswers,
         UNCHANGED <<summary, failing, pc, keep, handles, saved, outputs, old, calls, crashes, torn, slipped>>
  PROVE  CInv'
<1>1. /\ history' = Append(history, e) /\ stored' = Append(stored, e) /\ history = stored
      /\ Rows' = Rows
  BY DEF CInv, PhaseOK, Append2, Rows
<1>2. HistoryOK(history', outputs, calls, slipped, ~torn) /\ Shown(history') = Shown(history)
  BY <1>1, PlainAppended DEF CInv, HistoriesOK
<1>3. HistoriesOK'
  BY <1>1, <1>2 DEF HistoriesOK
<1>4. TypeOK'
  BY <1>1, <1>2 DEF CInv, TypeOK, HistoryOK
<1>5. PhaseOK' /\ RowsOK'
  BY <1>1, <1>2 DEF CInv, PhaseOK, RowsOK
<1>6. SummaryOK'
  <2>1. e \in Entry /\ ~IsSummary(e) /\ history \in Seq(Entry)
    BY CompactionAssumption DEF Entry, User, Group, IsSummary, CInv, TypeOK
  <2>2. Range(history') = Range(history) \cup {e}
    BY <1>1, <2>1, Appended
  <2>3. ~torn => Says(history', summary) /\ Says(stored', saved) /\ Offers(stored', history')
    BY <1>1, <2>1, <2>2 DEF CInv, SummaryOK, Says, Offers
  <2>. QED
    BY <2>3 DEF CInv, SummaryOK
<1>. QED
  BY <1>3, <1>4, <1>5, <1>6 DEF CInv

\* A call runs: a large output is stored, a huge one is cut and cites its handle.
LEMMA ToolCallKeeps ==
  ASSUME CInv, NEW size, NEW check, ToolCall(size, check)
  PROVE  CInv'
<1>. DEFINE h == NewHandle
            e == IF size = "huge" THEN Group(calls + 1, "cut", h) ELSE Group(calls + 1, "whole", 0)
<1>1. /\ pc = "idle" /\ calls \in Nat /\ calls + 1 \in Call /\ calls' = calls + 1 /\ history = stored
      /\ history' = Append(history, e) /\ stored' = Append(stored, e)
      /\ UNCHANGED <<summary, pc, keep, handles, saved, answers, crashes, torn, slipped>>
  BY CompactionAssumption DEF CInv, TypeOK, PhaseOK, ToolCall, Append2, Call
<1>2. TypeOK /\ RowsOK /\ HistoryOK(history, outputs, calls, slipped, ~torn)
  BY DEF CInv, HistoriesOK
<1>3. h \in Nat
  BY <1>2, NewHandleIsNew
<1>4. /\ Rows \subseteq Rows' /\ \A g \in Rows : outputs'[g] = outputs[g]
      /\ size # "short" => h \in Rows' /\ outputs'[h] = calls + 1
      /\ old' \subseteq Rows' /\ old' \subseteq old /\ \E bound \in Nat : \A g \in Rows' : g <= bound
      /\ Rows' \subseteq Nat \ {0} /\ \A g \in Rows' : outputs'[g] \in Call
  <2>1. CASE size = "short"
    <3>1. UNCHANGED <<outputs, old>> /\ Rows' = Rows
      BY <2>1 DEF ToolCall, Rows
    <3>. QED
      BY <1>2, <2>1, <3>1 DEF TypeOK, RowsOK
  <2>2. CASE size # "short"
    <3>1. Put(calls + 1)
      BY <2>2 DEF ToolCall
    <3>. QED
      BY <1>1, <1>2, <3>1, Stored
  <2>. QED
    BY <2>1, <2>2
<1>5. HistoryOK(history, outputs', calls, slipped, ~torn)
  <2>1. \A g \in Shown(history) : g \in DOMAIN outputs' /\ outputs'[g] = outputs[g]
    BY <1>4, ShownHasRows DEF Rows
  <2>. QED
    BY <1>2, <2>1, RowsKept
<1>6. /\ e \in {Group(calls + 1, "whole", 0), Group(calls + 1, "cut", h)}
      /\ Cites(e) => h \in DOMAIN outputs' /\ outputs'[h] = calls + 1
      /\ Cites(e) => HandlesOf(e) = {h}
      /\ e \in Entry /\ ~IsSummary(e)
  <2>1. size = "huge" => h \in DOMAIN outputs' /\ outputs'[h] = calls + 1
    BY <1>4 DEF Rows
  <2>2. size # "huge" => ~Cites(e)
    BY DEF Cites, Group
  <2>3. e \in Entry /\ ~IsSummary(e)
    BY <1>1, <1>3 DEF Entry, Group, IsSummary
  <2>4. Cites(e) => HandlesOf(e) = {h}
    BY <1>3 DEF Cites, Group, HandlesOf, IsSummary
  <2>. QED
    BY <2>1, <2>2, <2>3, <2>4
<1>. HIDE DEF e, h
<1>7. HistoryOK(history', outputs', calls', slipped, ~torn)
  BY <1>1, <1>3, <1>5, <1>6, CallAppended
<1>8. HistoriesOK'
  BY <1>1, <1>7 DEF HistoriesOK
<1>9. PhaseOK'
  BY <1>1 DEF CInv, PhaseOK
<1>10. RowsOK'
  BY <1>1, <1>4, ShownHasRows DEF RowsOK
<1>11. TypeOK'
  <2>1. failing' \in 0..MaxCalls
    <3>1. calls + 1 \in 0..MaxCalls /\ 0 \in 0..MaxCalls
      BY <1>1, CompactionAssumption DEF Call
    <3>2. failing' = CASE check = "fails" -> calls + 1 [] check = "passes" -> 0 [] OTHER -> failing
      BY DEF ToolCall
    <3>. QED
      BY <1>2, <3>1, <3>2 DEF TypeOK
  <2>2. calls' \in 0..MaxCalls /\ history' \in Seq(Entry) /\ stored' \in Seq(Entry)
    BY <1>1, <1>7, CompactionAssumption DEF HistoryOK, Call
  <2>. QED
    BY <1>1, <1>2, <1>4, <2>1, <2>2 DEF TypeOK
<1>12. SummaryOK'
  <2>1. Range(history') = Range(history) \cup {e}
    BY <1>1, <1>2, <1>6, Appended DEF TypeOK
  <2>2. ~torn => Says(history', summary) /\ Says(stored', saved) /\ Offers(stored', history')
    BY <1>1, <1>6, <2>1 DEF CInv, SummaryOK, Says, Offers
  <2>3. summary.calls \subseteq 1..calls' /\ saved.calls \subseteq 1..calls'
    BY <1>1 DEF CInv, SummaryOK
  <2>. QED
    BY <1>1, <2>2, <2>3 DEF SummaryOK
<1>. QED
  BY <1>8, <1>9, <1>10, <1>11, <1>12 DEF CInv

\* A compaction begins.
LEMMA OverKeeps ==
  ASSUME CInv, NEW k \in Keep, Over(k)
  PROVE  CInv'
<1>1. /\ pc = "idle" /\ pc' = "mask" /\ keep' = k /\ handles' = {} /\ history = stored
      /\ UNCHANGED <<history, summary, failing, disk, counts, torn, slipped>>
  BY DEF Over, CInv, PhaseOK
<1>2. Rows' = Rows
  BY <1>1 DEF Rows, disk
<1>3. TypeOK'
  BY <1>1, <1>2 DEF CInv, TypeOK, disk, counts
<1>4. HistoriesOK' /\ SummaryOK'
  BY <1>1 DEF CInv, HistoriesOK, SummaryOK, disk, counts
<1>5. PhaseOK' /\ RowsOK'
  BY <1>1, <1>2 DEF CInv, PhaseOK, RowsOK, disk
<1>. QED
  BY <1>3, <1>4, <1>5 DEF CInv

\* Masking was enough.
LEMMA KeepGroupsKeeps ==
  ASSUME CInv, KeepGroups
  PROVE  CInv'
<1>1. /\ pc = "mask" /\ (handles # {} => pc' = "messages") /\ (handles = {} => pc' = "idle")
      /\ UNCHANGED <<history, summary, failing, keep, handles, disk, counts, torn, slipped>>
      /\ saved = summary
  BY DEF KeepGroups, CInv, PhaseOK
<1>2. Rows' = Rows /\ pc' \in {"messages", "idle"}
  BY <1>1 DEF Rows, disk
<1>3. TypeOK'
  BY <1>1, <1>2 DEF CInv, TypeOK, disk, counts
<1>4. HistoriesOK' /\ SummaryOK'
  BY <1>1, <1>2 DEF CInv, HistoriesOK, SummaryOK, disk, counts
<1>5. PhaseOK'
  BY <1>1, <1>2 DEF CInv, PhaseOK, disk
<1>6. RowsOK'
  BY <1>1, <1>2 DEF CInv, RowsOK, disk
<1>. QED
  BY <1>3, <1>4, <1>5, <1>6 DEF CInv

\* The messages are replaced in the store.
LEMMA StoreMessagesKeeps ==
  ASSUME CInv, StoreMessages
  PROVE  CInv'
<1>1. /\ pc = "messages" /\ stored' = history /\ pc' = "state"
      /\ UNCHANGED <<history, summary, failing, keep, handles, saved, outputs, old, counts, torn, slipped>>
  BY DEF StoreMessages
<1>2. Rows' = Rows
  BY <1>1 DEF Rows
<1>3. TypeOK'
  BY <1>1, <1>2 DEF CInv, TypeOK, counts
<1>4. HistoriesOK'
  BY <1>1 DEF CInv, HistoriesOK, counts
<1>5. SummaryOK'
  BY <1>1 DEF CInv, SummaryOK, Offers, counts
<1>6. PhaseOK' /\ RowsOK'
  BY <1>1, <1>2 DEF CInv, PhaseOK, RowsOK
<1>. QED
  BY <1>3, <1>4, <1>5, <1>6 DEF CInv

\* The summary is written.
LEMMA StoreStateKeeps ==
  ASSUME CInv, StoreState
  PROVE  CInv'
<1>1. /\ pc = "state" /\ saved' = summary /\ pc' = "idle" /\ history = stored
      /\ UNCHANGED <<history, summary, failing, keep, handles, stored, outputs, old, counts, torn, slipped>>
  BY DEF StoreState, CInv, PhaseOK
<1>2. Rows' = Rows
  BY <1>1 DEF Rows
<1>3. TypeOK'
  BY <1>1, <1>2 DEF CInv, TypeOK, counts
<1>4. HistoriesOK' /\ SummaryOK'
  BY <1>1 DEF CInv, HistoriesOK, SummaryOK, counts
<1>5. PhaseOK' /\ RowsOK'
  BY <1>1, <1>2 DEF CInv, PhaseOK, RowsOK
<1>. QED
  BY <1>3, <1>4, <1>5 DEF CInv

\* The process ends anywhere, and the next one begins with what is stored.
LEMMA RestartKeeps ==
  ASSUME CInv, Restart
  PROVE  CInv'
<1>1. /\ crashes < MaxCrash /\ crashes' = crashes + 1 /\ history' = stored /\ summary' = saved
      /\ failing' = 0 /\ pc' = "idle" /\ keep' = 1 /\ handles' = {}
      /\ torn' = (torn \/ (pc = "state" /\ saved # summary))
      /\ UNCHANGED <<disk, calls, answers, slipped>>
  BY DEF Restart
<1>2. Rows' = Rows /\ UNCHANGED <<stored, saved, outputs, old>>
  BY <1>1 DEF Rows, disk
<1>3. ~torn' => ~torn /\ (pc = "state" => saved = summary)
  BY <1>1 DEF CInv, TypeOK
<1>4. TypeOK'
  <2>1. crashes' \in 0..MaxCrash /\ keep' \in Keep /\ failing' \in 0..MaxCalls
    BY <1>1, CompactionAssumption DEF CInv, TypeOK
  <2>2. torn' \in BOOLEAN
    BY <1>1
  <2>. QED
    BY <1>1, <1>2, <2>1, <2>2 DEF CInv, TypeOK
<1>5. HistoriesOK'
  <2>1. HistoryOK(stored, outputs, calls, slipped, ~torn')
    BY <1>3 DEF CInv, HistoriesOK, HistoryOK
  <2>. QED
    BY <1>1, <1>2, <2>1 DEF HistoriesOK
<1>6. SummaryOK'
  <2>1. ~torn' => Says(stored, saved)
    BY <1>3 DEF CInv, SummaryOK, PhaseOK
  <2>2. Offers(stored, stored)
    BY DEF Offers
  <2>. QED
    BY <1>1, <1>2, <2>1, <2>2 DEF CInv, SummaryOK
<1>7. PhaseOK' /\ RowsOK'
  BY <1>1, <1>2 DEF CInv, PhaseOK, RowsOK
<1>. QED
  BY <1>4, <1>5, <1>6, <1>7 DEF CInv

\* An output is masked.
LEMMA MaskKeeps ==
  ASSUME CInv, Mask
  PROVE  CInv'
<1>a. PICK i : i = First(Maskable(keep))
  OBVIOUS
<1>b. PICK h : h = NewHandle
  OBVIOUS
<1>1. TypeOK /\ RowsOK /\ HistoryOK(history, outputs, calls, slipped, ~torn) /\ history \in Seq(Entry)
  BY DEF CInv, HistoriesOK, TypeOK
<1>2. i \in Tools(history) /\ history[i].call \in Call /\ DOMAIN history \subseteq Nat
  <2>1. Maskable(keep) \subseteq Tools(history) /\ Tools(history) \subseteq DOMAIN history
    BY DEF Maskable, Tools, Groups
  <2>2. DOMAIN history \subseteq Nat
    BY <1>1, Entries
  <2>3. i \in Maskable(keep)
    <3>1. Maskable(keep) # {} /\ Maskable(keep) \in SUBSET Nat
      BY <2>1, <2>2 DEF Mask
    <3>. QED
      BY <3>1, <1>a, FirstIsOne
  <2>4. history[i].call \in Call
    BY <1>1, <2>1, <2>3, Entries, Kinds DEF Tools, Groups
  <2>. QED
    BY <2>1, <2>2, <2>3, <2>4
<1>3. /\ pc = "mask" /\ saved = summary
      /\ Put(history[i].call) /\ history' = [history EXCEPT ![i] = Group(history[i].call, "stub", h)]
      /\ handles' = handles \cup {h}
      /\ UNCHANGED <<summary, failing, pc, keep, stored, saved, counts, torn, slipped>>
  BY <1>a, <1>b DEF Mask, CInv, PhaseOK
<1>4. /\ h \in Nat \ {0} /\ h \notin Rows /\ Rows' = Rows \cup {h}
      /\ DOMAIN outputs' = DOMAIN outputs \cup {h}
      /\ outputs'[h] = history[i].call /\ \A g \in Rows : outputs'[g] = outputs[g]
      /\ old' \subseteq Rows /\ old' \subseteq old /\ h \notin old'
      /\ \E bound \in Nat : \A g \in Rows' : g <= bound
      /\ Rows' \subseteq Nat \ {0} /\ \A g \in Rows' : outputs'[g] \in Call
  BY <1>b, <1>1, <1>2, <1>3, Stored
<1>5. /\ HistoryOK(history', outputs', calls, slipped, ~torn)
      /\ Shown(history') \subseteq Shown(history) \cup {h}
      /\ Says(history, summary) => Says(history', summary)
      /\ Offers(stored, history) => Offers(stored, history')
  <2>1. h \in Nat /\ h \notin DOMAIN outputs /\ \A g \in DOMAIN outputs : outputs'[g] = outputs[g]
    BY <1>4 DEF Rows
  <2>2. i \in DOMAIN history /\ Group(history[i].call, "stub", h) \in Entry
    BY <1>2, <2>1 DEF Tools, Groups, Entry, Group
  <2>3. /\ DOMAIN history' = DOMAIN history /\ history'[i] = Group(history[i].call, "stub", h)
        /\ \A j \in DOMAIN history : j # i => history'[j] = history[j]
    BY <1>3, <2>2
  <2>4. history' \in Seq(Entry)
    <3>1. history \in [1..Len(history) -> Entry] /\ Len(history) \in Nat
      BY <1>1, Entries
    <3>2. history' \in [1..Len(history) -> Entry]
      BY <1>3, <2>2, <3>1
    <3>. QED
      BY <3>1, <3>2
  <2>5. Stubbed(history, i, h, outputs, history', outputs')
    BY <1>2, <1>4, <2>1, <2>3, <2>4 DEF Stubbed
  <2>. QED
    BY <1>1, <2>5, Masked
<1>6. HistoryOK(stored, outputs', calls, slipped, ~torn)
  <2>1. \A g \in Shown(stored) : g \in DOMAIN outputs' /\ outputs'[g] = outputs[g]
    BY <1>4, ShownHasRows DEF Rows
  <2>. QED
    BY <2>1, RowsKept DEF CInv, HistoriesOK
<1>7. HistoriesOK'
  BY <1>3, <1>5, <1>6 DEF HistoriesOK, counts
<1>8. SummaryOK'
  BY <1>3, <1>5 DEF CInv, SummaryOK, counts
<1>9. PhaseOK'
  BY <1>3 DEF PhaseOK
<1>10. RowsOK'
  <2>1. handles' \subseteq Rows' \ old'
    BY <1>1, <1>3, <1>4 DEF RowsOK
  <2>2. Shown(history') \subseteq Shown(stored) \cup saved.handles \cup handles'
    BY <1>1, <1>3, <1>5 DEF RowsOK
  <2>. QED
    BY <1>1, <1>3, <1>4, <2>1, <2>2 DEF RowsOK
<1>11. TypeOK'
  <2>1. handles' \subseteq Nat /\ old' \subseteq Rows'
    BY <1>1, <1>3, <1>4 DEF TypeOK
  <2>2. history' \in Seq(Entry)
    BY <1>5 DEF HistoryOK
  <2>. QED
    BY <1>1, <1>3, <1>4, <2>1, <2>2 DEF TypeOK, counts
<1>. QED
  BY <1>7, <1>8, <1>9, <1>10, <1>11 DEF CInv

\* Groups are dropped: what each tells, and the output of each that is not a stub, goes to the
\* summary; a stub takes along a handle that is in no list.
LEMMA DropKeeps ==
  ASSUME CInv, NEW n \in 1..Cardinality(Groups(history)), DropGroups(n)
  PROVE  CInv'
<1>. DEFINE G == Oldest(n)
            data == Absorbed(G)
            new == {HandleOf(G, i) : i \in Unmasked(G)}
            rows == [h \in new |-> history[CHOOSE i \in Unmasked(G) : HandleOf(G, i) = h].call]
            rest == {history[j] : j \in DOMAIN history \ (G \cup Summaries(history))}
<1>1. /\ TypeOK /\ RowsOK /\ HistoryOK(history, outputs, calls, slipped, ~torn) /\ history \in Seq(Entry)
      /\ SummaryOK /\ summary \in Data /\ calls \in 0..MaxCalls
  BY DEF CInv, HistoriesOK, TypeOK
<1>2. /\ pc = "mask" /\ pc' = "messages" /\ saved = summary
      /\ n \in 1..Cardinality(Groups(history)) - 1
      /\ AddRows(rows) /\ old' = old \ new /\ handles' = handles \cup new
      /\ history' = Rebuilt(G, data) /\ summary' = data
      /\ slipped' = slipped \cup
           {history[i].call : i \in {j \in G \cap Tools(history) :
                                      history[j].form = "stub" /\ history[j].handle \notin data.handles}}
      /\ UNCHANGED <<failing, keep, stored, saved, counts, torn>>
  BY DEF DropGroups, CInv, PhaseOK
<1>3. G \subseteq Groups(history) /\ First(G) \in G /\ G \in SUBSET DOMAIN history
  BY <1>1, <1>2, OldestIsOne DEF Groups
<1>4. \A i \in G \cap Tools(history) : /\ history[i] \in Entry /\ history[i] \in Range(history) /\ history[i].kind = "group"
                                       /\ history[i].call \in Call /\ history[i].call \in CallsOf(history[i])
  BY <1>1, Entries, Kinds DEF Tools, Groups, CallsOf
<1>5. \A i \in Unmasked(G) : i \in G \cap Tools(history) /\ history[i].form # "stub"
  BY DEF Unmasked
<1>6. /\ NewHandle \in Nat \ {0} /\ \A g \in Rows : g < NewHandle
      /\ \A i \in Unmasked(G) : /\ HandleOf(G, i) \in Nat /\ HandleOf(G, i) >= NewHandle
                                /\ HandleOf(G, i) <= NewHandle + Len(history)
      /\ \A i, j \in Unmasked(G) : HandleOf(G, i) = HandleOf(G, j) => i = j
      /\ Len(history) \in Nat /\ Rows \subseteq Nat
  BY <1>1, <1>3, NewHandleIsNew, HandlesApart, Entries DEF TypeOK
<1>7. DOMAIN rows = new /\ \A i \in Unmasked(G) : rows[HandleOf(G, i)] = history[i].call
  BY <1>6
<1>8. new \subseteq Nat \ {0} /\ new \cap Rows = {} /\ \A h \in new : h <= NewHandle + Len(history)
  BY <1>6
<1>9. /\ Rows' = Rows \cup new
      /\ \A h \in Rows : outputs'[h] = outputs[h]
      /\ \A h \in new : outputs'[h] = rows[h]
  <2>. HIDE DEF rows, new
  <2>. QED
    BY <1>2, <1>7, <1>8, Added
<1>10. \A i \in Unmasked(G) : HandleOf(G, i) \in new /\ outputs'[HandleOf(G, i)] = history[i].call
  <2>. HIDE DEF rows
  <2>. QED
    BY <1>7, <1>9
<1>11. /\ data.calls = summary.calls \cup {history[i].call : i \in G \cap Tools(history)}
       /\ data.handles = summary.handles \cup handles \cup new
       /\ data \in Data
  <2>1. data = [count |-> summary.count + 1,
                calls |-> summary.calls \cup {history[i].call : i \in G \cap Tools(history)},
                handles |-> summary.handles \cup handles \cup new]
    BY DEF Absorbed
  <2>2. {history[i].call : i \in G \cap Tools(history)} \subseteq Call
    BY <1>4
  <2>3. handles \subseteq Nat /\ summary.handles \subseteq Nat /\ summary.calls \subseteq Call /\ summary.count + 1 \in Nat
    BY <1>1 DEF TypeOK, Data
  <2>. HIDE DEF new, data
  <2>. QED
    BY <1>8, <2>1, <2>2, <2>3 DEF Data
<1>12. \A i \in Unmasked(G) : HandleOf(G, i) \in data.handles
  BY <1>10, <1>11
<1>. HIDE DEF G, data, new, rows
<1>13. /\ history' \in Seq(Entry) /\ OneSummary(history') /\ Range(history') = {Summary(data)} \cup rest
  BY <1>1, <1>2, <1>3, <1>11, RebuiltIs
<1>14. IsSummary(Summary(data)) /\ ~Cites(Summary(data)) /\ Summary(data) \in Range(history')
       /\ HandlesOf(Summary(data)) = data.handles /\ CallsOf(Summary(data)) = data.calls
       /\ Summary(data).data = data
  BY <1>11, <1>13 DEF IsSummary, Cites, Summary, HandlesOf, CallsOf, Data
<1>15. \A e \in rest : e \in Range(history) /\ e \in Range(history') /\ ~IsSummary(e)
  BY <1>1, <1>13, Entries DEF Summaries, IsSummary
<1>16. ASSUME NEW e \in Range(history)
       PROVE  e \in rest \/ IsSummary(e) \/ \E j \in G : e = history[j] /\ e.kind = "group"
  BY <1>1, <1>3, Entries DEF Summaries, IsSummary, Groups
<1>. HIDE DEF rest
<1>17. /\ data.handles \subseteq Rows' /\ handles' \subseteq Rows' \ old' /\ old' \subseteq Rows'
       /\ summary.handles \subseteq Rows /\ saved.handles \subseteq Rows'
  BY <1>1, <1>2, <1>8, <1>9, <1>11 DEF RowsOK, TypeOK
<1>18. Good(history', outputs')
  <2>1. ASSUME NEW e \in rest
        PROVE  HandlesOf(e) \subseteq DOMAIN outputs' /\ (Cites(e) => outputs'[e.handle] = e.call)
    <3>1. /\ e \in Range(history) /\ e \in Entry /\ HandlesOf(e) \subseteq Rows
          /\ (Cites(e) => outputs[e.handle] = e.call)
      BY <1>1, <1>15, Entries DEF HistoryOK, Good, Rows
    <3>2. Cites(e) => e.handle \in HandlesOf(e)
      BY <3>1, Kinds DEF HandlesOf, Cites
    <3>. QED
      BY <1>9, <3>1, <3>2 DEF Rows
  <2>2. HandlesOf(Summary(data)) \subseteq DOMAIN outputs'
    BY <1>14, <1>17 DEF Rows
  <2>. QED
    BY <1>13, <1>14, <2>1, <2>2 DEF Good
<1>19. data.calls \subseteq 1..calls
  <2>1. \A i \in G \cap Tools(history) : history[i].call \in Told(history)
    BY <1>4 DEF Told
  <2>. QED
    BY <1>1, <1>11, <2>1 DEF SummaryOK, HistoryOK
<1>20. Told(history') \subseteq 1..calls
  <2>1. \A e \in rest : CallsOf(e) \subseteq Told(history)
    BY <1>15 DEF Told, CallsOf
  <2>. QED
    BY <1>1, <1>13, <1>14, <1>19, <2>1 DEF Told, HistoryOK
<1>21. ASSUME ~torn, NEW c \in Told(history)
       PROVE  c \in Told(history')
  <2>1. PICK e \in Range(history) : c \in CallsOf(e) /\ c \in Call
    BY DEF Told
  <2>2. CASE e \in rest
    BY <1>15, <2>1, <2>2 DEF Told
  <2>3. CASE IsSummary(e)
    <3>1. e.data = summary /\ e.kind # "group"
      BY <1>1, <1>21, <2>3 DEF SummaryOK, Says, IsSummary
    <3>2. c \in data.calls
      BY <1>11, <2>1, <3>1 DEF CallsOf
    <3>. QED
      BY <1>14, <2>1, <3>2 DEF Told
  <2>4. CASE \E j \in G : e = history[j] /\ e.kind = "group"
    <3>1. PICK j \in G : e = history[j] /\ e.kind = "group"
      BY <2>4
    <3>2. c = e.call /\ c # 0
      BY <2>1, <3>1, CompactionAssumption DEF CallsOf, IsSummary, Call
    <3>3. j \in G \cap Tools(history)
      BY <1>3, <3>1, <3>2 DEF Tools
    <3>4. c \in data.calls
      BY <1>11, <3>1, <3>2, <3>3
    <3>. QED
      BY <1>14, <2>1, <3>4 DEF Told
  <2>. QED
    BY <1>16, <2>2, <2>3, <2>4
<1>22. ASSUME NEW h \in data.handles, h \in Nat
       PROVE  Reach(history', outputs', outputs'[h])
  <2>1. h \in HandlesOf(Summary(data)) /\ h \in DOMAIN outputs'
    BY <1>14, <1>17 DEF Rows
  <2>. QED
    BY <1>14, <2>1 DEF Reach
<1>23. ASSUME ~torn, NEW c \in (1..calls) \ slipped', Reach(history, outputs, c)
       PROVE  Reach(history', outputs', c)
  <2>1. PICK e \in Range(history) : Whole(e, c) \/ \E h \in HandlesOf(e) : h \in Rows /\ outputs[h] = c
    BY <1>23 DEF Reach, Rows
  <2>2. CASE e \in rest
    <3>1. Whole(e, c) \/ \E h \in HandlesOf(e) : h \in DOMAIN outputs' /\ outputs'[h] = c
      BY <1>9, <2>1 DEF Rows
    <3>. QED
      BY <1>15, <2>2, <3>1 DEF Reach
  <2>3. CASE IsSummary(e)
    <3>1. e.data = summary /\ ~Whole(e, c) /\ ~Cites(e)
      BY <1>1, <1>23, <2>3 DEF SummaryOK, Says, IsSummary, Whole, Cites
    <3>2. PICK h \in HandlesOf(e) : h \in Rows /\ outputs[h] = c
      BY <2>1, <3>1
    <3>3. h \in data.handles /\ h \in Nat /\ outputs'[h] = c
      BY <1>9, <1>11, <3>1, <3>2 DEF HandlesOf
    <3>. QED
      BY <1>22, <3>3
  <2>4. CASE \E j \in G : e = history[j] /\ e.kind = "group"
    <3>1. PICK j \in G : e = history[j] /\ e.kind = "group"
      BY <2>4
    <3>2. e.call = c /\ c # 0 /\ e \in Entry
      <4>1. e \in Entry /\ c # 0
        BY <1>1, Entries
      <4>2. CASE Whole(e, c)
        BY <4>1, <4>2 DEF Whole
      <4>3. CASE \E h \in HandlesOf(e) : h \in Rows /\ outputs[h] = c
        <5>1. PICK h \in HandlesOf(e) : outputs[h] = c
          BY <4>3
        <5>2. Cites(e) /\ h = e.handle
          BY <3>1, <5>1 DEF HandlesOf, IsSummary
        <5>3. outputs[e.handle] = e.call
          BY <1>1, <5>2 DEF HistoryOK, Good
        <5>. QED
          BY <4>1, <5>1, <5>2, <5>3
      <4>. QED
        BY <2>1, <4>2, <4>3
    <3>3. j \in G \cap Tools(history)
      BY <1>3, <3>1, <3>2 DEF Tools
    <3>4. CASE e.form # "stub"
      <4>1. j \in Unmasked(G)
        BY <3>1, <3>3, <3>4 DEF Unmasked
      <4>2. HandleOf(G, j) \in data.handles /\ HandleOf(G, j) \in Nat /\ outputs'[HandleOf(G, j)] = c
        BY <1>6, <1>10, <1>12, <3>1, <3>2, <4>1
      <4>. QED
        BY <1>22, <4>2
    <3>5. CASE e.form = "stub"
      <4>1. Cites(e) /\ e.handle \in Nat
        BY <3>1, <3>2, <3>5, Kinds DEF Cites
      <4>2. e.handle \in data.handles
        BY <1>2, <1>23, <3>1, <3>2, <3>3, <3>5
      <4>3. e.handle \in Rows /\ outputs[e.handle] = c
        <5>1. e.handle \in HandlesOf(e)
          BY <4>1 DEF HandlesOf
        <5>. QED
          BY <1>1, <3>2, <4>1, <5>1 DEF HistoryOK, Good, Rows
      <4>4. outputs'[e.handle] = c
        BY <1>9, <4>3
      <4>. QED
        BY <1>22, <4>1, <4>2, <4>4
    <3>. QED
      BY <3>4, <3>5
  <2>. QED
    BY <1>16, <2>2, <2>3, <2>4
<1>24. HistoryOK(history', outputs', calls, slipped', ~torn)
  <2>1. ~torn => 1..calls \subseteq Told(history')
    BY <1>1, <1>21 DEF HistoryOK
  <2>2. slipped \subseteq slipped'
    BY <1>2
  <2>3. ~torn => \A c \in (1..calls) \ slipped' : Reach(history', outputs', c)
    BY <1>1, <1>23, <2>2 DEF HistoryOK
  <2>. QED
    BY <1>13, <1>18, <1>20, <2>1, <2>3 DEF HistoryOK
<1>25. HistoryOK(stored, outputs', calls, slipped', ~torn)
  <2>1. \A h \in Shown(stored) : h \in DOMAIN outputs' /\ outputs'[h] = outputs[h]
    BY <1>9, ShownHasRows DEF Rows
  <2>2. slipped \subseteq slipped'
    BY <1>2
  <2>. QED
    BY <2>1, <2>2, RowsKept DEF CInv, HistoriesOK
<1>26. HistoriesOK'
  BY <1>2, <1>24, <1>25 DEF HistoriesOK, counts
<1>27. PhaseOK'
  BY <1>2, <1>11 DEF PhaseOK
<1>28. RowsOK'
  <2>1. \E bound \in Nat : \A h \in Rows' : h <= bound
    <3>1. NewHandle + Len(history) \in Nat /\ \A h \in Rows' : h <= NewHandle + Len(history)
      BY <1>6, <1>8, <1>9
    <3>. QED
      BY <3>1
  <2>2. Shown(history') \subseteq Shown(stored) \cup saved.handles \cup handles'
    <3>1. \A e \in rest : HandlesOf(e) \subseteq Shown(history)
      BY <1>15 DEF Shown, HandlesOf
    <3>2. HandlesOf(Summary(data)) \subseteq saved.handles \cup handles'
      BY <1>2, <1>11, <1>14
    <3>. QED
      BY <1>1, <1>2, <1>13, <3>1, <3>2 DEF RowsOK, Shown
  <2>. QED
    BY <1>2, <1>17, <2>1, <2>2 DEF RowsOK
<1>29. TypeOK'
  <2>1. \A h \in Rows' : outputs'[h] \in Call
    <3>1. \A h \in new : \E i \in Unmasked(G) : h = HandleOf(G, i)
      BY DEF new
    <3>2. \A h \in new : outputs'[h] \in Call
      BY <1>4, <1>5, <1>10, <3>1
    <3>. QED
      BY <1>1, <1>9, <3>2 DEF TypeOK
  <2>2. slipped' \subseteq Call
    BY <1>1, <1>2, <1>4 DEF TypeOK
  <2>3. handles' \subseteq Nat /\ Rows' \subseteq Nat \ {0}
    BY <1>1, <1>2, <1>8, <1>9 DEF TypeOK
  <2>. QED
    BY <1>1, <1>2, <1>11, <1>13, <1>17, <2>1, <2>2, <2>3 DEF TypeOK, counts
<1>30. SummaryOK'
  <2>1. Says(history', data)
    BY <1>13, <1>14, <1>15 DEF Says
  <2>2. ~torn => Offers(stored, history')
    <3>1. ASSUME ~torn, NEW e \in Range(stored), IsSummary(e)
          PROVE  e.data.handles \subseteq Summary(data).data.handles
      <4>1. e.data = summary
        BY <1>1, <1>2, <3>1 DEF SummaryOK, Says
      <4>. QED
        BY <1>11, <1>14, <4>1
    <3>. QED
      BY <1>14, <3>1 DEF Offers
  <2>. QED
    BY <1>1, <1>2, <1>19, <2>1, <2>2 DEF SummaryOK, counts
<1>. QED
  BY <1>26, <1>27, <1>28, <1>29, <1>30 DEF CInv

\* Every step keeps what the conversation and its summary are, in memory and in the store.
LEMMA StepKeeps == CInv /\ [Next]_vars => CInv'
<1>. SUFFICES ASSUME CInv, [Next]_vars PROVE CInv'
  OBVIOUS
<1>1. CASE UserMessage
  <2>1. answers' \in 0..MaxAnswers
    BY <1>1 DEF UserMessage, counts, CInv, TypeOK
  <2>. QED
    BY <1>1, <2>1, PlainKeeps DEF UserMessage, counts
<1>2. CASE Answer
  <2>1. answers' \in 0..MaxAnswers
    BY <1>2, CompactionAssumption DEF Answer, CInv, TypeOK
  <2>. QED
    BY <1>2, <2>1, PlainKeeps DEF Answer
<1>3. CASE \E kind \in Kind : ToolCall(kind[1], kind[2])
  BY <1>3, ToolCallKeeps
<1>4. CASE \E k \in Keep : Over(k)
  BY <1>4, OverKeeps
<1>5. CASE \E n \in 1..Cardinality(Groups(history)) : DropGroups(n)
  BY <1>5, DropKeeps
<1>6. CASE UNCHANGED vars
  <2>1. /\ UNCHANGED <<history, summary, failing, pc, keep, handles, stored, saved, outputs, old>>
        /\ UNCHANGED <<calls, answers, crashes, torn, slipped>>
    BY <1>6 DEF vars, memory, disk, counts
  <2>2. Rows' = Rows
    BY <2>1 DEF Rows
  <2>3. TypeOK'
    BY <2>1, <2>2 DEF CInv, TypeOK
  <2>4. HistoriesOK' /\ PhaseOK' /\ RowsOK' /\ SummaryOK'
    BY <2>1, <2>2 DEF CInv, HistoriesOK, PhaseOK, RowsOK, SummaryOK
  <2>. QED
    BY <2>3, <2>4 DEF CInv
<1>. QED
  BY <1>1, <1>2, <1>3, <1>4, <1>5, <1>6, MaskKeeps, KeepGroupsKeeps, StoreMessagesKeeps, StoreStateKeeps,
     PruneKeeps, AgeKeeps, RestartKeeps DEF Next

\* The conversation, its summary and the outputs they show agree in every reachable state.
THEOREM CompactionInvariant == Spec => []CInv
<1>1. CInv /\ [Next]_vars => CInv'
  BY StepKeeps
<1>. QED
  BY <1>1, InitHolds, PTL DEF Spec

-----------------------------------------------------------------------------
(* Parts of outputs *)

\* Rows are added; of some of them the text is a part, and their calls are noted.
LEMMA PutParts ==
  ASSUME PartsOK, NEW I, NEW rows, AddRows(rows), DOMAIN rows \cap Rows = {}, PutBodies(I),
         \A i \in I : HandleOf(I, i) \in DOMAIN rows /\ rows[HandleOf(I, i)] = history[i].call
                     /\ history[i].call \in Call
  PROVE  PartsOK'
<1>. DEFINE cut == {i \in I : history[i].form = "cut"}
<1>1. parts' = parts \cup {HandleOf(I, i) : i \in cut} /\ halved' = halved \cup {history[i].call : i \in cut}
  BY DEF PutBodies
<1>2. /\ Rows' = Rows \cup DOMAIN rows /\ (\A h \in Rows : outputs'[h] = outputs[h])
      /\ \A h \in DOMAIN rows : outputs'[h] = rows[h]
  BY Added
<1>3. \A i \in cut : /\ HandleOf(I, i) \in DOMAIN rows /\ outputs'[HandleOf(I, i)] = history[i].call
                    /\ history[i].call \in Call
  BY <1>2
<1>. HIDE DEF cut
<1>. QED
  BY <1>1, <1>2, <1>3 DEF PartsOK

\* Every step keeps it that a part is one of a cut output.
LEMMA PartsStand == CInv /\ PartsOK /\ [Next]_vars => PartsOK'
<1>. SUFFICES ASSUME CInv, PartsOK, [Next]_vars PROVE PartsOK'
  OBVIOUS
<1>1. CASE UNCHANGED <<outputs, parts, halved>>
  BY <1>1 DEF PartsOK, Rows
<1>2. CASE UserMessage \/ Answer \/ (\E k \in Keep : Over(k)) \/ KeepGroups \/ Age
  BY <1>1, <1>2 DEF UserMessage, Answer, Over, KeepGroups, Age, disk
<1>3. CASE StoreMessages \/ StoreState \/ Restart \/ UNCHANGED vars
  BY <1>1, <1>3 DEF StoreMessages, StoreState, Restart, vars, disk
<1>4. CASE Prune
  BY <1>4 DEF Prune, PartsOK, Rows
<1>5. CASE \E kind \in Kind : ToolCall(kind[1], kind[2])
  <2>1. PICK kind \in Kind : ToolCall(kind[1], kind[2])
    BY <1>5
  <2>2. UNCHANGED <<parts, halved>> /\ (UNCHANGED outputs \/ Put(calls + 1))
    BY <2>1 DEF ToolCall
  <2>3. calls + 1 \in Call
    BY <2>1, CompactionAssumption DEF ToolCall, CInv, TypeOK, Call
  <2>4. CASE Put(calls + 1)
    <3>1. Rows \subseteq Rows' /\ \A h \in Rows : outputs'[h] = outputs[h]
      BY <2>3, <2>4, Stored DEF CInv
    <3>. QED
      BY <2>2, <3>1 DEF PartsOK
  <2>. QED
    BY <1>1, <2>2, <2>4
<1>6. CASE Mask
  <2>1. PICK i : i = First(Maskable(keep))
    OBVIOUS
  <2>2. PICK rows : rows = [h \in {NewHandle} |-> history[i].call]
    OBVIOUS
  <2>3. AddRows(rows) /\ PutBodies({i}) /\ Maskable(keep) # {}
    BY <1>6, <2>1, <2>2 DEF Mask, Put
  <2>4. /\ history \in Seq(Entry) /\ i \in Maskable(keep) /\ i \in Tools(history) /\ i \in Nat
        /\ history[i].call \in Call
    <3>1. history \in Seq(Entry)
      BY DEF CInv, TypeOK
    <3>2. Maskable(keep) \subseteq Tools(history) /\ Tools(history) \subseteq DOMAIN history /\ DOMAIN history \subseteq Nat
      BY <3>1, Entries DEF Maskable, Tools, Groups
    <3>3. Maskable(keep) \in SUBSET Nat
      BY <3>2
    <3>4. i \in Maskable(keep)
      BY <2>1, <2>3, <3>3, FirstIsOne
    <3>. QED
      BY <3>1, <3>2, <3>4, Entries, Kinds DEF Tools, Groups
  <2>5. NewHandle \in Nat \ {0} /\ NewHandle \notin Rows
    BY NewHandleIsNew DEF CInv, TypeOK
  <2>6. HandleOf({i}, i) = NewHandle
    <3>1. {j \in Unmasked({i}) : j < i} = {}
      BY <2>4 DEF Unmasked
    <3>. QED
      BY <2>5, <3>1, FS_EmptySet DEF HandleOf
  <2>7. DOMAIN rows = {NewHandle} /\ rows[NewHandle] = history[i].call
    BY <2>2
  <2>. QED
    BY <2>3, <2>4, <2>5, <2>6, <2>7, PutParts
<1>7. CASE \E n \in 1..Cardinality(Groups(history)) : DropGroups(n)
  <2>1. PICK n \in 1..Cardinality(Groups(history)) : DropGroups(n)
    BY <1>7
  <2>2. PICK G : G = Oldest(n)
    OBVIOUS
  <2>3. PICK rows : rows = [g \in {HandleOf(G, i) : i \in Unmasked(G)} |->
                              history[CHOOSE i \in Unmasked(G) : HandleOf(G, i) = g].call]
    OBVIOUS
  <2>4. AddRows(rows) /\ DOMAIN rows = {HandleOf(G, i) : i \in Unmasked(G)} /\ PutBodies(Unmasked(G))
    BY <2>1, <2>2, <2>3 DEF DropGroups
  <2>5. /\ history \in Seq(Entry) /\ n \in 1..Cardinality(Groups(history)) - 1
        /\ NewHandle \in Nat \ {0} /\ (\A g \in Rows : g < NewHandle) /\ Rows \subseteq Nat
    BY <2>1, NewHandleIsNew DEF CInv, TypeOK, DropGroups
  <2>6. G \in SUBSET DOMAIN history
    BY <2>2, <2>5, OldestIsOne DEF Groups
  <2>7. /\ \A i \in Unmasked(G) : HandleOf(G, i) \in Nat /\ HandleOf(G, i) >= NewHandle
        /\ \A i, j \in Unmasked(G) : HandleOf(G, i) = HandleOf(G, j) => i = j
    BY <2>5, <2>6, HandlesApart
  <2>8. DOMAIN rows \cap Rows = {}
    BY <2>4, <2>5, <2>7
  <2>9. \A i \in Unmasked(G) : rows[HandleOf(G, i)] = history[i].call
    BY <2>3, <2>7
  <2>10. \A i \in Unmasked(G) : history[i].call \in Call
    BY <2>5, Entries, Kinds DEF Unmasked, Tools, Groups
  <2>11. Unmasked(Unmasked(G)) = Unmasked(G)
    BY DEF Unmasked
  <2>12. \A i : HandleOf(Unmasked(G), i) = HandleOf(G, i)
    BY <2>11 DEF HandleOf
  <2>13. \A i \in Unmasked(G) : /\ HandleOf(Unmasked(G), i) \in DOMAIN rows
                                /\ rows[HandleOf(Unmasked(G), i)] = history[i].call
                                /\ history[i].call \in Call
    BY <2>4, <2>9, <2>10, <2>12
  <2>. QED
    BY <2>4, <2>8, <2>13, PutParts
<1>. QED
  BY <1>2, <1>3, <1>4, <1>5, <1>6, <1>7 DEF Next

\* A row has only a part of an output if its cut result was masked or dropped, in every reachable state.
THEOREM PartsAreKnown == Spec => []PartsOK
<1>1. Init => PartsOK
  BY DEF Init, PartsOK, Rows
<1>2. CInv /\ PartsOK /\ [Next]_vars => PartsOK'
  BY PartsStand
<1>. QED
  BY <1>1, <1>2, CompactionInvariant, PTL DEF Spec

-----------------------------------------------------------------------------
(* What follows *)

\* Whatever crashes and prunes, a handle that a message or a summary shows leads to its output,
\* and but for slipped stubs and torn compactions the output of every call can be read: the whole
\* of it, unless its cut result was masked or dropped.
THEOREM HandlesAreSound == Spec => []HandlesSound
<1>1. CInv /\ PartsOK => HandlesSound
  <2>. SUFFICES ASSUME CInv, PartsOK PROVE HandlesSound
    OBVIOUS
  <2>1. TypeOK /\ history \in Seq(Entry) /\ stored \in Seq(Entry)
    BY DEF CInv, TypeOK
  <2>2. ASSUME NEW m \in {history, stored}
        PROVE  /\ Cited(m) \subseteq Rows
               /\ \A i \in Tools(m) : m[i].form # "whole" => OutputOf(m[i].handle) = m[i].call
    <3>1. m \in Seq(Entry) /\ Good(m, outputs) /\ Shown(m) \subseteq Rows
      BY <2>1, ShownHasRows DEF CInv, HistoriesOK, HistoryOK
    <3>2. Cited(m) \subseteq Rows
      BY <3>1, Reads
    <3>3. ASSUME NEW i \in Tools(m), m[i].form # "whole"
          PROVE  OutputOf(m[i].handle) = m[i].call
      <4>1. m[i] \in Range(m) /\ Cites(m[i]) /\ m[i].handle \in HandlesOf(m[i])
        BY <3>1, <3>3, Entries, Kinds DEF Tools, Groups, Cites, HandlesOf
      <4>. QED
        BY <3>1, <4>1 DEF Good, OutputOf, Rows
    <3>. QED
      BY <3>2, <3>3
  <2>3. ASSUME ~torn, NEW c \in (1..calls) \ slipped
        PROVE  Findable(c, Rows) /\ (c \notin halved => Findable(c, Rows \ parts))
    <3>1. Reach(history, outputs, c) /\ c # 0 /\ c \in Nat
      BY <2>1, <2>3 DEF CInv, HistoriesOK, HistoryOK, TypeOK
    <3>2. PICK e \in Range(history) : Whole(e, c) \/ \E h \in HandlesOf(e) : h \in Rows /\ outputs[h] = c
      BY <3>1 DEF Reach, Rows
    <3>3. CASE Whole(e, c)
      <4>1. PICK i \in DOMAIN history : history[i] = e
        BY <2>1, Entries
      <4>2. i \in Tools(history)
        BY <3>1, <3>3, <4>1 DEF Tools, Groups, Whole
      <4>. QED
        BY <3>3, <4>1, <4>2 DEF Findable, Whole
    <3>4. CASE \E h \in HandlesOf(e) : h \in Rows /\ outputs[h] = c
      <4>1. PICK h \in HandlesOf(e) : h \in Rows /\ outputs[h] = c
        BY <3>4
      <4>2. h \in Cited(history)
        BY <2>1, <4>1, Reads DEF Shown, HandlesOf
      <4>3. c \notin halved => h \notin parts
        BY <4>1 DEF PartsOK
      <4>. QED
        BY <4>1, <4>2, <4>3 DEF Findable, OutputOf
    <3>. QED
      BY <3>2, <3>3, <3>4
  <2>. QED
    BY <2>1, <2>2, <2>3 DEF HandlesSound, CitedResolve, OnlyStubsSlip
<1>. QED
  BY <1>1, CompactionInvariant, PartsAreKnown, PTL

\* No call is forgotten by a compaction, however many follow each other and wherever the process
\* ends, but for one that ends between the two writes.
THEOREM EvidenceIsKept == Spec => []EvidenceKept
<1>1. CInv => EvidenceKept
  <2>. SUFFICES ASSUME CInv, ~torn, NEW m \in {history, stored}
                PROVE  /\ Cardinality(Summaries(m)) <= 1
                       /\ Call \cap 1..calls = {m[i].call : i \in Tools(m)} \cup UNION {m[i].data.calls : i \in Summaries(m)}
    BY DEF EvidenceKept
  <2>1. HistoryOK(m, outputs, calls, slipped, TRUE)
    BY DEF CInv, HistoriesOK, HistoryOK
  <2>2. Cardinality(Summaries(m)) <= 1
    <3>1. CASE Summaries(m) = {}
      BY <3>1, FS_EmptySet
    <3>2. CASE Summaries(m) # {}
      <4>1. PICK i \in Summaries(m) : TRUE
        BY <3>2
      <4>2. Summaries(m) = {i}
        BY <2>1, <4>1 DEF HistoryOK, OneSummary
      <4>. QED
        BY <4>2, FS_Singleton
    <3>. QED
      BY <3>1, <3>2
  <2>3. Told(m) = Call \cap 1..calls
    BY <2>1 DEF HistoryOK, Told
  <2>. QED
    BY <2>1, <2>2, <2>3, Reads DEF HistoryOK
<1>. QED
  BY <1>1, CompactionInvariant, PTL

\* No step takes away the row of a handle that the stored conversation shows.
LEMMA ShownRowsStand ==
  ASSUME CInv, [Next]_vars, NEW h \in Shown(stored)
  PROVE  h \in Rows /\ h \in Rows' /\ outputs'[h] = outputs[h]
<1>1. h \in Rows
  BY ShownHasRows
<1>2. CASE Prune
  <2>1. h \in Referenced
    BY Reads DEF CInv, TypeOK, Referenced
  <2>. QED
    BY <1>1, <1>2, <2>1 DEF Prune, Rows
<1>3. ASSUME NEW rows, AddRows(rows), DOMAIN rows \cap Rows = {}
      PROVE  h \in Rows' /\ outputs'[h] = outputs[h]
  BY <1>1, <1>3, Added
<1>4. CASE UNCHANGED outputs
  BY <1>1, <1>4 DEF Rows
<1>5. ASSUME NEW c, Put(c)
      PROVE  h \in Rows' /\ outputs'[h] = outputs[h]
  <2>1. PICK rows : rows = [g \in {NewHandle} |-> c]
    OBVIOUS
  <2>2. AddRows(rows) /\ DOMAIN rows = {NewHandle} /\ NewHandle \notin Rows
    BY <1>5, <2>1, NewHandleIsNew DEF Put, CInv, TypeOK
  <2>. QED
    BY <1>3, <2>2
<1>6. CASE \E n \in 1..Cardinality(Groups(history)) : DropGroups(n)
  <2>1. PICK n \in 1..Cardinality(Groups(history)) : DropGroups(n)
    BY <1>6
  <2>2. PICK G : G = Oldest(n)
    OBVIOUS
  <2>3. PICK rows : rows = [g \in {HandleOf(G, i) : i \in Unmasked(G)} |->
                              history[CHOOSE i \in Unmasked(G) : HandleOf(G, i) = g].call]
    OBVIOUS
  <2>4. AddRows(rows) /\ DOMAIN rows = {HandleOf(G, i) : i \in Unmasked(G)}
    BY <2>1, <2>2, <2>3 DEF DropGroups
  <2>5. /\ history \in Seq(Entry) /\ n \in 1..Cardinality(Groups(history)) - 1
        /\ NewHandle \in Nat \ {0} /\ (\A g \in Rows : g < NewHandle) /\ Rows \subseteq Nat
    BY <2>1, NewHandleIsNew DEF CInv, TypeOK, DropGroups
  <2>6. G \in SUBSET DOMAIN history
    BY <2>2, <2>5, OldestIsOne DEF Groups
  <2>7. \A i \in Unmasked(G) : HandleOf(G, i) \in Nat /\ HandleOf(G, i) >= NewHandle
    BY <2>5, <2>6, HandlesApart
  <2>8. \A i \in Unmasked(G) : HandleOf(G, i) \notin Rows
    BY <2>5, <2>7
  <2>9. DOMAIN rows \cap Rows = {}
    BY <2>4, <2>8
  <2>. QED
    BY <1>1, <1>3, <2>4, <2>9
<1>7. CASE Mask
  <2>1. \E c : Put(c)
    BY <1>7 DEF Mask
  <2>. QED
    BY <1>1, <1>5, <2>1
<1>8. CASE \E kind \in Kind : ToolCall(kind[1], kind[2])
  <2>1. UNCHANGED outputs \/ \E c : Put(c)
    BY <1>8 DEF ToolCall
  <2>. QED
    BY <1>1, <1>4, <1>5, <2>1
<1>9. CASE UserMessage \/ Answer \/ (\E k \in Keep : Over(k)) \/ KeepGroups
  BY <1>4, <1>9 DEF UserMessage, Answer, Over, KeepGroups, disk
<1>10. CASE StoreMessages \/ StoreState \/ Age \/ Restart \/ UNCHANGED vars
  BY <1>4, <1>10 DEF StoreMessages, StoreState, Age, Restart, vars, disk
<1>. QED
  BY <1>1, <1>2, <1>6, <1>7, <1>8, <1>9, <1>10 DEF Next, Rows

\* What the stored summary offers is offered by the next one.
LEMMA OffersGoOn ==
  ASSUME CInv, [Next]_vars, ~torn
  PROVE  Offers(stored, stored')
<1>1. stored \in Seq(Entry) /\ history \in Seq(Entry)
  BY DEF CInv, TypeOK
<1>2. CASE UNCHANGED stored
  BY <1>2 DEF Offers
<1>3. CASE StoreMessages
  BY <1>3 DEF StoreMessages, CInv, SummaryOK
<1>4. ASSUME NEW e \in Entry, ~IsSummary(e), stored' = Append(stored, e)
      PROVE  Offers(stored, stored')
  <2>1. Range(stored') = Range(stored) \cup {e}
    BY <1>1, <1>4, Appended
  <2>. QED
    BY <2>1 DEF Offers
<1>5. CASE UserMessage
  <2>1. User \in Entry /\ ~IsSummary(User)
    BY DEF Entry, User, IsSummary
  <2>. QED
    BY <1>4, <1>5, <2>1 DEF UserMessage, Append2
<1>6. CASE Answer
  <2>1. Group(0, "none", 0) \in Entry /\ ~IsSummary(Group(0, "none", 0))
    BY DEF Entry, Group, IsSummary
  <2>. QED
    BY <1>4, <1>6, <2>1 DEF Answer, Append2
<1>7. CASE \E kind \in Kind : ToolCall(kind[1], kind[2])
  <2>1. PICK kind \in Kind : ToolCall(kind[1], kind[2])
    BY <1>7
  <2>2. calls + 1 \in Call /\ NewHandle \in Nat
    BY <2>1, NewHandleIsNew, CompactionAssumption DEF ToolCall, CInv, TypeOK, Call
  <2>3. /\ Group(calls + 1, "cut", NewHandle) \in Entry /\ ~IsSummary(Group(calls + 1, "cut", NewHandle))
        /\ Group(calls + 1, "whole", 0) \in Entry /\ ~IsSummary(Group(calls + 1, "whole", 0))
    BY <2>2 DEF Entry, Group, IsSummary
  <2>4. CASE kind[1] = "huge"
    BY <1>4, <2>1, <2>3, <2>4 DEF ToolCall, Append2
  <2>5. CASE kind[1] # "huge"
    BY <1>4, <2>1, <2>3, <2>5 DEF ToolCall, Append2
  <2>. QED
    BY <2>4, <2>5
<1>8. CASE Mask \/ (\E k \in Keep : Over(k)) \/ KeepGroups \/ StoreState \/ Prune
  BY <1>2, <1>8 DEF Mask, Over, KeepGroups, StoreState, Prune, disk
<1>9. CASE (\E n \in 1..Cardinality(Groups(history)) : DropGroups(n)) \/ Age \/ Restart \/ UNCHANGED vars
  BY <1>2, <1>9 DEF DropGroups, Age, Restart, vars, disk
<1>. QED
  BY <1>3, <1>5, <1>6, <1>7, <1>8, <1>9 DEF Next

\* What a stored summary offers it offers for good: its handles are in the next one too, and each
\* still leads to the same output.
THEOREM OffersHold == Spec => OffersStand
<1>. DEFINE Stands == torn' \/ \A i \in Summaries(stored) : \A h \in stored[i].data.handles :
                        h \in Cited(stored') /\ OutputOf(h)' = OutputOf(h)
<1>1. CInv /\ CInv' /\ [Next]_vars => [Stands]_vars
  <2>. SUFFICES ASSUME CInv, CInv', [Next]_vars, ~torn', NEW i \in Summaries(stored), NEW h \in stored[i].data.handles
                PROVE  h \in Cited(stored') /\ OutputOf(h)' = OutputOf(h)
    OBVIOUS
  <2>1. stored \in Seq(Entry) /\ stored' \in Seq(Entry)
    BY DEF CInv, TypeOK
  <2>2. stored[i] \in Range(stored) /\ IsSummary(stored[i])
    BY <2>1, Entries DEF Summaries, IsSummary
  <2>3. h \in Shown(stored)
    BY <2>1, <2>2, SummaryShows
  <2>4. OutputOf(h)' = OutputOf(h)
    <3>1. h \in Rows /\ h \in Rows' /\ outputs'[h] = outputs[h]
      BY <2>3, ShownRowsStand
    <3>. QED
      BY <3>1 DEF OutputOf
  <2>5. ~torn
    <3>1. CASE Restart
      BY <3>1 DEF Restart
    <3>2. CASE ~Restart
      <4>1. torn' = torn
        BY <3>2 DEF Next, UserMessage, Answer, ToolCall, Over, Mask, KeepGroups, StoreMessages, StoreState,
          DropGroups, Prune, Age, vars
      <4>. QED
        BY <4>1
    <3>. QED
      BY <3>1, <3>2
  <2>6. PICK f \in Range(stored') : IsSummary(f) /\ stored[i].data.handles \subseteq f.data.handles
    BY <2>2, <2>5, OffersGoOn DEF Offers
  <2>7. h \in Shown(stored')
    BY <2>1, <2>6, SummaryShows
  <2>. QED
    BY <2>1, <2>4, <2>7, Reads
<1>. QED
  BY <1>1, CompactionInvariant, PTL DEF Spec, OffersStand
=============================================================================
