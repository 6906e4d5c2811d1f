----------------------------- MODULE WindowProofs -----------------------------
(***************************************************************************)
(* Proofs about one window, for any number of texts, turns and sessions.   *)
(* Window: turns run one at a time, under one role, and no cancel or undo  *)
(* reaches another turn than its own (TurnsStand); what was typed gets to  *)
(* the engine, in order, or back to the user (TextsKept).  Conversations,  *)
(* which shares no state with it: names and places in a list point at the  *)
(* conversation the user was shown (PointedAt, NamesStand).                *)
(***************************************************************************)
EXTENDS Window, Conversations, FiniteSetTheorems, SequenceTheorems, WellFoundedInduction, TLAPS

\* A set of naturals that is not empty has a first one.
LEMMA HasFirst ==
  ASSUME NEW S \in SUBSET Nat, S # {}
  PROVE  \E x \in S : \A y \in S : x <= y
<1>1. PICK x \in S : \A y \in S : ~(<<y, x>> \in OpToRel(<, Nat))
  BY NatLessThanWellFounded, WFMin
<1>2. ASSUME NEW y \in S
      PROVE  x <= y
  <2>1. y \in Nat /\ x \in Nat /\ ~(y < x)
    BY <1>1 DEF OpToRel
  <2>. QED
    BY <2>1
<1>. QED
  BY <1>2

\* The texts of a sequence of values, one after the other: flattened up to the n-th, they are
\* what they are up to the one before, and the n-th.
LEMMA Flattened ==
  ASSUME NEW q, Len(q) \in Nat, Len(q) # 0
  PROVE  \E f : /\ FlattenSeq(q) = f[Len(q)]
                /\ f[1] = q[1]
                /\ \A n \in 2..Len(q) : f[n] = f[n - 1] \o q[n]
<1> DEFINE Is(f, k) == f = [i \in 1..k |-> IF i = 1 THEN q[i] ELSE f[i - 1] \o q[i]]
           Bad == {k \in 1..Len(q) : ~\E f : Is(f, k)}
<1>1. \E f : Is(f, 1)
  <2>1. Is([i \in 1..1 |-> q[1]], 1)
    OBVIOUS
  <2>. QED
    BY <2>1
<1>2. ASSUME NEW k \in Nat, k # 0, NEW f, Is(f, k)
      PROVE  \E g : Is(g, k + 1)
  <2> DEFINE g == [i \in 1..k + 1 |-> IF i <= k THEN f[i] ELSE f[k] \o q[k + 1]]
  <2>1. \A i \in 1..k + 1 : g[i] = IF i = 1 THEN q[i] ELSE g[i - 1] \o q[i]
    <3>1. \A i \in 1..k : g[i] = f[i]
      OBVIOUS
    <3>2. \A i \in 1..k : f[i] = IF i = 1 THEN q[i] ELSE f[i - 1] \o q[i]
      BY <1>2
    <3>3. g[k + 1] = g[k] \o q[k + 1]
      <4>1. g[k] = f[k] /\ k + 1 \in 1..k + 1 /\ ~(k + 1 <= k)
        BY <1>2, <3>1
      <4>. QED
        BY <4>1
    <3> HIDE DEF g
    <3>4. ASSUME NEW i \in 1..k + 1
          PROVE  g[i] = IF i = 1 THEN q[i] ELSE g[i - 1] \o q[i]
      <4>1. CASE i = k + 1
        <5>1. i # 1 /\ i - 1 = k
          BY <1>2, <4>1
        <5>. QED
          BY <4>1, <5>1, <3>3
      <4>2. CASE i \in 1..k
        <5>1. i # 1 => g[i - 1] = f[i - 1]
          BY <4>2, <3>1
        <5>. QED
          BY <4>2, <5>1, <3>1, <3>2
      <4>. QED
        BY <4>1, <4>2
    <3>. QED
      BY <3>4
  <2>2. g = [i \in 1..k + 1 |-> g[i]]
    OBVIOUS
  <2> HIDE DEF g
  <2>3. Is(g, k + 1)
    BY <2>1, <2>2
  <2>. QED
    BY <2>3
<1>3. Bad = {}
  <2>1. ASSUME Bad # {}
        PROVE  FALSE
    <3>1. Bad \in SUBSET Nat
      <4> HIDE DEF Is
      <4>. QED
        OBVIOUS
    <3>2. PICK k \in Bad : \A y \in Bad : k <= y
      BY <2>1, <3>1, HasFirst
    <3>3. k # 1
      BY <1>1, <3>2
    <3>4. k \in 1..Len(q) /\ ~\E f : Is(f, k)
      BY <3>2
    <3>5. k - 1 \in 1..Len(q) /\ k - 1 \in Nat /\ k - 1 # 0 /\ (k - 1) + 1 = k /\ ~(k <= k - 1)
      BY <3>3, <3>4
    <3>6. k - 1 \notin Bad
      BY <3>2, <3>5
    <3> HIDE DEF Is
    <3>7. PICK f : Is(f, k - 1)
      BY <3>5, <3>6
    <3>8. \E g : Is(g, (k - 1) + 1)
      BY <3>5, <3>7, <1>2
    <3>. QED
      BY <3>8, <3>4, <3>5
  <2>. QED
    BY <2>1
<1>4. \E f : Is(f, Len(q))
  <2>1. Len(q) \in 1..Len(q)
    OBVIOUS
  <2>. QED
    BY <1>3, <2>1
<1> DEFINE f == CHOOSE f : Is(f, Len(q))
<1>5. Is(f, Len(q))
  BY <1>4
<1>6. FlattenSeq(q) = f[Len(q)]
  BY DEF FlattenSeq
<1>7. f[1] = q[1] /\ \A n \in 2..Len(q) : f[n] = f[n - 1] \o q[n]
  <2> HIDE DEF f
  <2>1. ASSUME NEW g, Is(g, Len(q)), NEW i \in 1..Len(q)
        PROVE  g[i] = IF i = 1 THEN q[i] ELSE g[i - 1] \o q[i]
    BY <2>1
  <2> HIDE DEF Is
  <2>2. f[1] = q[1]
    BY <2>1, <1>5
  <2>3. ASSUME NEW n \in 2..Len(q)
        PROVE  f[n] = f[n - 1] \o q[n]
    <3>1. n \in 1..Len(q) /\ n # 1
      OBVIOUS
    <3>. QED
      BY <3>1, <2>1, <1>5
  <2>. QED
    BY <2>2, <2>3
<1>. QED
  BY <1>6, <1>7

\* What is in two texts put together is what is in each.
LEMMA JoinedHolds ==
  ASSUME NEW S, NEW a \in Seq(S), NEW b \in Seq(S)
  PROVE  a \o b \in Seq(S) /\ ToSet(a \o b) = ToSet(a) \cup ToSet(b)
<1> DEFINE c == a \o b
<1>1. /\ c \in Seq(S) /\ DOMAIN c = 1..Len(a) + Len(b) /\ Len(a) \in Nat /\ Len(b) \in Nat
      /\ DOMAIN a = 1..Len(a) /\ DOMAIN b = 1..Len(b)
      /\ \A i \in 1..Len(a) + Len(b) : c[i] = IF i <= Len(a) THEN a[i] ELSE b[i - Len(a)]
  OBVIOUS
<1> HIDE DEF c
<1>2. ASSUME NEW i \in DOMAIN c
      PROVE  c[i] \in ToSet(a) \cup ToSet(b)
  <2>1. CASE i <= Len(a)
    BY <1>1, <2>1 DEF ToSet
  <2>2. CASE ~(i <= Len(a))
    <3>1. i - Len(a) \in DOMAIN b /\ c[i] = b[i - Len(a)]
      BY <1>1, <2>2
    <3>. QED
      BY <3>1 DEF ToSet
  <2>. QED
    BY <2>1, <2>2
<1>3. ASSUME NEW i \in DOMAIN a
      PROVE  a[i] \in ToSet(c)
  <2>1. i \in DOMAIN c /\ c[i] = a[i]
    BY <1>1
  <2>. QED
    BY <2>1 DEF ToSet
<1>4. ASSUME NEW i \in DOMAIN b
      PROVE  b[i] \in ToSet(c)
  <2>1. i + Len(a) \in DOMAIN c /\ c[i + Len(a)] = b[i]
    BY <1>1
  <2>. QED
    BY <2>1 DEF ToSet
<1>5. ToSet(c) = ToSet(a) \cup ToSet(b)
  BY <1>2, <1>3, <1>4 DEF ToSet
<1>. QED
  BY <1>1, <1>5 DEF c

\* What is in values put together is what is in each of them.
LEMMA FlattenedHolds ==
  ASSUME NEW S, NEW q \in Seq(Seq(S))
  PROVE  /\ FlattenSeq(q) \in Seq(S)
         /\ ToSet(FlattenSeq(q)) = UNION {ToSet(q[i]) : i \in DOMAIN q}
<1>1. CASE Len(q) = 0
  <2>1. q = <<>> /\ FlattenSeq(q) = <<>>
    BY <1>1 DEF FlattenSeq
  <2>2. DOMAIN q = {} /\ ToSet(<<>>) = {}
    BY <2>1 DEF ToSet
  <2>3. UNION {ToSet(q[i]) : i \in DOMAIN q} = {}
    BY <2>2
  <2>4. <<>> \in Seq(S)
    OBVIOUS
  <2>. QED
    BY <2>1, <2>2, <2>3, <2>4
<1>2. CASE Len(q) # 0
  <2>1. PICK f : /\ FlattenSeq(q) = f[Len(q)]
                 /\ f[1] = q[1]
                 /\ \A n \in 2..Len(q) : f[n] = f[n - 1] \o q[n]
    <3>1. Len(q) \in Nat
      OBVIOUS
    <3>. QED
      BY <3>1, <1>2, Flattened
  <2> DEFINE Good(n) == f[n] \in Seq(S) /\ ToSet(f[n]) = UNION {ToSet(q[i]) : i \in 1..n}
             Bad == {n \in 1..Len(q) : ~Good(n)}
  <2>2. Good(1)
    BY <1>2, <2>1
  <2>3. ASSUME NEW n \in 2..Len(q), Good(n - 1)
        PROVE  Good(n)
    <3>1. q[n] \in Seq(S) /\ f[n - 1] \in Seq(S) /\ f[n] = f[n - 1] \o q[n]
      <4>1. q[n] \in Seq(S)
        OBVIOUS
      <4>. QED
        BY <4>1, <2>1, <2>3
    <3>2. f[n] \in Seq(S)
      BY <3>1
    <3>3. ToSet(f[n]) = ToSet(f[n - 1]) \cup ToSet(q[n])
      BY <3>1, JoinedHolds
    <3>4. 1..n = 1..n - 1 \cup {n}
      OBVIOUS
    <3>. QED
      BY <3>2, <3>3, <3>4, <2>3
  <2> HIDE DEF Good
  <2>4. Bad = {}
    <3>1. SUFFICES ASSUME Bad # {} PROVE FALSE
      OBVIOUS
    <3>a. Bad \in SUBSET Nat
      OBVIOUS
    <3>2. PICK n \in Bad : \A y \in Bad : n <= y
      BY <3>a, <3>1, HasFirst
    <3>3. n \in 2..Len(q) /\ n - 1 \in 1..Len(q) /\ ~(n <= n - 1)
      BY <3>2, <2>2
    <3>4. Good(n - 1)
      BY <3>2, <3>3
    <3>. QED
      BY <3>2, <3>3, <3>4, <2>3
  <2>5. Good(Len(q))
    BY <1>2, <2>4
  <2>6. DOMAIN q = 1..Len(q)
    OBVIOUS
  <2>. QED
    BY <2>1, <2>5, <2>6 DEF Good
<1>. QED
  BY <1>1, <1>2
-----------------------------------------------------------------------------
(* The inductive invariant.  Plain: what can wait or be sent has no entry of the history, which only
   a search shows. *)
Plain == Seq(Text \cup {Act})

PlainTexts ==
  /\ queue \in Seq(Plain) /\ posted \in Plain \cup {None} /\ search \in Plain \cup {None}
  /\ \A i \in DOMAIN workers : workers[i].value \in Plain
  /\ search = None => draft \in Plain
  /\ posted # None => search = None

TurnWorker(i) == workers[i].task = "turn"

(* A turn that is about to begin is the window's latest one and the last worker but for its own
   cancels; no undo waits while the engine runs. *)
WorkersInOrder ==
  /\ \A i \in DOMAIN workers :
       /\ TurnWorker(i) => engine = 0 /\ workers[i].turn = turn /\ turn # 0
       /\ workers[i].task = "cancel" => engine \in {0, workers[i].turn}
       /\ workers[i].task = "undo" => engine = 0
       /\ ~TurnWorker(i) => workers[i].value = <<>>
  /\ \A i, j \in DOMAIN workers :
       i < j /\ TurnWorker(i) => workers[j].task = "cancel" /\ workers[j].turn = turn

Busy ==
  /\ busy => session
  /\ engine \in {0, turn}
  /\ busy <=> engine # 0 \/ \E i \in DOMAIN workers : TurnWorker(i)

TurnsInv == WorkersInOrder /\ Busy /\ RoleAndFilesStand /\ CancelHits /\ RowsSettle

Before(S, T) == \A t \in Text \cap S, u \in Text \cap T : t < u

(* The texts on their way: what was sent comes before what is with a worker, that before the queue,
   the queue is in its own order, and all of it before what the composer shows or has on its way. *)
Ordered(gone, held, q, shown) ==
  /\ Before(gone, held)
  /\ \A i \in DOMAIN q : Before(gone \cup held, ToSet(q[i]))
  /\ \A i, j \in DOMAIN q : i < j => Before(ToSet(q[i]), ToSet(q[j]))
  /\ \A v \in shown : Before(gone \cup held, ToSet(v)) /\ \A i \in DOMAIN q : Before(ToSet(q[i]), ToSet(v))

Known(gone, held, q, shown) ==
  gone \cup held \cup (UNION {ToSet(q[i]) : i \in DOMAIN q}) \cup (UNION {ToSet(v) : v \in shown})

UpTo(n, texts) == \A t \in Text : t \in texts => t <= n

Assigned == UNION {ToSet(workers[i].value) : i \in DOMAIN workers}
OnScreen == {draft} \cup ({posted, search} \ {None})

TextsTyped == UpTo(typed, Known(sent, Assigned, queue, OnScreen))

InLine == refused \/ ((queue # <<>> => busy) /\ Ordered(sent, Assigned, queue, OnScreen))

IInv == TypeOK /\ PlainTexts /\ TurnsInv /\ TextsTyped /\ InLine

-----------------------------------------------------------------------------
(* Facts about texts in line *)

\* Where a known text can be.
LEMMA KnownIs ==
  ASSUME NEW gone, NEW held, NEW q, NEW shown, NEW t
  PROVE  t \in Known(gone, held, q, shown) <=>
           \/ t \in gone \cup held
           \/ \E i \in DOMAIN q : t \in ToSet(q[i])
           \/ \E v \in shown : t \in ToSet(v)
<1>1. t \in UNION {ToSet(q[i]) : i \in DOMAIN q} <=> \E i \in DOMAIN q : t \in ToSet(q[i])
  OBVIOUS
<1>2. t \in UNION {ToSet(v) : v \in shown} <=> \E v \in shown : t \in ToSet(v)
  OBVIOUS
<1> DEFINE A == UNION {ToSet(q[i]) : i \in DOMAIN q}
           B == UNION {ToSet(v) : v \in shown}
<1>3. Known(gone, held, q, shown) = gone \cup held \cup A \cup B
  BY DEF Known
<1> HIDE DEF A, B
<1>4. t \in Known(gone, held, q, shown) <=> t \in gone \cup held \/ t \in A \/ t \in B
  BY <1>3
<1>. QED
  BY <1>1, <1>2, <1>4 DEF A, B

\* A shorter list of what is shown, or the same.
LEMMA OrderedFewer ==
  ASSUME NEW gone, NEW held, NEW q, NEW shown, NEW shown2 \in SUBSET shown,
         Ordered(gone, held, q, shown)
  PROVE  Ordered(gone, held, q, shown2)
BY DEF Ordered

\* No text is before nothing, or after it.
LEMMA EmptyIsBefore ==
  /\ ToSet(<<>>) = {}
  /\ \A S : Before(S, {}) /\ Before({}, S) /\ Before(S, ToSet(<<>>))
BY DEF ToSet, Before

\* What /act types is no text of the user's.
LEMMA ActIsNoText ==
  ASSUME NEW text, text \in {<<>>, <<Act>>}
  PROVE  Text \cap ToSet(text) = {} /\ \A S : Before(S, ToSet(text))
<1>1. Text \cap ToSet(text) = {}
  BY WindowAssumption DEF ToSet, Text
<1>2. \A S : Before(S, ToSet(text))
  BY <1>1 DEF Before
<1>. QED
  BY <1>1, <1>2

\* What was posted goes to the end of the queue.
LEMMA OrderedQueued ==
  ASSUME NEW gone, NEW held, NEW q \in Seq(Plain), NEW shown, NEW v \in Plain, v \in shown,
         NEW text, text \in {<<>>, <<Act>>}, Ordered(gone, held, q, shown)
  PROVE  Ordered(gone, held, Append(q, v), {text})
<1> DEFINE r == Append(q, v)
<1>1. /\ DOMAIN r = 1..Len(q) + 1 /\ DOMAIN q = 1..Len(q) /\ Len(q) \in Nat
      /\ \A i \in 1..Len(q) : r[i] = q[i]
      /\ r[Len(q) + 1] = v
  OBVIOUS
<1> HIDE DEF r
<1>2. ASSUME NEW i \in DOMAIN r
      PROVE  Before(gone \cup held, ToSet(r[i]))
  <2>1. CASE i \in DOMAIN q
    BY <1>1, <2>1 DEF Ordered
  <2>2. CASE i = Len(q) + 1
    BY <1>1, <2>2 DEF Ordered
  <2>. QED
    BY <1>1, <2>1, <2>2
<1>3. ASSUME NEW i \in DOMAIN r, NEW j \in DOMAIN r, i < j
      PROVE  Before(ToSet(r[i]), ToSet(r[j]))
  <2>1. i \in DOMAIN q /\ r[i] = q[i]
    BY <1>1, <1>3
  <2>2. CASE j \in DOMAIN q
    BY <1>1, <1>3, <2>1, <2>2 DEF Ordered
  <2>3. CASE j = Len(q) + 1
    BY <1>1, <2>1, <2>3 DEF Ordered
  <2>. QED
    BY <1>1, <2>2, <2>3
<1>4. Before(gone, held)
  BY DEF Ordered
<1>. QED
  BY <1>2, <1>3, <1>4, ActIsNoText DEF Ordered, r

\* Nothing waits: what was posted goes to a worker.
LEMMA OrderedStarted ==
  ASSUME NEW gone, NEW q, NEW shown, NEW v, v \in shown, DOMAIN q = {}, NEW text, text \in {<<>>, <<Act>>},
         Ordered(gone, {}, q, shown)
  PROVE  Ordered(gone, ToSet(v), q, {text})
<1>1. Before(gone, ToSet(v))
  BY DEF Ordered
<1>. QED
  BY <1>1, ActIsNoText DEF Ordered

\* The first of the queue goes to a worker.
LEMMA OrderedDequeued ==
  ASSUME NEW gone, NEW q \in Seq(Plain), q # <<>>, NEW shown, Ordered(gone, {}, q, shown)
  PROVE  Ordered(gone, ToSet(q[1]), Tail(q), shown)
<1> DEFINE r == Tail(q)
<1>1. /\ DOMAIN r = 1..Len(q) - 1 /\ DOMAIN q = 1..Len(q) /\ Len(q) \in Nat /\ Len(q) > 0
      /\ \A i \in 1..Len(q) - 1 : r[i] = q[i + 1]
  OBVIOUS
<1> HIDE DEF r
<1>2. ASSUME NEW i \in DOMAIN r
      PROVE  i + 1 \in DOMAIN q /\ r[i] = q[i + 1] /\ Before(ToSet(q[1]), ToSet(r[i])) /\ Before(gone, ToSet(r[i]))
  <2>1. i + 1 \in DOMAIN q /\ 1 \in DOMAIN q /\ 1 < i + 1 /\ r[i] = q[i + 1]
    BY <1>1
  <2>. QED
    BY <2>1 DEF Ordered, Before
<1>3. \A i, j \in DOMAIN r : i < j => Before(ToSet(r[i]), ToSet(r[j]))
  <2>1. \A i, j \in DOMAIN r : i < j => i + 1 < j + 1
    BY <1>1
  <2>. QED
    BY <1>2, <2>1 DEF Ordered
<1>4. \A i \in DOMAIN r : Before(gone \cup ToSet(q[1]), ToSet(r[i]))
  BY <1>2 DEF Before
<1>5. 1 \in DOMAIN q
  BY <1>1
<1>6. Before(gone, ToSet(q[1]))
  BY <1>5 DEF Ordered, Before
<1>7. \A v \in shown : Before(gone \cup ToSet(q[1]), ToSet(v)) /\ \A i \in DOMAIN r : Before(ToSet(r[i]), ToSet(v))
  BY <1>2, <1>5 DEF Ordered, Before
<1>. QED
  BY <1>3, <1>4, <1>6, <1>7 DEF Ordered, r

\* The queue goes back to the composer, before its text.
LEMMA OrderedReturned ==
  ASSUME NEW gone, NEW held, NEW q \in Seq(Plain), NEW text \in Value, NEW shown, text \in shown,
         Ordered(gone, held, q, shown)
  PROVE  Ordered(gone, held, <<>>, (shown \ {text}) \cup {Returned(q, text)})
<1>1. /\ FlattenSeq(q) \in Seq(Text \cup {Act})
      /\ ToSet(FlattenSeq(q)) = UNION {ToSet(q[i]) : i \in DOMAIN q}
  BY FlattenedHolds DEF Plain
<1>2. FlattenSeq(q) \in Value
  BY <1>1 DEF Value
<1>3. ToSet(Returned(q, text)) = ToSet(FlattenSeq(q)) \cup ToSet(text)
  BY <1>2, JoinedHolds DEF Returned, Value
<1>4. Before(gone \cup held, ToSet(Returned(q, text)))
  BY <1>1, <1>3 DEF Ordered, Before
<1>5. DOMAIN <<>> = {}
  OBVIOUS
<1>. QED
  BY <1>4, <1>5 DEF Ordered

\* The texts of a worker are sent.
LEMMA OrderedSent ==
  ASSUME NEW gone, NEW held, NEW q, NEW shown, Ordered(gone, held, q, shown)
  PROVE  Ordered(gone \cup held, {}, q, shown)
BY DEF Ordered, Before

\* A text is typed.
LEMMA OrderedTyped ==
  ASSUME NEW gone, NEW held, NEW q, NEW shown, NEW n \in Nat, NEW text \in Value, text \in shown,
         UpTo(n, Known(gone, held, q, shown)), Ordered(gone, held, q, shown), NEW new \in Text, new = n + 1
  PROVE  Ordered(gone, held, q, shown \cup {Append(text, new)})
<1> DEFINE w == Append(text, new)
<1>1. ToSet(w) = ToSet(text) \cup {new}
  <2>1. ToSet(<<new>>) = {new} /\ Append(text, new) = text \o <<new>> /\ <<new>> \in Value
    BY DEF ToSet, Value
  <2> DEFINE S == Text \cup {Act, Recalled}
             one == <<new>>
  <2>2. text \in Seq(S) /\ one \in Seq(S)
    BY <2>1 DEF Value
  <2> HIDE DEF S, one
  <2>3. ToSet(text \o one) = ToSet(text) \cup ToSet(one)
    BY <2>2, JoinedHolds
  <2>. QED
    BY <2>1, <2>3 DEF one
<1> HIDE DEF w
<1>2. \A t \in Text : t \in Nat
  BY WindowAssumption DEF Text
<1>3. \A t \in Text : t \in gone \cup held \/ (\E i \in DOMAIN q : t \in ToSet(q[i])) => t < new
  BY <1>2 DEF UpTo, Known
<1>4. Before(gone \cup held, ToSet(w)) /\ \A i \in DOMAIN q : Before(ToSet(q[i]), ToSet(w))
  BY <1>1, <1>3 DEF Ordered, Before
<1>. QED
  BY <1>4 DEF Ordered, w
-----------------------------------------------------------------------------
(* Facts about workers *)

WorkerRecord == [task : {"turn", "cancel", "undo"}, turn : 0..MaxTurns, value : Value]

\* One more worker, started last.
LEMMA WorkerStarted ==
  ASSUME NEW ws \in Seq(WorkerRecord), NEW w \in WorkerRecord
  PROVE  /\ Started(ws, w) \in Seq(WorkerRecord)
         /\ DOMAIN ws = 1..Len(ws) /\ Len(ws) \in Nat
         /\ DOMAIN Started(ws, w) = 1..Len(ws) + 1
         /\ \A i \in DOMAIN ws : i \in DOMAIN Started(ws, w) /\ Started(ws, w)[i] = ws[i]
         /\ Len(ws) + 1 \in DOMAIN Started(ws, w) /\ Started(ws, w)[Len(ws) + 1] = w
         /\ \A i \in DOMAIN Started(ws, w) : i \in DOMAIN ws \/ i = Len(ws) + 1
         /\ \A i \in DOMAIN ws : i < Len(ws) + 1
BY DEF Started

\* The first worker takes its step; the others keep their places.
LEMMA WorkerStepped ==
  ASSUME NEW ws \in Seq(WorkerRecord), ws # <<>>
  PROVE  /\ Tail(ws) \in Seq(WorkerRecord)
         /\ 1 \in DOMAIN ws
         /\ \A i \in DOMAIN Tail(ws) : i + 1 \in DOMAIN ws /\ Tail(ws)[i] = ws[i + 1] /\ 1 < i + 1
         /\ \A i, j \in DOMAIN Tail(ws) : i < j => i + 1 < j + 1
         /\ \A i \in DOMAIN ws : i = 1 \/ (i - 1 \in DOMAIN Tail(ws) /\ Tail(ws)[i - 1] = ws[i])
<1>1. /\ Tail(ws) \in Seq(WorkerRecord) /\ Len(ws) \in Nat /\ Len(ws) > 0 /\ DOMAIN ws = 1..Len(ws)
      /\ DOMAIN Tail(ws) = 1..Len(ws) - 1
      /\ \A i \in 1..Len(ws) - 1 : Tail(ws)[i] = ws[i + 1]
  OBVIOUS
<1> DEFINE r == Tail(ws)
<1> HIDE DEF r
<1>2. \A i \in DOMAIN ws : i # 1 => i - 1 \in DOMAIN r /\ (i - 1) + 1 = i
  BY <1>1 DEF r
<1>3. \A i \in DOMAIN r : i + 1 \in DOMAIN ws /\ r[i] = ws[i + 1] /\ 1 < i + 1
  BY <1>1 DEF r
<1>4. \A i, j \in DOMAIN r : i < j => i + 1 < j + 1
  BY <1>1 DEF r
<1>5. \A i \in DOMAIN ws : i = 1 \/ (i - 1 \in DOMAIN r /\ r[i - 1] = ws[i])
  BY <1>2, <1>3
<1>6. r \in Seq(WorkerRecord) /\ 1 \in DOMAIN ws
  BY <1>1 DEF r
<1>. QED
  BY <1>3, <1>4, <1>5, <1>6 DEF r

\* What the workers hold is what they held, and the text of the one that is started.
LEMMA AssignedStarted ==
  ASSUME workers \in Seq(WorkerRecord), NEW w \in WorkerRecord, workers' = Started(workers, w)
  PROVE  Assigned' = Assigned \cup ToSet(w.value)
<1>1. /\ \A i \in DOMAIN workers : i \in DOMAIN workers' /\ workers'[i] = workers[i]
      /\ Len(workers) + 1 \in DOMAIN workers' /\ workers'[Len(workers) + 1] = w
      /\ \A i \in DOMAIN workers' : i \in DOMAIN workers \/ i = Len(workers) + 1
  BY WorkerStarted
<1>2. Assigned' = UNION {ToSet(workers'[i].value) : i \in DOMAIN workers'}
  BY DEF Assigned
<1>3. \A t : t \in Assigned' <=> \E i \in DOMAIN workers' : t \in ToSet(workers'[i].value)
  BY <1>2
<1>4. \A t : t \in Assigned <=> \E i \in DOMAIN workers : t \in ToSet(workers[i].value)
  BY DEF Assigned
<1>5. \A t : t \in Assigned' <=> t \in Assigned \/ t \in ToSet(w.value)
  BY <1>1, <1>3, <1>4
<1>. QED
  BY <1>5

\* What the workers hold is what the first holds and the others do.
LEMMA AssignedStepped ==
  ASSUME workers \in Seq(WorkerRecord), workers # <<>>, workers' = Tail(workers)
  PROVE  Assigned = Assigned' \cup ToSet(workers[1].value)
<1>1. /\ 1 \in DOMAIN workers
      /\ \A i \in DOMAIN workers' : i + 1 \in DOMAIN workers /\ workers'[i] = workers[i + 1]
      /\ \A i \in DOMAIN workers : i = 1 \/ (i - 1 \in DOMAIN workers' /\ workers'[i - 1] = workers[i])
  BY WorkerStepped
<1>2. Assigned' = UNION {ToSet(workers'[i].value) : i \in DOMAIN workers'}
  BY DEF Assigned
<1>3. \A t : t \in Assigned' <=> \E i \in DOMAIN workers' : t \in ToSet(workers'[i].value)
  BY <1>2
<1>4. \A t : t \in Assigned <=> \E i \in DOMAIN workers : t \in ToSet(workers[i].value)
  BY DEF Assigned
<1>5. ASSUME NEW t, t \in Assigned
      PROVE  t \in Assigned' \/ t \in ToSet(workers[1].value)
  <2>1. PICK i \in DOMAIN workers : t \in ToSet(workers[i].value)
    BY <1>4, <1>5
  <2>. QED
    BY <2>1, <1>1, <1>3
<1>6. ASSUME NEW t, t \in Assigned'
      PROVE  t \in Assigned
  <2>1. PICK i \in DOMAIN workers' : t \in ToSet(workers'[i].value)
    BY <1>3, <1>6
  <2>. QED
    BY <2>1, <1>1, <1>4
<1>7. \A t : t \in ToSet(workers[1].value) => t \in Assigned
  BY <1>1, <1>4
<1>. QED
  BY <1>5, <1>6, <1>7

\* No turn waits to begin: nothing is with a worker.
LEMMA NoneAssigned ==
  ASSUME TurnsInv, ~\E i \in DOMAIN workers : TurnWorker(i)
  PROVE  Assigned = {}
<1>1. \A i \in DOMAIN workers : ToSet(workers[i].value) = {}
  BY EmptyIsBefore DEF TurnsInv, WorkersInOrder
<1>. QED
  BY <1>1 DEF Assigned
-----------------------------------------------------------------------------
(* Starting a turn, submitting a text *)

\* A refused or started turn leaves values of their types.
LEMMA StartTurnTypes ==
  ASSUME TypeOK, PlainTexts, NEW value \in Plain, NEW text \in Value, StartTurn(value, text)
  PROVE  /\ busy' \in BOOLEAN /\ refused' \in BOOLEAN
         /\ turn' \in 0..MaxTurns /\ turn <= turn'
         /\ workers' \in Seq(WorkerRecord)
         /\ \A i \in DOMAIN workers' : workers'[i].value \in Plain
         /\ draft' \in Value /\ (text \in Plain => draft' \in Plain)
<1>1. workers \in Seq(WorkerRecord) /\ turn \in 0..MaxTurns /\ MaxTurns \in Nat
  BY WindowAssumption DEF TypeOK, WorkerRecord
<1>2. value \in Value
  BY DEF Plain, Value
<1>3. CASE /\ turn < MaxTurns
           /\ busy' = TRUE /\ turn' = turn + 1
           /\ workers' = Started(workers, Worker("turn", turn + 1, value))
           /\ draft' = text
           /\ UNCHANGED refused
  <2>1. turn + 1 \in 0..MaxTurns
    BY <1>1, <1>3
  <2> DEFINE w == Worker("turn", turn + 1, value)
  <2>2. w \in WorkerRecord /\ w.value = value /\ workers' = Started(workers, w)
    BY <1>2, <1>3, <2>1 DEF Worker, WorkerRecord
  <2> HIDE DEF w
  <2>3. /\ workers' \in Seq(WorkerRecord)
        /\ \A i \in DOMAIN workers : workers'[i] = workers[i]
        /\ workers'[Len(workers) + 1].value = value
        /\ \A i \in DOMAIN workers' : i \in DOMAIN workers \/ i = Len(workers) + 1
    BY <1>1, <2>2, WorkerStarted
  <2>4. \A i \in DOMAIN workers' : workers'[i].value \in Plain
    BY <2>3 DEF PlainTexts
  <2>. QED
    BY <1>1, <1>3, <2>1, <2>3, <2>4 DEF TypeOK
<1>4. CASE /\ busy' = FALSE
           /\ draft' = PutBack(value, text)
           /\ refused' = TRUE
           /\ UNCHANGED <<turn, workers>>
  <2>1. draft' \in Value /\ (text \in Plain => draft' \in Plain)
    BY <1>2, <1>4 DEF PutBack, Plain, Value
  <2>2. \A i \in DOMAIN workers' : workers'[i].value \in Plain
    BY <1>4 DEF PlainTexts
  <2>3. refused' \in BOOLEAN /\ busy' \in BOOLEAN /\ turn' = turn /\ workers' = workers
    BY <1>4
  <2>. QED
    BY <1>1, <2>1, <2>2, <2>3
<1>. QED
  BY <1>3, <1>4 DEF StartTurn

\* The text of a turn is with its worker, or goes back to the composer if the turn is refused.
LEMMA StartTurnTexts ==
  ASSUME TypeOK, NEW value \in Plain, NEW text \in Value, StartTurn(value, text)
  PROVE  \/ /\ refused' = refused /\ busy' /\ draft' = text /\ Assigned' = Assigned \cup ToSet(value)
         \/ /\ refused' /\ ToSet(draft') = ToSet(value) \cup ToSet(text) /\ Assigned' = Assigned
<1>1. workers \in Seq(WorkerRecord) /\ turn \in 0..MaxTurns /\ MaxTurns \in Nat
  BY WindowAssumption DEF TypeOK, WorkerRecord
<1>2. value \in Value
  BY DEF Plain, Value
<1>3. CASE /\ turn < MaxTurns
           /\ busy' = TRUE /\ turn' = turn + 1
           /\ workers' = Started(workers, Worker("turn", turn + 1, value))
           /\ draft' = text
           /\ UNCHANGED refused
  <2>1. turn + 1 \in 0..MaxTurns
    BY <1>1, <1>3
  <2>2. Worker("turn", turn + 1, value) \in WorkerRecord /\ Worker("turn", turn + 1, value).value = value
    BY <1>2, <2>1 DEF Worker, WorkerRecord
  <2>3. Assigned' = Assigned \cup ToSet(value)
    BY <1>1, <1>3, <2>2, AssignedStarted
  <2>. QED
    BY <1>3, <2>3
<1>4. CASE /\ busy' = FALSE
           /\ draft' = PutBack(value, text)
           /\ refused' = TRUE
           /\ UNCHANGED <<turn, workers>>
  <2>1. ToSet(draft') = ToSet(value) \cup ToSet(text)
    BY <1>2, <1>4, JoinedHolds DEF PutBack, Value
  <2>2. Assigned' = Assigned
    BY <1>4 DEF Assigned
  <2>. QED
    BY <1>4, <2>1, <2>2
<1>. QED
  BY <1>3, <1>4 DEF StartTurn

\* A turn starts when none runs and none waits to.
LEMMA StartTurnTurns ==
  ASSUME TypeOK, TurnsInv, ~\E i \in DOMAIN workers : TurnWorker(i), session, session' = session,
         engine' = 0, row' = FALSE, stray' = stray, meddled' \in {meddled, {}},
         NEW value \in Plain, NEW text, StartTurn(value, text)
  PROVE  TurnsInv'
<1>1. workers \in Seq(WorkerRecord) /\ turn \in 0..MaxTurns /\ MaxTurns \in Nat
  BY WindowAssumption DEF TypeOK, WorkerRecord
<1>2. value \in Value
  BY DEF Plain, Value
<1>3. RoleAndFilesStand' /\ CancelHits' /\ RowsSettle'
  BY DEF TurnsInv, RoleAndFilesStand, CancelHits, RowsSettle
<1>4. \A i \in DOMAIN workers :
        /\ workers[i].task # "turn"
        /\ workers[i].value = <<>>
  BY DEF TurnsInv, WorkersInOrder, TurnWorker
<1>5. CASE /\ turn < MaxTurns
           /\ busy' = TRUE /\ turn' = turn + 1
           /\ workers' = Started(workers, Worker("turn", turn + 1, value))
           /\ draft' = text
           /\ UNCHANGED refused
  <2>1. turn + 1 \in 0..MaxTurns /\ turn + 1 # 0
    BY <1>1, <1>5
  <2> DEFINE w == Worker("turn", turn + 1, value)
  <2>2. w \in WorkerRecord /\ w.task = "turn" /\ w.turn = turn + 1 /\ workers' = Started(workers, w)
    BY <1>2, <1>5, <2>1 DEF Worker, WorkerRecord
  <2> HIDE DEF w
  <2>3. /\ \A i \in DOMAIN workers : i \in DOMAIN workers' /\ workers'[i] = workers[i]
        /\ Len(workers) + 1 \in DOMAIN workers' /\ workers'[Len(workers) + 1] = w
        /\ \A i \in DOMAIN workers' : i \in DOMAIN workers \/ i = Len(workers) + 1
        /\ DOMAIN workers = 1..Len(workers) /\ Len(workers) \in Nat
    <3>1. /\ \A i \in DOMAIN workers : i \in DOMAIN Started(workers, w) /\ Started(workers, w)[i] = workers[i]
          /\ Len(workers) + 1 \in DOMAIN Started(workers, w) /\ Started(workers, w)[Len(workers) + 1] = w
          /\ \A i \in DOMAIN Started(workers, w) : i \in DOMAIN workers \/ i = Len(workers) + 1
          /\ DOMAIN workers = 1..Len(workers) /\ Len(workers) \in Nat
      BY <1>1, <2>2, WorkerStarted
    <3>. QED
      BY <2>2, <3>1
  <2>4. ASSUME NEW i \in DOMAIN workers'
        PROVE  /\ TurnWorker(i)' => engine' = 0 /\ workers'[i].turn = turn' /\ turn' # 0
               /\ workers'[i].task = "cancel" => engine' \in {0, workers'[i].turn}
               /\ workers'[i].task = "undo" => engine' = 0
               /\ ~TurnWorker(i)' => workers'[i].value = <<>>
    BY <1>4, <1>5, <2>1, <2>2, <2>3 DEF TurnWorker
  <2>5. ASSUME NEW i \in DOMAIN workers', NEW j \in DOMAIN workers', i < j, TurnWorker(i)'
        PROVE  FALSE
    <3>1. i \in DOMAIN workers
      BY <2>3, <2>5
    <3>. QED
      BY <3>1, <2>3, <2>5, <1>4 DEF TurnWorker
  <2>6. WorkersInOrder'
    BY <2>4, <2>5 DEF WorkersInOrder
  <2>7. Busy'
    <3>1. \E i \in DOMAIN workers' : TurnWorker(i)'
      BY <2>2, <2>3 DEF TurnWorker
    <3>. QED
      BY <1>5, <3>1 DEF Busy
  <2>. QED
    BY <1>3, <2>6, <2>7 DEF TurnsInv
<1>6. CASE /\ busy' = FALSE
           /\ draft' = PutBack(value, text)
           /\ refused' = TRUE
           /\ UNCHANGED <<turn, workers>>
  <2>1. WorkersInOrder'
    BY <1>4, <1>6 DEF WorkersInOrder, TurnWorker
  <2>2. Busy'
    BY <1>4, <1>6 DEF Busy, TurnWorker
  <2>. QED
    BY <1>3, <2>1, <2>2 DEF TurnsInv
<1>. QED
  BY <1>5, <1>6 DEF StartTurn
\* The types of what a submission leaves.
LEMMA SubmitTextTypes ==
  ASSUME TypeOK, PlainTexts, NEW value \in Plain, NEW text \in Plain, SubmitText(value, text)
  PROVE  /\ busy' \in BOOLEAN /\ refused' \in BOOLEAN
         /\ turn' \in 0..MaxTurns /\ turn <= turn'
         /\ workers' \in Seq(WorkerRecord)
         /\ \A i \in DOMAIN workers' : workers'[i].value \in Plain
         /\ queue' \in Seq(Plain) /\ queue' \in Seq(Value)
         /\ draft' \in Value /\ draft' \in Plain
<1>1. value \in Value /\ text \in Value
  BY DEF Plain, Value
<1>2. queue \in Seq(Plain) /\ queue \in Seq(Value) /\ workers \in Seq(WorkerRecord) /\ turn \in 0..MaxTurns
  BY DEF TypeOK, PlainTexts, WorkerRecord
<1>3. \A i \in DOMAIN workers : workers[i].value \in Plain
  BY DEF PlainTexts
<1>4. CASE /\ Taken
           /\ queue' = Queued(queue, value)
           /\ draft' = text
           /\ UNCHANGED <<busy, turn, workers, refused>>
  BY <1>1, <1>2, <1>3, <1>4, WindowAssumption DEF TypeOK, Queued
<1>5. CASE /\ ~Taken /\ ~session
           /\ draft' = value
           /\ UNCHANGED <<busy, queue, turn, workers, refused>>
  BY <1>1, <1>2, <1>3, <1>5, WindowAssumption DEF TypeOK
<1>6. CASE /\ ~Taken /\ session
           /\ StartTurn(value, text)
           /\ UNCHANGED queue
  BY <1>1, <1>2, <1>6, StartTurnTypes
<1>. QED
  BY <1>4, <1>5, <1>6 DEF SubmitText

\* A submission starts a turn only when none runs.
LEMMA SubmitTextTurns ==
  ASSUME TypeOK, TurnsInv, NEW value \in Plain, NEW text, SubmitText(value, text),
         UNCHANGED <<session, engine, row, stray, meddled>>
  PROVE  TurnsInv'
<1>1. CASE UNCHANGED <<busy, turn, workers>>
  BY <1>1 DEF TurnsInv, WorkersInOrder, Busy, TurnWorker, RoleAndFilesStand, CancelHits, RowsSettle
<1>2. CASE ~Taken /\ session /\ StartTurn(value, text)
  <2>1. engine = 0 /\ ~\E i \in DOMAIN workers : TurnWorker(i)
    BY <1>2 DEF TurnsInv, Busy, Taken
  <2>2. row = FALSE
    BY <2>1 DEF TurnsInv, RowsSettle, TypeOK
  <2>. QED
    BY <1>2, <2>1, <2>2, StartTurnTurns
<1>. QED
  BY <1>1, <1>2 DEF SubmitText

\* What is shown, posted or about to be, when no search shows another text.
LEMMA ScreenAlone ==
  ASSUME posted' = None, search' = None
  PROVE  OnScreen' = {draft'}
BY DEF OnScreen

\* A submission keeps the texts in line: queued last, or started if nothing is queued.
LEMMA SubmitTextLine ==
  ASSUME TypeOK, PlainTexts, TurnsInv, TextsTyped, InLine,
         NEW value \in Plain, value \in OnScreen \/ value = <<Act>>, NEW text \in Plain, text \in {<<>>, <<Act>>},
         SubmitText(value, text), posted' = None, search' = None, UNCHANGED <<sent, typed>>
  PROVE  TextsTyped' /\ InLine'
<1> DEFINE shown == OnScreen \cup {<<Act>>}
<1>1. value \in shown /\ value \in Value /\ text \in Value /\ queue \in Seq(Plain)
  BY DEF Plain, Value, PlainTexts
<1>2. Ordered(sent, Assigned, queue, OnScreen) => Ordered(sent, Assigned, queue, shown)
  BY ActIsNoText DEF Ordered
<1>3. UpTo(typed, Known(sent, Assigned, queue, shown))
  <2>1. \A t \in Text : t \notin ToSet(<<Act>>)
    BY ActIsNoText
  <2>2. ASSUME NEW t \in Text, t \in Known(sent, Assigned, queue, shown)
        PROVE  t \in Known(sent, Assigned, queue, OnScreen)
    <3>1. ~\E v \in {<<Act>>} : t \in ToSet(v)
      BY <2>1
    <3>. QED
      BY <2>2, <3>1, KnownIs
  <2>. QED
    BY <2>2 DEF TextsTyped, UpTo
<1>4. OnScreen' = {draft'}
  BY ScreenAlone
<1>5. \A t \in Text : t \notin ToSet(text)
  BY ActIsNoText
<1> HIDE DEF shown
<1>6. CASE /\ Taken
           /\ queue' = Queued(queue, value)
           /\ draft' = text
           /\ UNCHANGED <<busy, turn, workers, refused>>
  <2>1. Assigned' = Assigned
    BY <1>6 DEF Assigned
  <2>2. \A t : (\E i \in DOMAIN queue' : t \in ToSet(queue'[i])) <=> t \in ToSet(value) \/ \E i \in DOMAIN queue : t \in ToSet(queue[i])
    <3>1. /\ \A i \in DOMAIN queue' : queue'[i] = value \/ (i \in DOMAIN queue /\ queue'[i] = queue[i])
          /\ \A i \in DOMAIN queue : i \in DOMAIN queue' /\ queue'[i] = queue[i]
          /\ Len(queue) + 1 \in DOMAIN queue' /\ queue'[Len(queue) + 1] = value
      BY <1>1, <1>6 DEF Queued
    <3>. QED
      BY <3>1
  <2>3. ASSUME NEW t \in Text, t \in Known(sent', Assigned', queue', OnScreen')
        PROVE  t \in Known(sent, Assigned, queue, shown)
    <3>1. \/ t \in sent' \cup Assigned'
          \/ \E i \in DOMAIN queue' : t \in ToSet(queue'[i])
          \/ \E v \in OnScreen' : t \in ToSet(v)
      BY <2>3, KnownIs
    <3>2. ~\E v \in OnScreen' : t \in ToSet(v)
      BY <1>4, <1>5, <1>6
    <3>3. \/ t \in sent \cup Assigned
          \/ \E i \in DOMAIN queue : t \in ToSet(queue[i])
          \/ t \in ToSet(value)
      BY <2>1, <2>2, <3>1, <3>2
    <3>. QED
      BY <1>1, <3>3, KnownIs
  <2>4. Ordered(sent, Assigned, queue, shown) => Ordered(sent, Assigned, queue', {text})
    BY <1>1, <1>6, OrderedQueued DEF Queued
  <2>5. InLine'
    BY <1>2, <1>4, <1>6, <2>1, <2>4 DEF InLine, Taken
  <2>6. TextsTyped'
    BY <1>3, <2>3 DEF TextsTyped, UpTo
  <2>. QED
    BY <2>5, <2>6
<1>7. CASE /\ ~Taken /\ ~session
           /\ draft' = value
           /\ UNCHANGED <<busy, queue, turn, workers, refused>>
  <2>1. Assigned' = Assigned
    BY <1>7 DEF Assigned
  <2>a. ASSUME NEW t \in Text, t \in Known(sent', Assigned', queue', OnScreen')
        PROVE  t \in Known(sent, Assigned, queue, shown)
    <3>1. \/ t \in sent' \cup Assigned'
          \/ \E i \in DOMAIN queue' : t \in ToSet(queue'[i])
          \/ \E v \in OnScreen' : t \in ToSet(v)
      BY <2>a, KnownIs
    <3>. QED
      BY <1>1, <1>4, <1>7, <2>1, <3>1, KnownIs
  <2>2. TextsTyped'
    BY <1>3, <2>a DEF TextsTyped, UpTo
  <2>3. Ordered(sent, Assigned, queue, shown) => Ordered(sent, Assigned, queue, {value})
    BY <1>1, OrderedFewer
  <2>4. InLine'
    BY <1>2, <1>4, <1>7, <2>1, <2>3 DEF InLine
  <2>. QED
    BY <2>2, <2>4
<1>8. CASE /\ ~Taken /\ session
           /\ StartTurn(value, text)
           /\ UNCHANGED queue
  <2>1. Assigned = {}
    BY <1>8, NoneAssigned DEF TurnsInv, Busy, Taken
  <2>2. \/ /\ refused' = refused /\ busy' /\ draft' = text /\ Assigned' = ToSet(value)
        \/ /\ refused' /\ ToSet(draft') = ToSet(value) \cup ToSet(text) /\ Assigned' = Assigned
    BY <1>1, <1>8, <2>1, StartTurnTexts
  <2>a. ASSUME NEW t \in Text, t \in Known(sent', Assigned', queue', OnScreen')
        PROVE  t \in Known(sent, Assigned, queue, shown)
    <3>1. \/ t \in sent' \cup Assigned'
          \/ \E i \in DOMAIN queue' : t \in ToSet(queue'[i])
          \/ \E v \in OnScreen' : t \in ToSet(v)
      BY <2>a, KnownIs
    <3>2. \/ t \in sent \cup Assigned
          \/ \E i \in DOMAIN queue : t \in ToSet(queue[i])
          \/ t \in ToSet(value)
      BY <1>4, <1>5, <1>8, <2>2, <3>1
    <3>. QED
      BY <1>1, <3>2, KnownIs
  <2>3. TextsTyped'
    BY <1>3, <2>a DEF TextsTyped, UpTo
  <2>4. CASE ~refused'
    <3>1. refused = FALSE /\ ~busy
      BY <2>2, <2>4, <1>8 DEF TypeOK, Taken
    <3>2. queue = <<>> /\ DOMAIN queue = {} /\ Ordered(sent, {}, queue, shown)
      BY <1>2, <2>1, <3>1 DEF InLine
    <3>3. Ordered(sent, ToSet(value), queue, {text})
      BY <1>1, <3>2, OrderedStarted
    <3>. QED
      BY <1>4, <1>8, <2>2, <2>3, <2>4, <3>2, <3>3 DEF InLine
  <2>. QED
    BY <2>3, <2>4 DEF InLine
<1>. QED
  BY <1>6, <1>7, <1>8 DEF SubmitText
-----------------------------------------------------------------------------
(* Every step keeps the types *)

\* Plain texts are values, and what the composer gets back from the queue is one.
LEMMA ReturnedTypes ==
  ASSUME NEW q \in Seq(Plain), NEW text \in Value
  PROVE  Returned(q, text) \in Value /\ (text \in Plain => Returned(q, text) \in Plain)
<1>1. FlattenSeq(q) \in Seq(Text \cup {Act})
  BY FlattenedHolds DEF Plain
<1>. QED
  BY <1>1 DEF Returned, Plain, Value

\* A cancel leaves the queue empty and its texts with the composer.
LEMMA CancelTypes ==
  ASSUME TypeOK, PlainTexts, CancelTurn
  PROVE  TypeOK' /\ PlainTexts'
<1>1. workers \in Seq(WorkerRecord) /\ turn \in 0..MaxTurns /\ queue \in Seq(Plain) /\ draft \in Value
  BY DEF TypeOK, PlainTexts, WorkerRecord
<1>2. draft' \in Value /\ (draft \in Plain => draft' \in Plain)
  BY <1>1, ReturnedTypes DEF CancelTurn
<1> DEFINE w == Worker("cancel", turn, <<>>)
<1>3. w \in WorkerRecord /\ workers' = Started(workers, w) /\ w.value = <<>>
  BY <1>1 DEF CancelTurn, Worker, WorkerRecord, Value
<1> HIDE DEF w
<1>4. /\ workers' \in Seq(WorkerRecord)
      /\ \A i \in DOMAIN workers : workers'[i] = workers[i]
      /\ workers'[Len(workers) + 1] = w
      /\ \A i \in DOMAIN workers' : i \in DOMAIN workers \/ i = Len(workers) + 1
  BY <1>1, <1>3, WorkerStarted
<1>5. <<>> \in Plain /\ <<>> \in Seq(Plain) /\ <<>> \in Seq(Value)
  BY DEF Plain
<1>6. \A i \in DOMAIN workers' : workers'[i].value \in Plain
  BY <1>3, <1>4, <1>5 DEF PlainTexts
<1>7. PlainTexts'
  BY <1>2, <1>5, <1>6 DEF CancelTurn, PlainTexts
<1>8. TypeOK'
  BY <1>2, <1>4, <1>5 DEF CancelTurn, TypeOK, WorkerRecord, run, history
<1>. QED
  BY <1>7, <1>8

\* The rest of the workers are workers.
LEMMA SteppedTypes ==
  ASSUME TypeOK, PlainTexts, workers # <<>>, workers' = Tail(workers)
  PROVE  /\ workers' \in Seq(WorkerRecord) /\ 1 \in DOMAIN workers /\ workers[1] \in WorkerRecord
         /\ \A i \in DOMAIN workers' : workers'[i].value \in Plain
<1>1. workers \in Seq(WorkerRecord)
  BY DEF TypeOK, WorkerRecord
<1>2. /\ workers' \in Seq(WorkerRecord) /\ 1 \in DOMAIN workers
      /\ \A i \in DOMAIN workers' : i + 1 \in DOMAIN workers /\ workers'[i] = workers[i + 1]
  BY <1>1, WorkerStepped
<1>3. \A i \in DOMAIN workers' : workers'[i].value \in Plain
  BY <1>2 DEF PlainTexts
<1>. QED
  BY <1>1, <1>2, <1>3

\* What is typed, entered or looked up has its type.
LEMMA KeyboardTypes ==
  ASSUME TypeOK, PlainTexts, Type \/ Enter \/ Search \/ AcceptMatch \/ Escape \/ PickModel \/ PickSession \/ OpenPicker
  PROVE  TypeOK' /\ PlainTexts'
<1> USE DEF turns, run, history
<1>1. CASE Type
  <2>1. typed + 1 \in Text /\ typed + 1 \in 0..MaxTexts
    BY <1>1, WindowAssumption DEF Type, TypeOK, Text
  <2>2. draft \in Plain
    BY <1>1 DEF Type, Typing, PlainTexts
  <2>3. draft' \in Plain /\ draft' \in Value
    BY <1>1, <2>1, <2>2 DEF Type, Plain, Value
  <2>4. TypeOK'
    BY <1>1, <2>1, <2>3 DEF Type, TypeOK
  <2>5. PlainTexts'
    BY <1>1, <2>3 DEF Type, PlainTexts
  <2>. QED
    BY <2>4, <2>5
<1>2. CASE Enter
  <2>1. draft \in Plain /\ search = None
    BY <1>2 DEF Enter, Typing, PlainTexts
  <2>2. TypeOK'
    BY <1>2 DEF Enter, TypeOK
  <2>3. PlainTexts'
    BY <1>2, <2>1 DEF Enter, PlainTexts
  <2>. QED
    BY <2>2, <2>3
<1>3. CASE Search
  <2>1. draft \in Plain /\ draft \in Value /\ posted = None /\ draft # None
    BY <1>3, WindowAssumption DEF Search, Typing, PlainTexts, TypeOK, Value
  <2>2. <<Recalled>> \in Value
    BY DEF Value
  <2>3. TypeOK'
    BY <1>3, <2>1, <2>2 DEF Search, TypeOK
  <2>4. PlainTexts'
    BY <1>3, <2>1 DEF Search, PlainTexts
  <2>. QED
    BY <2>3, <2>4
<1>4. CASE AcceptMatch
  <2>1. <<>> \in Value /\ <<>> \in Plain
    BY DEF Value, Plain
  <2>2. TypeOK'
    BY <1>4, <2>1 DEF AcceptMatch, TypeOK
  <2>3. PlainTexts'
    BY <1>4, <2>1 DEF AcceptMatch, PlainTexts
  <2>. QED
    BY <2>2, <2>3
<1>5. CASE Escape
  <2>1. CASE CancelTurn
    BY <2>1, CancelTypes
  <2>2. CASE /\ screens # <<>>
             /\ screens' = Tail(screens)
             /\ UNCHANGED <<session, draft, search, posted, soul, typed, turns, listing, run, history>>
    <3>1. TypeOK'
      BY <2>2 DEF TypeOK
    <3>2. PlainTexts'
      BY <2>2 DEF PlainTexts
    <3>. QED
      BY <3>1, <3>2
  <2>3. CASE /\ screens = <<>> /\ search # None
             /\ draft' = search
             /\ search' = None
             /\ UNCHANGED <<session, posted, screens, soul, typed, turns, listing, run, history>>
    <3>1. search \in Plain /\ search \in Value
      BY <2>3 DEF PlainTexts, TypeOK
    <3>2. TypeOK'
      BY <2>3, <3>1 DEF TypeOK
    <3>3. PlainTexts'
      BY <2>3, <3>1 DEF PlainTexts
    <3>. QED
      BY <3>2, <3>3
  <2>. QED
    BY <1>5, <2>1, <2>2, <2>3 DEF Escape
<1>6. CASE PickModel
  <2>a. meddled' \subseteq meddled \cup {"model"} /\ screens' = Tail(screens) /\ screens # <<>>
    BY <1>6 DEF PickModel, Under
  <2>b. screens' \in Seq([screen : {"sessions", "models"}, readonly : BOOLEAN])
    BY <2>a DEF TypeOK
  <2>1. TypeOK'
    <3>1. meddled' \subseteq {"model", "conversation", "role", "undo"}
      BY <2>a DEF TypeOK
    <3>2. /\ UNCHANGED <<session, draft, search, posted, soul, typed, listing>>
          /\ UNCHANGED <<busy, cancelling, queue, turn, workers>>
          /\ UNCHANGED <<engine, stopping, row, sent, refused, stray>>
      BY <1>6 DEF PickModel, turns, run
    <3>. QED
      BY <2>b, <3>1, <3>2 DEF TypeOK
  <2>2. PlainTexts'
    BY <1>6 DEF PickModel, PlainTexts
  <2>. QED
    BY <2>1, <2>2
<1>7. CASE PickSession
  <2>1. TypeOK'
    BY <1>7 DEF PickSession, TypeOK, Under
  <2>2. PlainTexts'
    BY <1>7 DEF PickSession, PlainTexts
  <2>. QED
    BY <2>1, <2>2
<1>8. CASE OpenPicker
  <2>1. TypeOK'
    BY <1>8 DEF OpenPicker, TypeOK, Push
  <2>2. PlainTexts'
    BY <1>8 DEF OpenPicker, PlainTexts
  <2>. QED
    BY <2>1, <2>2
<1>. QED
  BY <1>1, <1>2, <1>3, <1>4, <1>5, <1>6, <1>7, <1>8
\* Commands keep the types.
LEMMA CommandTypes ==
  ASSUME TypeOK, PlainTexts, Commands
  PROVE  TypeOK' /\ PlainTexts'
<1> USE DEF keys, run, history
<1>1. CASE SetRole
  <2>1. meddled' \subseteq meddled \cup {"role"}
    BY <1>1 DEF SetRole, Under
  <2>2. TypeOK'
    BY <1>1, <2>1 DEF SetRole, TypeOK, turns
  <2>3. PlainTexts'
    BY <1>1 DEF SetRole, PlainTexts, turns
  <2>. QED
    BY <2>2, <2>3
<1>2. CASE CmdAct
  <2>1. <<Act>> \in Plain /\ SubmitText(<<Act>>, <<Act>>)
    BY <1>2 DEF CmdAct, Plain
  <2>2. /\ busy' \in BOOLEAN /\ refused' \in BOOLEAN
        /\ turn' \in 0..MaxTurns /\ turn <= turn'
        /\ workers' \in Seq(WorkerRecord)
        /\ \A i \in DOMAIN workers' : workers'[i].value \in Plain
        /\ queue' \in Seq(Plain) /\ queue' \in Seq(Value)
        /\ draft' \in Value /\ draft' \in Plain
    BY <2>1, SubmitTextTypes
  <2>3. engine' \in 0..turn'
    BY <1>2, <2>2, WindowAssumption DEF CmdAct, TypeOK
  <2>4. TypeOK'
    BY <1>2, <2>2, <2>3 DEF CmdAct, TypeOK, WorkerRecord
  <2>5. PlainTexts'
    BY <1>2, <2>2 DEF CmdAct, PlainTexts
  <2>. QED
    BY <2>4, <2>5
<1>3. CASE CmdSoul
  <2>1. TypeOK'
    BY <1>3 DEF CmdSoul, TypeOK, turns
  <2>2. PlainTexts'
    BY <1>3 DEF CmdSoul, PlainTexts, turns
  <2>. QED
    BY <2>1, <2>2
<1>4. CASE CmdUndo
  <2>1. workers \in Seq(WorkerRecord) /\ turn \in 0..MaxTurns
    BY DEF TypeOK, WorkerRecord
  <2> DEFINE w == Worker("undo", turn, <<>>)
  <2>2. w \in WorkerRecord /\ workers' = Started(workers, w) /\ w.value = <<>>
    BY <1>4, <2>1 DEF CmdUndo, Worker, WorkerRecord, Value
  <2> HIDE DEF w
  <2>3. /\ workers' \in Seq(WorkerRecord)
        /\ \A i \in DOMAIN workers : workers'[i] = workers[i]
        /\ workers'[Len(workers) + 1] = w
        /\ \A i \in DOMAIN workers' : i \in DOMAIN workers \/ i = Len(workers) + 1
    BY <2>1, <2>2, WorkerStarted
  <2>4. <<>> \in Plain
    BY DEF Plain
  <2>5. \A i \in DOMAIN workers' : workers'[i].value \in Plain
    BY <2>2, <2>3, <2>4 DEF PlainTexts
  <2>6. TypeOK'
    BY <1>4, <2>3 DEF CmdUndo, TypeOK, WorkerRecord
  <2>7. PlainTexts'
    BY <1>4, <2>5 DEF CmdUndo, PlainTexts
  <2>. QED
    BY <2>6, <2>7
<1>5. CASE CmdModel
  <2>1. TypeOK'
    BY <1>5 DEF CmdModel, TypeOK, turns
  <2>2. PlainTexts'
    BY <1>5 DEF CmdModel, PlainTexts, turns
  <2>. QED
    BY <2>1, <2>2
<1>. QED
  BY <1>1, <1>2, <1>3, <1>4, <1>5 DEF Commands

\* So do the workers' steps.
LEMMA WorkerTypes ==
  ASSUME TypeOK, PlainTexts, TurnsInv, Workers
  PROVE  TypeOK' /\ PlainTexts'
<1> USE DEF keys, history
<1>0. workers # <<>> /\ workers' = Tail(workers)
  BY DEF Workers, TurnBegins, CancelRuns, UndoRuns, FirstWorker
<1>1. /\ workers' \in Seq(WorkerRecord) /\ 1 \in DOMAIN workers /\ workers[1] \in WorkerRecord
      /\ \A i \in DOMAIN workers' : workers'[i].value \in Plain
  BY <1>0, SteppedTypes
<1>2. CASE TurnBegins
  <2>1. engine' = turn /\ turn' = turn
    BY <1>1, <1>2 DEF TurnBegins, FirstWorker, TurnsInv, WorkersInOrder, TurnWorker
  <2>2. engine' \in 0..turn'
    BY <2>1, WindowAssumption DEF TypeOK
  <2>3. sent' \subseteq Text \cup {Act}
    <3>1. workers[1].value \in Seq(Text \cup {Act})
      BY <1>1 DEF PlainTexts, Plain
    <3>2. ToSet(workers[1].value) \subseteq Text \cup {Act}
      BY <3>1 DEF ToSet
    <3>. QED
      BY <1>2, <3>2 DEF TurnBegins, TypeOK
  <2>4. TypeOK'
    BY <1>1, <1>2, <2>2, <2>3 DEF TurnBegins, TypeOK, WorkerRecord
  <2>5. PlainTexts'
    BY <1>1, <1>2 DEF TurnBegins, PlainTexts
  <2>. QED
    BY <2>4, <2>5
<1>3. CASE CancelRuns
  <2>1. stopping' \in BOOLEAN /\ stray' \in BOOLEAN
    BY <1>3 DEF CancelRuns, TypeOK
  <2>2. TypeOK'
    BY <1>1, <1>3, <2>1 DEF CancelRuns, TypeOK, WorkerRecord
  <2>3. PlainTexts'
    BY <1>1, <1>3 DEF CancelRuns, PlainTexts
  <2>. QED
    BY <2>2, <2>3
<1>4. CASE UndoRuns
  <2>1. meddled' \subseteq meddled \cup {"undo"}
    BY <1>4 DEF UndoRuns, Under
  <2>2. TypeOK'
    <3>1. meddled' \subseteq {"model", "conversation", "role", "undo"}
      BY <2>1 DEF TypeOK
    <3>2. /\ UNCHANGED <<session, draft, search, posted, screens, soul, typed, listing>>
          /\ UNCHANGED <<busy, cancelling, queue, turn, engine, stopping, row, sent, refused, stray>>
          /\ workers' = Tail(workers) /\ workers # <<>>
      BY <1>4 DEF UndoRuns, FirstWorker, keys, run
    <3>3. workers' \in Seq([task : {"turn", "cancel", "undo"}, turn : 0..MaxTurns, value : Value])
      BY <3>2 DEF TypeOK
    <3>. QED
      BY <3>1, <3>2, <3>3 DEF TypeOK
  <2>3. PlainTexts'
    BY <1>1, <1>4 DEF UndoRuns, PlainTexts, run
  <2>. QED
    BY <2>2, <2>3
<1>. QED
  BY <1>2, <1>3, <1>4 DEF Workers

\* The end of a turn takes the first of the queue or leaves it.
LEMMA TurnEndsTypes ==
  ASSUME TypeOK, PlainTexts, TurnsInv, TurnEnds
  PROVE  TypeOK' /\ PlainTexts'
<1>1. engine' = 0 /\ row' = FALSE /\ cancelling' = FALSE /\ meddled' = {} /\ stopping' = FALSE
  BY DEF TurnEnds, Closed, Confirmed
<1>2. /\ busy' \in BOOLEAN /\ refused' \in BOOLEAN
      /\ turn' \in 0..MaxTurns
      /\ workers' \in Seq(WorkerRecord)
      /\ \A i \in DOMAIN workers' : workers'[i].value \in Plain
      /\ queue' \in Seq(Plain) /\ queue' \in Seq(Value)
      /\ draft' \in Value /\ (draft \in Plain => draft' \in Plain)
  <2>1. queue \in Seq(Plain) /\ queue \in Seq(Value) /\ draft \in Value
    BY DEF TypeOK, PlainTexts
  <2>2. CASE /\ ~Dequeues
             /\ busy' = FALSE
             /\ UNCHANGED <<queue, turn, workers, draft, refused>>
    BY <2>2, <2>1 DEF TypeOK, PlainTexts, WorkerRecord
  <2>3. CASE /\ Dequeues
             /\ queue' = Tail(queue)
             /\ StartTurn(queue[1], draft)
    <3>1. queue[1] \in Plain /\ queue' \in Seq(Plain) /\ queue' \in Seq(Value)
      BY <2>1, <2>3 DEF Dequeues
    <3>. QED
      BY <2>1, <2>3, <3>1, StartTurnTypes
  <2>. QED
    BY <2>2, <2>3 DEF TurnEnds
<1>3. engine' \in 0..turn'
  BY <1>1, <1>2, WindowAssumption
<1>4. TypeOK'
  BY <1>1, <1>2, <1>3 DEF TurnEnds, TypeOK, WorkerRecord
<1>5. PlainTexts'
  BY <1>2 DEF TurnEnds, PlainTexts
<1>. QED
  BY <1>4, <1>5

\* What is left: a submission, the list of models, a tool, the runtime.
LEMMA OtherTypes ==
  ASSUME TypeOK, PlainTexts, OnSubmit \/ Listed \/ ToolStarts \/ ToolFinishes \/ Initialize
  PROVE  TypeOK' /\ PlainTexts'
<1> USE DEF run, history
<1>1. CASE OnSubmit
  <2>1. posted \in Plain /\ search = None /\ <<>> \in Plain /\ <<>> \in Value
    BY <1>1 DEF OnSubmit, PlainTexts, Plain, Value
  <2>2. CASE /\ soul
             /\ draft' = <<>> /\ soul' = FALSE
             /\ UNCHANGED <<turns, refused>>
    <3>1. TypeOK'
      BY <1>1, <2>1, <2>2 DEF OnSubmit, TypeOK, turns
    <3>2. PlainTexts'
      BY <1>1, <2>1, <2>2 DEF OnSubmit, PlainTexts, turns
    <3>. QED
      BY <3>1, <3>2
  <2>3. CASE /\ ~soul
             /\ SubmitText(posted, <<>>)
             /\ UNCHANGED <<soul, cancelling>>
    <3>1. /\ busy' \in BOOLEAN /\ refused' \in BOOLEAN
          /\ turn' \in 0..MaxTurns /\ turn <= turn'
          /\ workers' \in Seq(WorkerRecord)
          /\ \A i \in DOMAIN workers' : workers'[i].value \in Plain
          /\ queue' \in Seq(Plain) /\ queue' \in Seq(Value)
          /\ draft' \in Value /\ draft' \in Plain
      BY <2>1, <2>3, SubmitTextTypes
    <3>2. engine' \in 0..turn'
      BY <1>1, <3>1, WindowAssumption DEF OnSubmit, TypeOK
    <3>3. TypeOK'
      BY <1>1, <2>3, <3>1, <3>2 DEF OnSubmit, TypeOK, WorkerRecord
    <3>4. PlainTexts'
      BY <1>1, <3>1 DEF OnSubmit, PlainTexts
    <3>. QED
      BY <3>3, <3>4
  <2>. QED
    BY <1>1, <2>2, <2>3 DEF OnSubmit
<1>2. CASE Listed
  <2>1. meddled' \subseteq meddled \cup {"model"}
    BY <1>2 DEF Listed, Under
  <2>2. screens' \in Seq([screen : {"sessions", "models"}, readonly : BOOLEAN])
    <3> DEFINE Screens == Seq([screen : {"sessions", "models"}, readonly : BOOLEAN])
    <3>1. screens \in Screens /\ <<[screen |-> "models", readonly |-> FALSE]>> \in Screens
      BY DEF TypeOK
    <3>2. screens' = screens \/ screens' = <<[screen |-> "models", readonly |-> FALSE]>> \o screens
      BY <1>2 DEF Listed, Push
    <3>3. \A a, b \in Screens : a \o b \in Screens
      OBVIOUS
    <3> HIDE DEF Screens
    <3>4. screens' \in Screens
      BY <3>1, <3>2, <3>3
    <3>. QED
      BY <3>4 DEF Screens
  <2>3. TypeOK'
    BY <1>2, <2>1, <2>2 DEF Listed, TypeOK, turns
  <2>4. PlainTexts'
    BY <1>2 DEF Listed, PlainTexts, turns
  <2>. QED
    BY <2>3, <2>4
<1>3. CASE ToolStarts \/ ToolFinishes
  <2>1. TypeOK'
    <3>1. /\ UNCHANGED <<session, draft, search, posted, screens, soul, typed, listing>>
          /\ UNCHANGED <<busy, cancelling, queue, turn, workers>>
          /\ UNCHANGED <<engine, stopping, sent, refused, meddled, stray>>
          /\ row' \in BOOLEAN
      BY <1>3 DEF ToolStarts, ToolFinishes, keys, turns, history
    <3>. QED
      BY <3>1 DEF TypeOK
  <2>2. PlainTexts'
    BY <1>3 DEF ToolStarts, ToolFinishes, PlainTexts, keys, turns
  <2>. QED
    BY <2>1, <2>2
<1>4. CASE Initialize
  <2>1. TypeOK'
    BY <1>4 DEF Initialize, TypeOK, keys, turns
  <2>2. PlainTexts'
    BY <1>4 DEF Initialize, PlainTexts, keys, turns
  <2>. QED
    BY <2>1, <2>2
<1>. QED
  BY <1>1, <1>2, <1>3, <1>4
-----------------------------------------------------------------------------
(* Every step keeps the turns apart *)

\* Steps that are not about turns.
LEMMA TurnsSame ==
  ASSUME TurnsInv, UNCHANGED <<session, busy, turn, workers, engine, stray>>,
         meddled' \cap {"role", "undo"} \subseteq meddled, row' => engine # 0
  PROVE  TurnsInv'
<1>1. WorkersInOrder' /\ Busy'
  BY DEF TurnsInv, WorkersInOrder, Busy, TurnWorker
<1>2. RoleAndFilesStand' /\ CancelHits' /\ RowsSettle'
  BY DEF TurnsInv, RoleAndFilesStand, CancelHits, RowsSettle
<1>. QED
  BY <1>1, <1>2 DEF TurnsInv

\* A cancel or an undo is started behind what it is about.
LEMMA TurnsStarted ==
  ASSUME TypeOK, TurnsInv, UNCHANGED <<session, busy, turn, engine, row, meddled, stray>>,
         NEW w \in WorkerRecord, workers' = Started(workers, w), w.value = <<>>, w.turn = turn,
         (w.task = "cancel" /\ busy) \/ (w.task = "undo" /\ ~busy)
  PROVE  TurnsInv'
<1>1. workers \in Seq(WorkerRecord)
  BY DEF TypeOK, WorkerRecord
<1>2. /\ \A i \in DOMAIN workers : i \in DOMAIN workers' /\ workers'[i] = workers[i]
      /\ Len(workers) + 1 \in DOMAIN workers' /\ workers'[Len(workers) + 1] = w
      /\ \A i \in DOMAIN workers' : i \in DOMAIN workers \/ i = Len(workers) + 1
      /\ DOMAIN workers = 1..Len(workers) /\ Len(workers) \in Nat
  <2>1. /\ \A i \in DOMAIN workers : i \in DOMAIN Started(workers, w) /\ Started(workers, w)[i] = workers[i]
        /\ Len(workers) + 1 \in DOMAIN Started(workers, w) /\ Started(workers, w)[Len(workers) + 1] = w
        /\ \A i \in DOMAIN Started(workers, w) : i \in DOMAIN workers \/ i = Len(workers) + 1
        /\ DOMAIN workers = 1..Len(workers) /\ Len(workers) \in Nat
    BY <1>1, WorkerStarted
  <2>. QED
    BY <2>1
<1>3. w.task # "turn"
  OBVIOUS
<1>4. ASSUME NEW i \in DOMAIN workers'
      PROVE  /\ TurnWorker(i)' => engine' = 0 /\ workers'[i].turn = turn' /\ turn' # 0
             /\ workers'[i].task = "cancel" => engine' \in {0, workers'[i].turn}
             /\ workers'[i].task = "undo" => engine' = 0
             /\ ~TurnWorker(i)' => workers'[i].value = <<>>
  <2>1. CASE i \in DOMAIN workers
    BY <2>1, <1>2 DEF TurnsInv, WorkersInOrder, TurnWorker
  <2>2. CASE i = Len(workers) + 1
    BY <2>2, <1>2, <1>3 DEF TurnsInv, Busy, TurnWorker
  <2>. QED
    BY <1>2, <2>1, <2>2
<1>5. ASSUME NEW i \in DOMAIN workers', NEW j \in DOMAIN workers', i < j, TurnWorker(i)'
      PROVE  workers'[j].task = "cancel" /\ workers'[j].turn = turn'
  <2>1. i \in DOMAIN workers /\ workers'[i] = workers[i] /\ TurnWorker(i)
    <3>1. i # Len(workers) + 1
      BY <1>2, <1>3, <1>5 DEF TurnWorker
    <3>. QED
      BY <3>1, <1>2, <1>5 DEF TurnWorker
  <2>2. CASE j \in DOMAIN workers
    BY <1>2, <1>5, <2>1, <2>2 DEF TurnsInv, WorkersInOrder
  <2>3. CASE j = Len(workers) + 1
    BY <1>2, <2>1, <2>3 DEF TurnsInv, Busy
  <2>. QED
    BY <1>2, <2>2, <2>3
<1>6. WorkersInOrder'
  BY <1>4, <1>5 DEF WorkersInOrder
<1>7. (\E i \in DOMAIN workers' : TurnWorker(i)') <=> \E i \in DOMAIN workers : TurnWorker(i)
  BY <1>2, <1>3 DEF TurnWorker
<1>8. Busy'
  BY <1>7 DEF TurnsInv, Busy
<1>9. RoleAndFilesStand' /\ CancelHits' /\ RowsSettle'
  BY DEF TurnsInv, RoleAndFilesStand, CancelHits, RowsSettle
<1>. QED
  BY <1>6, <1>8, <1>9 DEF TurnsInv

\* The first worker takes its step, which is not a turn's.
LEMMA TurnsStepped ==
  ASSUME TypeOK, TurnsInv, workers # <<>>, ~TurnWorker(1), workers' = Tail(workers),
         UNCHANGED <<session, busy, turn, engine>>, RoleAndFilesStand', CancelHits', RowsSettle'
  PROVE  TurnsInv'
<1>1. workers \in Seq(WorkerRecord)
  BY DEF TypeOK, WorkerRecord
<1>2. /\ 1 \in DOMAIN workers
      /\ \A i \in DOMAIN workers' : i + 1 \in DOMAIN workers /\ workers'[i] = workers[i + 1] /\ 1 < i + 1
      /\ \A i, j \in DOMAIN workers' : i < j => i + 1 < j + 1
      /\ \A i \in DOMAIN workers : i = 1 \/ (i - 1 \in DOMAIN workers' /\ workers'[i - 1] = workers[i])
  BY <1>1, WorkerStepped
<1>3. \A i \in DOMAIN workers' : TurnWorker(i)' <=> TurnWorker(i + 1)
  BY <1>2 DEF TurnWorker
<1>4. ASSUME NEW i \in DOMAIN workers'
      PROVE  /\ TurnWorker(i)' => engine' = 0 /\ workers'[i].turn = turn' /\ turn' # 0
             /\ workers'[i].task = "cancel" => engine' \in {0, workers'[i].turn}
             /\ workers'[i].task = "undo" => engine' = 0
             /\ ~TurnWorker(i)' => workers'[i].value = <<>>
  BY <1>2, <1>3 DEF TurnsInv, WorkersInOrder
<1>5. ASSUME NEW i \in DOMAIN workers', NEW j \in DOMAIN workers', i < j, TurnWorker(i)'
      PROVE  workers'[j].task = "cancel" /\ workers'[j].turn = turn'
  <2>1. i + 1 \in DOMAIN workers /\ j + 1 \in DOMAIN workers /\ i + 1 < j + 1 /\ TurnWorker(i + 1)
    BY <1>2, <1>3, <1>5
  <2>. QED
    BY <1>2, <2>1 DEF TurnsInv, WorkersInOrder
<1>6. WorkersInOrder'
  BY <1>4, <1>5 DEF WorkersInOrder
<1>7. (\E i \in DOMAIN workers' : TurnWorker(i)') <=> \E i \in DOMAIN workers : TurnWorker(i)
  <2>1. ASSUME NEW i \in DOMAIN workers, TurnWorker(i)
        PROVE  \E k \in DOMAIN workers' : TurnWorker(k)'
    <3>1. i # 1
      BY <2>1
    <3>2. i - 1 \in DOMAIN workers' /\ workers'[i - 1] = workers[i]
      BY <1>2, <3>1
    <3>3. TurnWorker(i - 1)'
      BY <2>1, <3>2 DEF TurnWorker
    <3>. QED
      BY <3>2, <3>3
  <2>. QED
    BY <1>2, <1>3, <2>1
<1>8. Busy'
  BY <1>7 DEF TurnsInv, Busy
<1>. QED
  BY <1>6, <1>8 DEF TurnsInv

\* A turn begins: only its own cancels are left, and no other turn.
LEMMA TurnsBegun ==
  ASSUME TypeOK, TurnsInv, TurnBegins
  PROVE  TurnsInv'
<1>1. workers \in Seq(WorkerRecord) /\ workers # <<>> /\ workers' = Tail(workers)
  BY DEF TypeOK, WorkerRecord, TurnBegins, FirstWorker
<1>2. /\ 1 \in DOMAIN workers
      /\ \A i \in DOMAIN workers' : i + 1 \in DOMAIN workers /\ workers'[i] = workers[i + 1] /\ 1 < i + 1
  BY <1>1, WorkerStepped
<1>3. TurnWorker(1) /\ workers[1].turn = turn /\ turn # 0
  BY <1>2 DEF TurnBegins, FirstWorker, TurnsInv, WorkersInOrder, TurnWorker
<1>4. engine' = turn /\ turn' = turn /\ session' = session /\ busy' = busy
  BY <1>3 DEF TurnBegins
<1>5. \A i \in DOMAIN workers' : workers'[i].task = "cancel" /\ workers'[i].turn = turn /\ workers'[i].value = <<>>
  <2>1. ASSUME NEW i \in DOMAIN workers'
        PROVE  workers[i + 1].task = "cancel" /\ workers[i + 1].turn = turn /\ workers[i + 1].value = <<>>
    <3>1. workers[i + 1].task = "cancel" /\ workers[i + 1].turn = turn
      BY <1>2, <1>3 DEF TurnsInv, WorkersInOrder
    <3>. QED
      BY <1>2, <3>1 DEF TurnsInv, WorkersInOrder, TurnWorker
  <2>. QED
    BY <1>2, <2>1
<1>6. WorkersInOrder'
  BY <1>4, <1>5 DEF WorkersInOrder, TurnWorker
<1>7. Busy'
  BY <1>2, <1>3, <1>4 DEF TurnsInv, Busy
<1>8. RoleAndFilesStand' /\ CancelHits' /\ RowsSettle'
  BY <1>3, <1>4 DEF TurnsInv, RoleAndFilesStand, CancelHits, RowsSettle, TurnBegins, history
<1>. QED
  BY <1>6, <1>7, <1>8 DEF TurnsInv

\* A turn ends; the next one of the queue waits to begin.
LEMMA TurnsEnded ==
  ASSUME TypeOK, PlainTexts, TurnsInv, TurnEnds
  PROVE  TurnsInv'
<1>1. engine # 0 /\ ~\E i \in DOMAIN workers : TurnWorker(i)
  BY DEF TurnEnds, TurnsInv, WorkersInOrder
<1>2. engine' = 0 /\ row' = FALSE /\ meddled' = {} /\ session' = session /\ stray' = stray /\ session
  BY <1>1 DEF TurnEnds, Closed, TurnsInv, Busy
<1>3. CASE /\ ~Dequeues
           /\ busy' = FALSE
           /\ UNCHANGED <<queue, turn, workers, draft, refused>>
  <2>1. WorkersInOrder'
    BY <1>1, <1>2, <1>3 DEF TurnsInv, WorkersInOrder, TurnWorker
  <2>2. Busy'
    BY <1>1, <1>2, <1>3 DEF Busy, TurnWorker
  <2>3. RoleAndFilesStand' /\ CancelHits' /\ RowsSettle'
    BY <1>2 DEF TurnsInv, RoleAndFilesStand, CancelHits, RowsSettle
  <2>. QED
    BY <2>1, <2>2, <2>3 DEF TurnsInv
<1>4. CASE /\ Dequeues
           /\ queue' = Tail(queue)
           /\ StartTurn(queue[1], draft)
  <2>1. queue[1] \in Plain
    BY <1>4 DEF Dequeues, PlainTexts
  <2>. QED
    BY <1>1, <1>2, <1>4, <2>1, StartTurnTurns
<1>. QED
  BY <1>3, <1>4 DEF TurnEnds

\* A command is for an idle window.
LEMMA CommandIdle ==
  ASSUME TurnsInv, NEW c \in IdleOnly, Command(c)
  PROVE  ~busy /\ engine = 0
BY DEF Command, Waits, TurnsInv, Busy

\* Every step keeps one turn at a time, its role, its files and its cancels.
LEMMA TurnsStep ==
  ASSUME TypeOK, PlainTexts, TurnsInv, Next
  PROVE  TurnsInv'
<1> USE DEF keys, run, history
<1>1. CASE CancelTurn
  <2> DEFINE w == Worker("cancel", turn, <<>>)
  <2>1. w \in WorkerRecord /\ workers' = Started(workers, w) /\ w.value = <<>> /\ w.turn = turn /\ w.task = "cancel"
    BY <1>1 DEF CancelTurn, Worker, WorkerRecord, Value, TypeOK
  <2> HIDE DEF w
  <2>2. busy /\ UNCHANGED <<session, busy, turn, engine, row, meddled, stray>>
    BY <1>1 DEF CancelTurn
  <2>. QED
    BY <2>1, <2>2, TurnsStarted
<1>2. CASE Type \/ Enter \/ Search \/ AcceptMatch
  <2>1. UNCHANGED <<session, busy, turn, workers, engine, stray, meddled, row>>
    BY <1>2 DEF Type, Enter, Search, AcceptMatch, turns
  <2>. QED
    BY <2>1, TurnsSame DEF TurnsInv, RowsSettle
<1>3. CASE Escape
  <2>1. CancelTurn \/ UNCHANGED <<session, busy, turn, workers, engine, stray, meddled, row>>
    BY <1>3 DEF Escape, turns
  <2>. QED
    BY <1>1, <2>1, TurnsSame DEF TurnsInv, RowsSettle
<1>4. CASE PickModel \/ PickSession \/ OpenPicker \/ Listed
  <2>1. UNCHANGED <<session, busy, turn, workers, engine, stray, row>>
    BY <1>4 DEF PickModel, PickSession, OpenPicker, Listed, turns
  <2>2. meddled' \subseteq meddled \cup {"model", "conversation"}
    BY <1>4 DEF PickModel, PickSession, OpenPicker, Listed, Under
  <2>. QED
    BY <2>1, <2>2, TurnsSame DEF TurnsInv, RowsSettle
<1>5. CASE SetRole
  <2>1. engine = 0
    BY <1>5, CommandIdle DEF SetRole, IdleOnly
  <2>2. meddled' = meddled
    BY <1>5, <2>1 DEF SetRole, Under
  <2>3. UNCHANGED <<session, busy, turn, workers, engine, stray, row>>
    BY <1>5 DEF SetRole, turns
  <2>. QED
    BY <2>2, <2>3, TurnsSame DEF TurnsInv, RowsSettle
<1>6. CASE CmdAct
  <2>1. <<Act>> \in Plain
    BY DEF Plain
  <2>2. SubmitText(<<Act>>, <<Act>>) /\ UNCHANGED <<session, engine, row, stray, meddled>>
    BY <1>6 DEF CmdAct
  <2>. QED
    BY <2>1, <2>2, SubmitTextTurns
<1>7. CASE CmdSoul \/ CmdModel
  <2>1. UNCHANGED <<session, busy, turn, workers, engine, stray, meddled, row>>
    BY <1>7 DEF CmdSoul, CmdModel, turns
  <2>. QED
    BY <2>1, TurnsSame DEF TurnsInv, RowsSettle
<1>8. CASE CmdUndo
  <2>1. ~busy
    BY <1>8, CommandIdle DEF CmdUndo, IdleOnly
  <2> DEFINE w == Worker("undo", turn, <<>>)
  <2>2. w \in WorkerRecord /\ workers' = Started(workers, w) /\ w.value = <<>> /\ w.turn = turn /\ w.task = "undo"
    BY <1>8 DEF CmdUndo, Worker, WorkerRecord, Value, TypeOK
  <2> HIDE DEF w
  <2>3. UNCHANGED <<session, busy, turn, engine, row, meddled, stray>>
    BY <1>8 DEF CmdUndo
  <2>. QED
    BY <2>1, <2>2, <2>3, TurnsStarted
<1>9. CASE OnSubmit
  <2>1. posted \in Plain
    BY <1>9 DEF OnSubmit, PlainTexts
  <2>2. UNCHANGED <<session, engine, row, stray, meddled>>
    BY <1>9 DEF OnSubmit
  <2>3. CASE UNCHANGED turns
    <3>1. UNCHANGED <<busy, turn, workers>>
      BY <2>3 DEF turns
    <3>. QED
      BY <2>2, <3>1, TurnsSame DEF TurnsInv, RowsSettle
  <2>4. CASE SubmitText(posted, <<>>)
    BY <2>1, <2>2, <2>4, SubmitTextTurns
  <2>. QED
    BY <1>9, <2>3, <2>4 DEF OnSubmit
<1>10. CASE TurnBegins
  BY <1>10, TurnsBegun
<1>11. CASE CancelRuns
  <2>1. workers # <<>> /\ ~TurnWorker(1) /\ workers[1].task = "cancel" /\ 1 \in DOMAIN workers
    BY <1>11 DEF CancelRuns, FirstWorker, TurnWorker, TypeOK
  <2>2. engine \in {0, workers[1].turn}
    BY <2>1 DEF TurnsInv, WorkersInOrder
  <2>3. RoleAndFilesStand' /\ CancelHits' /\ RowsSettle'
    BY <1>11, <2>2 DEF CancelRuns, TurnsInv, RoleAndFilesStand, CancelHits, RowsSettle
  <2>. QED
    BY <1>11, <2>1, <2>3, TurnsStepped DEF CancelRuns
<1>12. CASE UndoRuns
  <2>1. workers # <<>> /\ ~TurnWorker(1) /\ workers[1].task = "undo" /\ 1 \in DOMAIN workers
    BY <1>12 DEF UndoRuns, FirstWorker, TurnWorker, TypeOK
  <2>2. engine = 0
    BY <2>1 DEF TurnsInv, WorkersInOrder
  <2>3. meddled' = meddled
    BY <1>12, <2>2 DEF UndoRuns, Under
  <2>4. RoleAndFilesStand' /\ CancelHits' /\ RowsSettle'
    BY <1>12, <2>3 DEF UndoRuns, TurnsInv, RoleAndFilesStand, CancelHits, RowsSettle
  <2>. QED
    BY <1>12, <2>1, <2>4, TurnsStepped DEF UndoRuns
<1>13. CASE ToolStarts \/ ToolFinishes
  <2>1. UNCHANGED <<session, busy, turn, workers, engine, stray, meddled>> /\ (row' => engine # 0)
    BY <1>13 DEF ToolStarts, ToolFinishes, turns
  <2>. QED
    BY <2>1, TurnsSame
<1>14. CASE TurnEnds
  BY <1>14, TurnsEnded
<1>15. CASE Initialize
  <2>1. UNCHANGED <<busy, turn, workers, engine, stray, meddled, row>> /\ session'
    BY <1>15 DEF Initialize, turns
  <2>2. WorkersInOrder' /\ Busy'
    BY <2>1 DEF TurnsInv, WorkersInOrder, Busy, TurnWorker
  <2>3. RoleAndFilesStand' /\ CancelHits' /\ RowsSettle'
    BY <2>1 DEF TurnsInv, RoleAndFilesStand, CancelHits, RowsSettle
  <2>. QED
    BY <2>2, <2>3 DEF TurnsInv
<1>. QED
  BY <1>1, <1>2, <1>3, <1>4, <1>5, <1>6, <1>7, <1>8, <1>9, <1>10, <1>11, <1>12, <1>13, <1>14, <1>15
     DEF Next, Keyboard, Commands, Workers, Engine
-----------------------------------------------------------------------------
(* Every step keeps the texts in line *)

\* Where a text is that is known after a step.
LEMMA KnownAfter ==
  ASSUME NEW t, t \in Known(sent, Assigned, queue, OnScreen)'
  PROVE  \/ t \in sent' \/ t \in Assigned'
         \/ \E i \in DOMAIN queue' : t \in ToSet(queue'[i])
         \/ \E v \in OnScreen' : t \in ToSet(v)
<1>1. t \in Known(sent', Assigned', queue', OnScreen')
  BY DEF Known
<1>. QED
  BY <1>1, KnownIs

\* Steps that show no new text.
LEMMA LineSame ==
  ASSUME TextsTyped, InLine, UNCHANGED <<sent, queue, busy, refused, typed>>, Assigned' = Assigned,
         \A v \in OnScreen' : v \in OnScreen \/ Text \cap ToSet(v) = {}
  PROVE  TextsTyped' /\ InLine'
<1>1. ASSUME NEW t \in Text, t \in Known(sent, Assigned, queue, OnScreen)'
      PROVE  t \in Known(sent, Assigned, queue, OnScreen)
  <2>1. \/ t \in sent \cup Assigned
        \/ \E i \in DOMAIN queue : t \in ToSet(queue[i])
        \/ \E v \in OnScreen' : t \in ToSet(v)
    BY <1>1, KnownAfter
  <2>2. (\E v \in OnScreen' : t \in ToSet(v)) => \E v \in OnScreen : t \in ToSet(v)
    OBVIOUS
  <2>. QED
    BY <2>1, <2>2, KnownIs
<1>2. TextsTyped'
  BY <1>1 DEF TextsTyped, UpTo
<1>3. Ordered(sent, Assigned, queue, OnScreen) => Ordered(sent, Assigned, queue, OnScreen')
  BY DEF Ordered, Before
<1>. QED
  BY <1>2, <1>3 DEF InLine

\* A text is typed after all others.
LEMMA LineTyped ==
  ASSUME TypeOK, TextsTyped, InLine, Type
  PROVE  TextsTyped' /\ InLine'
<1> USE DEF turns, run, history
<1>1. typed + 1 \in Text /\ typed \in Nat /\ draft \in Value /\ draft \in OnScreen
  BY WindowAssumption DEF Type, TypeOK, Text, OnScreen
<1>2. OnScreen' \subseteq OnScreen \cup {Append(draft, typed + 1)}
  BY DEF Type, OnScreen
<1>3. UNCHANGED <<sent, queue, busy, refused>> /\ Assigned' = Assigned /\ typed' = typed + 1
  BY DEF Type, Assigned
<1>4. ToSet(Append(draft, typed + 1)) = ToSet(draft) \cup {typed + 1}
  <2>1. ToSet(<<typed + 1>>) = {typed + 1} /\ Append(draft, typed + 1) = draft \o <<typed + 1>> /\ <<typed + 1>> \in Value
    BY <1>1 DEF ToSet, Value
  <2> DEFINE S == Text \cup {Act, Recalled}
             one == <<typed + 1>>
  <2>2. draft \in Seq(S) /\ one \in Seq(S)
    BY <1>1, <2>1 DEF Value
  <2> HIDE DEF S, one
  <2>3. ToSet(draft \o one) = ToSet(draft) \cup ToSet(one)
    BY <2>2, JoinedHolds
  <2>. QED
    BY <2>1, <2>3 DEF one
<1>5. ASSUME NEW t \in Text, t \in Known(sent, Assigned, queue, OnScreen)'
      PROVE  t <= typed'
  <2>1. \/ t \in sent \cup Assigned
        \/ \E i \in DOMAIN queue : t \in ToSet(queue[i])
        \/ \E v \in OnScreen' : t \in ToSet(v)
    BY <1>3, <1>5, KnownAfter
  <2>2. (\E v \in OnScreen' : t \in ToSet(v)) => t = typed + 1 \/ \E v \in OnScreen : t \in ToSet(v)
    BY <1>1, <1>2, <1>4
  <2>3. t = typed + 1 \/ t \in Known(sent, Assigned, queue, OnScreen)
    BY <2>1, <2>2, KnownIs
  <2>4. t \in Nat
    BY WindowAssumption DEF Text
  <2>. QED
    BY <1>1, <1>3, <2>3, <2>4 DEF TextsTyped, UpTo
<1>6. TextsTyped'
  BY <1>5 DEF TextsTyped, UpTo
<1>7. Ordered(sent, Assigned, queue, OnScreen) => Ordered(sent, Assigned, queue, OnScreen')
  <2>1. Ordered(sent, Assigned, queue, OnScreen) => Ordered(sent, Assigned, queue, OnScreen \cup {Append(draft, typed + 1)})
    BY <1>1, OrderedTyped DEF TextsTyped
  <2>. QED
    BY <1>2, <2>1, OrderedFewer
<1>. QED
  BY <1>3, <1>6, <1>7 DEF InLine

\* A cancel gives the queue back, before what the composer shows.
LEMMA LineCancelled ==
  ASSUME TypeOK, PlainTexts, TextsTyped, InLine, CancelTurn
  PROVE  TextsTyped' /\ InLine'
<1>1. queue \in Seq(Plain) /\ draft \in Value /\ draft \in OnScreen /\ workers \in Seq(WorkerRecord)
  BY DEF TypeOK, PlainTexts, OnScreen, WorkerRecord
<1> DEFINE w == Worker("cancel", turn, <<>>)
<1>2. w \in WorkerRecord /\ workers' = Started(workers, w) /\ w.value = <<>>
  BY DEF CancelTurn, Worker, WorkerRecord, Value, TypeOK
<1> HIDE DEF w
<1>3. Assigned' = Assigned
  BY <1>1, <1>2, AssignedStarted, EmptyIsBefore
<1>4. OnScreen' \subseteq (OnScreen \ {draft}) \cup {Returned(queue, draft)} \cup {v \in OnScreen : v = draft}
  BY DEF CancelTurn, OnScreen
<1>5. ToSet(Returned(queue, draft)) = (UNION {ToSet(queue[i]) : i \in DOMAIN queue}) \cup ToSet(draft)
  <2>1. /\ FlattenSeq(queue) \in Seq(Text \cup {Act})
        /\ ToSet(FlattenSeq(queue)) = UNION {ToSet(queue[i]) : i \in DOMAIN queue}
    BY <1>1, FlattenedHolds DEF Plain
  <2>2. FlattenSeq(queue) \in Value
    BY <2>1 DEF Value
  <2>3. ToSet(Returned(queue, draft)) = ToSet(FlattenSeq(queue)) \cup ToSet(draft)
    BY <1>1, <2>2, JoinedHolds DEF Returned, Value
  <2>. QED
    BY <2>1, <2>3
<1>6. queue' = <<>> /\ DOMAIN queue' = {} /\ UNCHANGED <<sent, refused, typed>>
  BY DEF CancelTurn, run, history
<1>7. ASSUME NEW t \in Text, t \in Known(sent, Assigned, queue, OnScreen)'
      PROVE  t \in Known(sent, Assigned, queue, OnScreen)
  <2>1. \/ t \in sent \cup Assigned
        \/ \E v \in OnScreen' : t \in ToSet(v)
    BY <1>3, <1>6, <1>7, KnownAfter
  <2>2. t \in ToSet(Returned(queue, draft)) => t \in ToSet(draft) \/ \E i \in DOMAIN queue : t \in ToSet(queue[i])
    BY <1>5
  <2>. QED
    BY <1>1, <1>4, <2>1, <2>2, KnownIs
<1>8. TextsTyped'
  BY <1>6, <1>7 DEF TextsTyped, UpTo
<1>9. Ordered(sent, Assigned, queue, OnScreen) => Ordered(sent, Assigned, <<>>, OnScreen')
  <2>1. Ordered(sent, Assigned, queue, OnScreen) =>
          Ordered(sent, Assigned, <<>>, (OnScreen \ {draft}) \cup {Returned(queue, draft)})
    BY <1>1, OrderedReturned
  <2>2. Ordered(sent, Assigned, queue, OnScreen) => Ordered(sent, Assigned, <<>>, OnScreen)
    BY DEF Ordered
  <2>3. ASSUME Ordered(sent, Assigned, queue, OnScreen)
        PROVE  Ordered(sent, Assigned, <<>>, OnScreen')
    <3>1. \A v \in OnScreen' : v \in (OnScreen \ {draft}) \cup {Returned(queue, draft)} \/ v \in OnScreen
      BY <1>4
    <3>. QED
      BY <2>1, <2>2, <2>3, <3>1 DEF Ordered
  <2>. QED
    BY <2>3
<1>. QED
  BY <1>3, <1>6, <1>8, <1>9 DEF InLine

\* A turn begins: the texts of its worker are sent.
LEMMA LineBegun ==
  ASSUME TypeOK, TurnsInv, TextsTyped, InLine, TurnBegins
  PROVE  TextsTyped' /\ InLine' /\ sent' = sent \cup Assigned
<1>1. workers \in Seq(WorkerRecord) /\ workers # <<>> /\ workers' = Tail(workers)
  BY DEF TypeOK, WorkerRecord, TurnBegins, FirstWorker
<1>2. /\ 1 \in DOMAIN workers
      /\ \A i \in DOMAIN workers' : i + 1 \in DOMAIN workers /\ workers'[i] = workers[i + 1] /\ 1 < i + 1
  BY <1>1, WorkerStepped
<1>3. TurnWorker(1)
  BY DEF TurnBegins, FirstWorker, TurnWorker
<1>4. \A i \in DOMAIN workers' : ToSet(workers'[i].value) = {}
  <2>1. ASSUME NEW i \in DOMAIN workers'
        PROVE  workers[i + 1].value = <<>>
    <3>1. workers[i + 1].task = "cancel"
      BY <1>2, <1>3 DEF TurnsInv, WorkersInOrder
    <3>. QED
      BY <1>2, <3>1 DEF TurnsInv, WorkersInOrder, TurnWorker
  <2>. QED
    BY <1>2, <2>1, EmptyIsBefore
<1>5. Assigned' = {}
  <2>1. Assigned' = UNION {ToSet(workers'[i].value) : i \in DOMAIN workers'}
    BY DEF Assigned
  <2>. QED
    BY <1>4, <2>1
<1>6. sent' = sent \cup Assigned
  BY <1>1, <1>5, AssignedStepped DEF TurnBegins
<1>7. UNCHANGED <<queue, busy, refused, typed>> /\ OnScreen' = OnScreen
  BY DEF TurnBegins, keys, history, OnScreen
<1>8. ASSUME NEW t \in Text, t \in Known(sent, Assigned, queue, OnScreen)'
      PROVE  t \in Known(sent, Assigned, queue, OnScreen)
  <2>1. \/ t \in sent \cup Assigned
        \/ \E i \in DOMAIN queue : t \in ToSet(queue[i])
        \/ \E v \in OnScreen : t \in ToSet(v)
    BY <1>5, <1>6, <1>7, <1>8, KnownAfter
  <2>. QED
    BY <2>1, KnownIs
<1>9. TextsTyped'
  BY <1>7, <1>8 DEF TextsTyped, UpTo
<1>10. Ordered(sent, Assigned, queue, OnScreen) => Ordered(sent \cup Assigned, {}, queue, OnScreen)
  BY OrderedSent
<1>11. InLine'
  BY <1>5, <1>6, <1>7, <1>10 DEF InLine
<1>. QED
  BY <1>6, <1>9, <1>11

\* A turn ends: the first of the queue goes to a worker, or back to the composer.
LEMMA LineEnded ==
  ASSUME TypeOK, PlainTexts, TurnsInv, TextsTyped, InLine, TurnEnds
  PROVE  TextsTyped' /\ InLine'
<1>1. engine # 0 /\ ~\E i \in DOMAIN workers : TurnWorker(i)
  BY DEF TurnEnds, TurnsInv, WorkersInOrder
<1>2. Assigned = {} /\ session
  BY <1>1, NoneAssigned DEF TurnsInv, Busy
<1>3. UNCHANGED <<sent, typed, posted, search>> /\ draft \in Value /\ queue \in Seq(Plain)
  BY DEF TurnEnds, TypeOK, PlainTexts
<1>4. CASE /\ ~Dequeues
           /\ busy' = FALSE
           /\ UNCHANGED <<queue, turn, workers, draft, refused>>
  <2>1. queue = <<>> /\ OnScreen' = OnScreen /\ Assigned' = Assigned
    BY <1>2, <1>3, <1>4 DEF Dequeues, OnScreen, Assigned
  <2>2. TextsTyped'
    BY <1>3, <1>4, <2>1 DEF TextsTyped
  <2>3. InLine'
    BY <1>3, <1>4, <2>1 DEF InLine
  <2>. QED
    BY <2>2, <2>3
<1>5. CASE /\ Dequeues
           /\ queue' = Tail(queue)
           /\ StartTurn(queue[1], draft)
  <2>1. queue # <<>> /\ queue[1] \in Plain /\ 1 \in DOMAIN queue
    BY <1>3, <1>5 DEF Dequeues
  <2>2. \/ /\ refused' = refused /\ busy' /\ draft' = draft /\ Assigned' = ToSet(queue[1])
        \/ /\ refused' /\ ToSet(draft') = ToSet(queue[1]) \cup ToSet(draft) /\ Assigned' = Assigned
    BY <1>2, <1>3, <1>5, <2>1, StartTurnTexts
  <2>3. \A i \in DOMAIN queue' : i + 1 \in DOMAIN queue /\ queue'[i] = queue[i + 1]
    BY <1>3, <1>5, <2>1
  <2>4. OnScreen' \subseteq OnScreen \cup {draft'} /\ draft \in OnScreen
    BY <1>3 DEF OnScreen
  <2>5. ASSUME NEW t \in Text, t \in Known(sent, Assigned, queue, OnScreen)'
        PROVE  t \in Known(sent, Assigned, queue, OnScreen)
    <3>1. \/ t \in sent \cup Assigned'
          \/ \E i \in DOMAIN queue' : t \in ToSet(queue'[i])
          \/ \E v \in OnScreen' : t \in ToSet(v)
      BY <1>3, <2>5, KnownAfter
    <3>2. t \in Assigned' => t \in Assigned \/ t \in ToSet(queue[1])
      BY <2>2
    <3>3. (\E v \in OnScreen' : t \in ToSet(v)) => t \in ToSet(queue[1]) \/ \E v \in OnScreen : t \in ToSet(v)
      BY <2>2, <2>4
    <3>4. (\E i \in DOMAIN queue' : t \in ToSet(queue'[i])) => \E i \in DOMAIN queue : t \in ToSet(queue[i])
      BY <2>3
    <3>. QED
      BY <2>1, <3>1, <3>2, <3>3, <3>4, KnownIs
  <2>6. TextsTyped'
    BY <1>3, <2>5 DEF TextsTyped, UpTo
  <2>7. CASE ~refused'
    <3>1. refused = FALSE /\ busy' /\ draft' = draft /\ Assigned' = ToSet(queue[1])
      BY <2>2, <2>7 DEF TypeOK
    <3>2. OnScreen' = OnScreen
      BY <1>3, <3>1 DEF OnScreen
    <3>3. Ordered(sent, {}, queue, OnScreen)
      BY <1>2, <3>1 DEF InLine
    <3>4. Ordered(sent, ToSet(queue[1]), Tail(queue), OnScreen)
      BY <1>3, <2>1, <3>3, OrderedDequeued
    <3>. QED
      BY <1>3, <1>5, <2>6, <3>1, <3>2, <3>4 DEF InLine
  <2>. QED
    BY <2>6, <2>7 DEF InLine
<1>. QED
  BY <1>4, <1>5 DEF TurnEnds
\* Every step keeps the texts in line.
LEMMA LineStep ==
  ASSUME TypeOK, PlainTexts, TurnsInv, TextsTyped, InLine, Next
  PROVE  TextsTyped' /\ InLine'
<1> USE DEF run, history
<1>a. ToSet(<<>>) = {} /\ Text \cap ToSet(<<Recalled>>) = {}
  BY WindowAssumption DEF ToSet, Text
<1>b. ASSUME UNCHANGED <<draft, posted, search, sent, queue, busy, refused, typed>>, Assigned' = Assigned
      PROVE  TextsTyped' /\ InLine'
  <2>1. OnScreen' = OnScreen
    BY <1>b DEF OnScreen
  <2>. QED
    BY <1>b, <2>1, LineSame
<1>c. ASSUME UNCHANGED workers
      PROVE  Assigned' = Assigned
  BY <1>c DEF Assigned
<1>1. CASE CancelTurn
  BY <1>1, LineCancelled
<1>2. CASE Type
  BY <1>2, LineTyped
<1>3. CASE Enter
  <2>1. \A v \in OnScreen' : v \in OnScreen
    BY <1>3 DEF Enter, OnScreen
  <2>2. UNCHANGED <<sent, queue, busy, refused, typed>> /\ Assigned' = Assigned
    BY <1>3, <1>c DEF Enter, turns
  <2>. QED
    BY <2>1, <2>2, LineSame
<1>4. CASE Search \/ AcceptMatch
  <2>1. \A v \in OnScreen' : v \in OnScreen \/ v = <<>> \/ v = <<Recalled>>
    BY <1>4 DEF Search, AcceptMatch, OnScreen
  <2>2. UNCHANGED <<sent, queue, busy, refused, typed>> /\ Assigned' = Assigned
    BY <1>4, <1>c DEF Search, AcceptMatch, turns
  <2>. QED
    BY <1>a, <2>1, <2>2, LineSame
<1>5. CASE Escape
  <2>1. CASE CancelTurn
    BY <1>1, <2>1
  <2>2. CASE /\ screens # <<>>
             /\ screens' = Tail(screens)
             /\ UNCHANGED <<session, draft, search, posted, soul, typed, turns, listing, run, history>>
    BY <1>b, <1>c, <2>2 DEF turns
  <2>3. CASE /\ screens = <<>> /\ search # None
             /\ draft' = search
             /\ search' = None
             /\ UNCHANGED <<session, posted, screens, soul, typed, turns, listing, run, history>>
    <3>1. \A v \in OnScreen' : v \in OnScreen
      BY <2>3 DEF OnScreen
    <3>2. UNCHANGED <<sent, queue, busy, refused, typed>> /\ Assigned' = Assigned
      BY <2>3, <1>c DEF turns
    <3>. QED
      BY <3>1, <3>2, LineSame
  <2>. QED
    BY <1>5, <2>1, <2>2, <2>3 DEF Escape
<1>6. CASE PickModel \/ PickSession \/ OpenPicker \/ Listed
  BY <1>6, <1>b, <1>c DEF PickModel, PickSession, OpenPicker, Listed, turns
<1>7. CASE SetRole \/ CmdSoul \/ CmdModel \/ ToolStarts \/ ToolFinishes \/ Initialize
  BY <1>7, <1>b, <1>c DEF SetRole, CmdSoul, CmdModel, ToolStarts, ToolFinishes, Initialize, keys, turns
<1>8. CASE CmdAct
  <2>1. <<Act>> \in Plain
    BY DEF Plain
  <2>2. SubmitText(<<Act>>, <<Act>>) /\ posted' = None /\ search' = None /\ UNCHANGED <<sent, typed>>
    BY <1>8 DEF CmdAct, Command, Typing
  <2>. QED
    BY <2>1, <2>2, SubmitTextLine
<1>9. CASE CmdUndo
  <2> DEFINE w == Worker("undo", turn, <<>>)
  <2>1. w \in WorkerRecord /\ workers' = Started(workers, w) /\ w.value = <<>> /\ workers \in Seq(WorkerRecord)
    BY <1>9 DEF CmdUndo, Worker, WorkerRecord, Value, TypeOK
  <2> HIDE DEF w
  <2>2. Assigned' = Assigned
    BY <1>a, <2>1, AssignedStarted
  <2>. QED
    BY <1>9, <1>b, <2>2 DEF CmdUndo, keys
<1>10. CASE OnSubmit
  <2>1. posted \in Plain /\ search = None /\ <<>> \in Plain /\ posted \in OnScreen
    BY <1>10 DEF OnSubmit, PlainTexts, Plain, OnScreen
  <2>2. posted' = None /\ search' = None /\ UNCHANGED <<sent, typed>>
    BY <1>10, <2>1 DEF OnSubmit
  <2>3. CASE /\ soul
             /\ draft' = <<>> /\ soul' = FALSE
             /\ UNCHANGED <<turns, refused>>
    <3>1. OnScreen' = {<<>>}
      BY <2>2, <2>3, ScreenAlone
    <3>2. UNCHANGED <<sent, queue, busy, refused, typed>> /\ Assigned' = Assigned
      BY <2>2, <2>3, <1>c DEF turns
    <3>. QED
      BY <1>a, <3>1, <3>2, LineSame
  <2>4. CASE SubmitText(posted, <<>>)
    BY <2>1, <2>2, <2>4, SubmitTextLine
  <2>. QED
    BY <1>10, <2>3, <2>4 DEF OnSubmit
<1>11. CASE TurnBegins
  BY <1>11, LineBegun
<1>12. CASE CancelRuns \/ UndoRuns
  <2>1. workers \in Seq(WorkerRecord) /\ workers # <<>> /\ workers' = Tail(workers) /\ ~TurnWorker(1) /\ 1 \in DOMAIN workers
    BY <1>12 DEF CancelRuns, UndoRuns, FirstWorker, TurnWorker, TypeOK, WorkerRecord
  <2>2. workers[1].value = <<>>
    BY <2>1 DEF TurnsInv, WorkersInOrder
  <2>3. Assigned' = Assigned
    BY <1>a, <2>1, <2>2, AssignedStepped
  <2>. QED
    BY <1>12, <1>b, <2>3 DEF CancelRuns, UndoRuns, keys
<1>13. CASE TurnEnds
  BY <1>13, LineEnded
<1>. QED
  BY <1>1, <1>2, <1>3, <1>4, <1>5, <1>6, <1>7, <1>8, <1>9, <1>10, <1>11, <1>12, <1>13
     DEF Next, Keyboard, Commands, Workers, Engine

-----------------------------------------------------------------------------
(* The theorems *)

\* A window that has just opened.
LEMMA InitIInv == Init => IInv
<1> SUFFICES ASSUME Init PROVE IInv
  OBVIOUS
<1>1. <<>> \in Plain /\ <<>> \in Value /\ <<>> \in Seq(Plain) /\ <<>> \in Seq(Value) /\ DOMAIN <<>> = {}
  BY DEF Plain, Value
<1>2. TypeOK
  <2>1. <<>> \in Seq([screen : {"sessions", "models"}, readonly : BOOLEAN]) /\ <<>> \in Seq(WorkerRecord)
    OBVIOUS
  <2>2. 0 \in 0..MaxTurns /\ 0 \in 0..MaxTexts /\ 0 \in 0..0
    BY WindowAssumption
  <2>. QED
    BY <1>1, <2>1, <2>2 DEF Init, TypeOK, WorkerRecord
<1>3. PlainTexts
  BY <1>1 DEF Init, PlainTexts
<1>4. TurnsInv
  BY <1>1 DEF Init, TurnsInv, WorkersInOrder, Busy, RoleAndFilesStand, CancelHits, RowsSettle
<1>5. Assigned = {} /\ sent = {} /\ OnScreen = {<<>>} /\ queue = <<>>
  BY <1>1 DEF Init, Assigned, OnScreen
<1>6. TextsTyped
  <2>1. \A t : t \notin Known(sent, Assigned, queue, OnScreen)
    BY <1>1, <1>5, EmptyIsBefore, KnownIs
  <2>. QED
    BY <2>1 DEF TextsTyped, UpTo
<1>7. InLine
  BY <1>1, <1>5, EmptyIsBefore DEF InLine, Ordered, Init
<1>. QED
  BY <1>2, <1>3, <1>4, <1>6, <1>7 DEF IInv

\* The invariant is inductive.
LEMMA IInvStep == IInv /\ [Next]_vars => IInv'
<1> SUFFICES ASSUME IInv, [Next]_vars PROVE IInv'
  OBVIOUS
<1>1. CASE UNCHANGED vars
  <2>1. TypeOK' /\ PlainTexts'
    BY <1>1 DEF IInv, TypeOK, PlainTexts, vars, keys, turns, run, history
  <2>2. TurnsInv'
    BY <1>1 DEF IInv, TurnsInv, WorkersInOrder, Busy, TurnWorker, RoleAndFilesStand, CancelHits, RowsSettle,
                vars, keys, turns, run, history
  <2>3. UNCHANGED <<sent, queue, busy, refused, typed>> /\ Assigned' = Assigned /\ OnScreen' = OnScreen
    BY <1>1 DEF Assigned, OnScreen, vars, keys, turns, run, history
  <2>. QED
    BY <2>1, <2>2, <2>3, LineSame DEF IInv
<1>2. CASE Next
  <2>1. TypeOK' /\ PlainTexts'
    BY <1>2, KeyboardTypes, CommandTypes, WorkerTypes, TurnEndsTypes, OtherTypes, CancelTypes
       DEF IInv, Next, Keyboard, Engine
  <2>. QED
    BY <1>2, <2>1, TurnsStep, LineStep DEF IInv
<1>. QED
  BY <1>1, <1>2

\* A turn is running, or about to, exactly while the window says so.
LEMMA OneTurnHolds == TurnsInv => OneTurn
<1> SUFFICES ASSUME TurnsInv PROVE OneTurn
  OBVIOUS
<1> DEFINE begun == {w \in ToSet(workers) : w.task = "turn"}
<1>1. \A w \in begun : \E i \in DOMAIN workers : TurnWorker(i) /\ workers[i] = w
  BY DEF ToSet, TurnWorker
<1>2. \A i \in DOMAIN workers : TurnWorker(i) => workers[i] \in begun
  BY DEF ToSet, TurnWorker
<1> HIDE DEF begun
<1>3. busy <=> engine # 0 \/ begun # {}
  BY <1>1, <1>2 DEF TurnsInv, Busy
<1>4. \A w \in begun : engine = 0 /\ w.turn = turn
  BY <1>1 DEF TurnsInv, WorkersInOrder
<1>. QED
  BY <1>3, <1>4 DEF OneTurn, begun

\* One turn at a time, under one role, with no undo under it, which a cancel of another turn does not
\* reach, and no tool row of it left running: _start_turn, _run_turn, cancel_turn and the commands.
THEOREM TurnsStandHolds == Spec => []TurnsStand
<1>1. IInv => TurnsStand
  BY OneTurnHolds DEF IInv, TurnsInv, TurnsStand
<1>. QED
  BY InitIInv, IInvStep, <1>1, PTL DEF Spec
-----------------------------------------------------------------------------
(* Texts are not dropped *)

\* What is accepted is what the queue and the workers hold.
LEMMA AcceptedIs ==
  ASSUME NEW t
  PROVE  t \in Accepted <=> t \in Assigned \/ \E i \in DOMAIN queue : t \in ToSet(queue[i])
<1>1. t \in Assigned <=> \E i \in DOMAIN workers : t \in ToSet(workers[i].value)
  BY DEF Assigned
<1>2. t \in Accepted <=> \E v \in ToSet(queue) \cup {w.value : w \in ToSet(workers)} : t \in ToSet(v)
  BY DEF Accepted
<1>3. (\E v \in ToSet(queue) : t \in ToSet(v)) <=> \E i \in DOMAIN queue : t \in ToSet(queue[i])
  BY DEF ToSet
<1>4. (\E v \in {w.value : w \in ToSet(workers)} : t \in ToSet(v)) <=> \E i \in DOMAIN workers : t \in ToSet(workers[i].value)
  BY DEF ToSet
<1>. QED
  BY <1>1, <1>2, <1>3, <1>4

\* The same after a step.
LEMMA AcceptedAfter ==
  ASSUME NEW t
  PROVE  t \in Accepted' <=> t \in Assigned' \/ \E i \in DOMAIN queue' : t \in ToSet(queue'[i])
<1>1. t \in Assigned' <=> \E i \in DOMAIN workers' : t \in ToSet(workers'[i].value)
  BY DEF Assigned
<1>2. t \in Accepted' <=> \E v \in ToSet(queue') \cup {w.value : w \in ToSet(workers')} : t \in ToSet(v)
  BY DEF Accepted
<1>3. (\E v \in ToSet(queue') : t \in ToSet(v)) <=> \E i \in DOMAIN queue' : t \in ToSet(queue'[i])
  BY DEF ToSet
<1>4. (\E v \in {w.value : w \in ToSet(workers')} : t \in ToSet(v)) <=> \E i \in DOMAIN workers' : t \in ToSet(workers'[i].value)
  BY DEF ToSet
<1>. QED
  BY <1>1, <1>2, <1>3, <1>4

\* A submission drops nothing that was accepted.
LEMMA SubmitTextKeeps ==
  ASSUME TypeOK, PlainTexts, NEW value \in Plain, NEW text \in Plain, SubmitText(value, text),
         NEW t, t \in Accepted
  PROVE  t \in Accepted'
<1>1. value \in Value /\ text \in Value /\ queue \in Seq(Plain)
  BY DEF Plain, Value, PlainTexts
<1>2. t \in Assigned \/ \E i \in DOMAIN queue : t \in ToSet(queue[i])
  BY AcceptedIs
<1>3. CASE /\ Taken
           /\ queue' = Queued(queue, value)
           /\ draft' = text
           /\ UNCHANGED <<busy, turn, workers, refused>>
  <2>1. Assigned' = Assigned
    BY <1>3 DEF Assigned
  <2>2. \A i \in DOMAIN queue : i \in DOMAIN queue' /\ queue'[i] = queue[i]
    BY <1>1, <1>3 DEF Queued
  <2>. QED
    BY <1>2, <2>1, <2>2, AcceptedAfter
<1>4. CASE /\ ~Taken /\ ~session
           /\ draft' = value
           /\ UNCHANGED <<busy, queue, turn, workers, refused>>
  <2>1. Assigned' = Assigned
    BY <1>4 DEF Assigned
  <2>. QED
    BY <1>2, <1>4, <2>1, AcceptedAfter
<1>5. CASE /\ ~Taken /\ session
           /\ StartTurn(value, text)
           /\ UNCHANGED queue
  <2>1. Assigned \subseteq Assigned'
    BY <1>1, <1>5, StartTurnTexts
  <2>. QED
    BY <1>2, <1>5, <2>1, AcceptedAfter
<1>. QED
  BY <1>3, <1>4, <1>5 DEF SubmitText

\* A step keeps what was accepted, sends it or gives it back.
LEMMA AcceptedStep ==
  ASSUME IInv, [Next]_vars, NEW t, t \in Accepted
  PROVE  t \in Accepted' \/ t \in sent' \/ t \in ToSet(draft')
<1> USE DEF run, history
<1>a. t \in Assigned \/ \E i \in DOMAIN queue : t \in ToSet(queue[i])
  BY AcceptedIs
<1>b. ASSUME UNCHANGED queue, Assigned' = Assigned
      PROVE  t \in Accepted'
  BY <1>a, <1>b, AcceptedAfter
<1>c. ASSUME UNCHANGED workers
      PROVE  Assigned' = Assigned
  BY <1>c DEF Assigned
<1>0. TypeOK /\ PlainTexts /\ TurnsInv /\ workers \in Seq(WorkerRecord) /\ queue \in Seq(Plain) /\ draft \in Value
  BY DEF IInv, TypeOK, PlainTexts, WorkerRecord
<1>1. CASE CancelTurn
  <2> DEFINE w == Worker("cancel", turn, <<>>)
  <2>1. w \in WorkerRecord /\ workers' = Started(workers, w) /\ w.value = <<>>
    BY <1>0, <1>1 DEF CancelTurn, Worker, WorkerRecord, Value, TypeOK
  <2> HIDE DEF w
  <2>2. Assigned' = Assigned
    BY <1>0, <2>1, AssignedStarted, EmptyIsBefore
  <2>3. \A i \in DOMAIN queue : ToSet(queue[i]) \subseteq ToSet(draft')
    <3>1. /\ FlattenSeq(queue) \in Seq(Text \cup {Act})
          /\ ToSet(FlattenSeq(queue)) = UNION {ToSet(queue[i]) : i \in DOMAIN queue}
      BY <1>0, FlattenedHolds DEF Plain
    <3>2. FlattenSeq(queue) \in Value /\ draft' = FlattenSeq(queue) \o draft
      BY <1>1, <3>1 DEF Value, CancelTurn, Returned
    <3>3. ToSet(draft') = ToSet(FlattenSeq(queue)) \cup ToSet(draft)
      BY <1>0, <3>2, JoinedHolds DEF Value
    <3>. QED
      BY <3>1, <3>3
  <2>. QED
    BY <1>a, <2>2, <2>3, AcceptedAfter
<1>2. CASE Type \/ Enter \/ Search \/ AcceptMatch \/ PickModel \/ PickSession \/ OpenPicker \/ Listed
  BY <1>2, <1>b, <1>c DEF Type, Enter, Search, AcceptMatch, PickModel, PickSession, OpenPicker, Listed, turns
<1>3. CASE Escape
  <2>1. CancelTurn \/ UNCHANGED <<queue, workers>>
    BY <1>3 DEF Escape, turns
  <2>. QED
    BY <1>1, <1>b, <1>c, <2>1
<1>4. CASE SetRole \/ CmdSoul \/ CmdModel \/ ToolStarts \/ ToolFinishes \/ Initialize
  BY <1>4, <1>b, <1>c DEF SetRole, CmdSoul, CmdModel, ToolStarts, ToolFinishes, Initialize, turns
<1>5. CASE CmdAct
  <2>1. <<Act>> \in Plain /\ SubmitText(<<Act>>, <<Act>>)
    BY <1>5 DEF Plain, CmdAct
  <2>. QED
    BY <1>0, <2>1, SubmitTextKeeps
<1>6. CASE CmdUndo
  <2> DEFINE w == Worker("undo", turn, <<>>)
  <2>1. w \in WorkerRecord /\ workers' = Started(workers, w) /\ w.value = <<>>
    BY <1>0, <1>6 DEF CmdUndo, Worker, WorkerRecord, Value, TypeOK
  <2> HIDE DEF w
  <2>2. Assigned' = Assigned
    BY <1>0, <2>1, AssignedStarted, EmptyIsBefore
  <2>. QED
    BY <1>6, <1>b, <2>2 DEF CmdUndo
<1>7. CASE OnSubmit
  <2>1. posted \in Plain /\ <<>> \in Plain
    BY <1>0, <1>7 DEF OnSubmit, PlainTexts, Plain
  <2>2. UNCHANGED turns \/ SubmitText(posted, <<>>)
    BY <1>7 DEF OnSubmit
  <2>3. CASE UNCHANGED turns
    BY <1>b, <1>c, <2>3 DEF turns
  <2>4. CASE SubmitText(posted, <<>>)
    BY <1>0, <2>1, <2>4, SubmitTextKeeps
  <2>. QED
    BY <2>2, <2>3, <2>4
<1>8. CASE TurnBegins
  <2>1. sent' = sent \cup Assigned
    BY <1>8, LineBegun DEF IInv
  <2>2. queue' = queue
    BY <1>8 DEF TurnBegins
  <2>. QED
    BY <1>a, <2>1, <2>2, AcceptedAfter
<1>9. CASE CancelRuns \/ UndoRuns
  <2>1. workers # <<>> /\ workers' = Tail(workers) /\ ~TurnWorker(1) /\ 1 \in DOMAIN workers
    BY <1>0, <1>9 DEF CancelRuns, UndoRuns, FirstWorker, TurnWorker, TypeOK, WorkerRecord
  <2>2. workers[1].value = <<>>
    BY <1>0, <2>1 DEF TurnsInv, WorkersInOrder
  <2>3. Assigned' = Assigned
    BY <1>0, <2>1, <2>2, AssignedStepped, EmptyIsBefore
  <2>. QED
    BY <1>9, <1>b, <2>3 DEF CancelRuns, UndoRuns
<1>10. CASE TurnEnds
  <2>1. CASE UNCHANGED <<queue, turn, workers, draft, refused>>
    BY <1>b, <1>c, <2>1
  <2>2. CASE /\ Dequeues
             /\ queue' = Tail(queue)
             /\ StartTurn(queue[1], draft)
    <3>1. queue # <<>> /\ queue[1] \in Plain
      BY <1>0, <2>2 DEF Dequeues
    <3>2. \/ Assigned' = Assigned \cup ToSet(queue[1])
          \/ ToSet(draft') = ToSet(queue[1]) \cup ToSet(draft) /\ Assigned' = Assigned
      BY <1>0, <2>2, <3>1, StartTurnTexts
    <3>3. \A i \in DOMAIN queue : i = 1 \/ (i - 1 \in DOMAIN queue' /\ queue'[i - 1] = queue[i])
      BY <1>0, <2>2, <3>1
    <3>4. CASE t \in Assigned
      BY <3>2, <3>4, AcceptedAfter
    <3>5. ASSUME NEW i \in DOMAIN queue, t \in ToSet(queue[i])
          PROVE  t \in Accepted' \/ t \in ToSet(draft')
      <4>1. CASE i = 1
        BY <3>2, <3>5, <4>1, AcceptedAfter
      <4>2. CASE i # 1
        <5>1. i - 1 \in DOMAIN queue' /\ t \in ToSet(queue'[i - 1])
          BY <3>3, <3>5, <4>2
        <5>. QED
          BY <5>1, AcceptedAfter
      <4>. QED
        BY <4>1, <4>2
    <3>. QED
      BY <1>a, <3>4, <3>5
  <2>. QED
    BY <1>10, <2>1, <2>2 DEF TurnEnds
<1>11. CASE UNCHANGED vars
  BY <1>11, <1>b, <1>c DEF vars, turns
<1>. QED
  BY <1>1, <1>2, <1>3, <1>4, <1>5, <1>6, <1>7, <1>8, <1>9, <1>10, <1>11
     DEF Next, Keyboard, Commands, Workers, Engine

\* The engine gets its texts in the order in which they were typed.
LEMMA InOrderStep ==
  ASSUME IInv, [Next]_vars, ~refused
  PROVE  \A t \in Text \cap (sent' \ sent) : \A u \in Text \cap sent : u < t
<1>1. CASE TurnBegins
  <2>1. sent' = sent \cup Assigned
    BY <1>1, LineBegun DEF IInv
  <2>2. Before(sent, Assigned)
    BY DEF IInv, InLine, Ordered
  <2>. QED
    BY <2>1, <2>2 DEF Before
<1>2. CASE ~TurnBegins
  <2>1. sent' = sent
    BY <1>2 DEF Next, Keyboard, Commands, Workers, Engine, CancelTurn, Type, Enter, Search, AcceptMatch, Escape,
       PickModel, PickSession, OpenPicker, Listed, SetRole, CmdSoul, CmdModel, CmdAct, CmdUndo, OnSubmit, CancelRuns,
       UndoRuns, ToolStarts, ToolFinishes, TurnEnds, Initialize, run, history, vars
  <2>. QED
    BY <2>1
<1>. QED
  BY <1>1, <1>2

\* What was queued or is about to be sent is never dropped by a cancel, a refused turn or the end of a
\* turn, and it is sent in the order in which it was typed: submit_text, _dequeue, cancel_turn, _start_turn.
THEOREM TextsKeptHolds == Spec => TextsKept
<1>1. IInv /\ [Next]_vars => [Accepted \subseteq Accepted' \cup sent' \cup ToSet(draft')]_vars
  BY AcceptedStep
<1>2. IInv /\ [Next]_vars => [refused \/ \A t \in Text \cap (sent' \ sent) : \A u \in Text \cap sent : u < t]_vars
  BY InOrderStep
<1>. QED
  BY InitIInv, IInvStep, <1>1, <1>2, PTL DEF Spec, TextsKept, AcceptedKept, InOrder

-----------------------------------------------------------------------------
(* The list of conversations and their names.                              *)

\* What is kept of the first n is kept of the first n - 1, with the n-th if it is to be kept.
LEMMA Among ==
  ASSUME NEW s, Len(s) \in Nat, NEW S
  PROVE  \E f : /\ Those(s, S) = f[Len(s)]
                /\ f[0] = <<>>
                /\ \A n \in 1..Len(s) : f[n] = IF s[n] \in S THEN Append(f[n - 1], s[n]) ELSE f[n - 1]
<1> DEFINE Is(f, k) == f = [n \in 0..k |-> IF n = 0 THEN <<>> ELSE IF s[n] \in S THEN Append(f[n - 1], s[n]) ELSE f[n - 1]]
           Bad == {k \in 0..Len(s) : ~\E f : Is(f, k)}
<1>1. \E f : Is(f, 0)
  <2>1. Is([n \in 0..0 |-> <<>>], 0)
    OBVIOUS
  <2>. QED
    BY <2>1
<1>2. ASSUME NEW k \in Nat, NEW f, Is(f, k)
      PROVE  \E g : Is(g, k + 1)
  <2> DEFINE g == [n \in 0..k + 1 |-> IF n <= k THEN f[n] ELSE IF s[n] \in S THEN Append(f[n - 1], s[n]) ELSE f[n - 1]]
  <2>1. \A n \in 0..k + 1 : g[n] = IF n = 0 THEN <<>> ELSE IF s[n] \in S THEN Append(g[n - 1], s[n]) ELSE g[n - 1]
    <3>1. \A n \in 0..k : g[n] = f[n]
      OBVIOUS
    <3>2. \A n \in 0..k : f[n] = IF n = 0 THEN <<>> ELSE IF s[n] \in S THEN Append(f[n - 1], s[n]) ELSE f[n - 1]
      BY <1>2
    <3>3. g[k + 1] = IF s[k + 1] \in S THEN Append(g[k], s[k + 1]) ELSE g[k]
      BY <3>1
    <3> HIDE DEF g
    <3>4. ASSUME NEW n \in 0..k + 1
          PROVE  g[n] = IF n = 0 THEN <<>> ELSE IF s[n] \in S THEN Append(g[n - 1], s[n]) ELSE g[n - 1]
      <4>1. CASE n = k + 1
        BY <4>1, <3>3
      <4>2. CASE n \in 0..k
        <5>1. n # 0 => g[n - 1] = f[n - 1]
          BY <4>2, <3>1
        <5>. QED
          BY <4>2, <5>1, <3>1, <3>2
      <4>. QED
        BY <4>1, <4>2
    <3>. QED
      BY <3>4
  <2>2. g = [n \in 0..k + 1 |-> g[n]]
    OBVIOUS
  <2> HIDE DEF g
  <2>3. Is(g, k + 1)
    BY <2>1, <2>2
  <2>. QED
    BY <2>3
<1>3. Bad = {}
  <2>1. ASSUME Bad # {}
        PROVE  FALSE
    <3>1. Bad \in SUBSET Nat
      OBVIOUS
    <3>2. PICK k \in Bad : \A y \in Bad : k <= y
      BY <2>1, <3>1, HasFirst
    <3>3. k # 0
      BY <1>1, <3>2
    <3>4. k \in 0..Len(s) /\ ~\E f : Is(f, k)
      BY <3>2
    <3>5. k - 1 \in 0..Len(s) /\ k - 1 \in Nat /\ (k - 1) + 1 = k /\ ~(k <= k - 1)
      BY <3>3, <3>4
    <3>6. k - 1 \notin Bad
      BY <3>2, <3>5
    <3> HIDE DEF Is
    <3>7. PICK f : Is(f, k - 1)
      BY <3>5, <3>6
    <3>8. \E g : Is(g, (k - 1) + 1)
      BY <3>5, <3>7, <1>2
    <3>. QED
      BY <3>8, <3>4, <3>5
  <2>. QED
    BY <2>1
<1>4. \E f : Is(f, Len(s))
  BY <1>3
<1> DEFINE f == CHOOSE f : Is(f, Len(s))
<1>5. Is(f, Len(s))
  BY <1>4
<1>6. Those(s, S) = f[Len(s)]
  BY DEF Those
<1> HIDE DEF f
<1>7. \A n \in 0..Len(s) :
         f[n] = IF n = 0 THEN <<>> ELSE IF s[n] \in S THEN Append(f[n - 1], s[n]) ELSE f[n - 1]
  <2>1. ASSUME NEW g, Is(g, Len(s)), NEW n \in 0..Len(s)
        PROVE  g[n] = IF n = 0 THEN <<>> ELSE IF s[n] \in S THEN Append(g[n - 1], s[n]) ELSE g[n - 1]
    BY <2>1
  <2> HIDE DEF Is
  <2>. QED
    BY <2>1, <1>5
<1>8. f[0] = <<>> /\ \A n \in 1..Len(s) : f[n] = IF s[n] \in S THEN Append(f[n - 1], s[n]) ELSE f[n - 1]
  BY <1>7
<1>. QED
  BY <1>6, <1>8

\* One more at the end of a sequence.
LEMMA Appended ==
  ASSUME NEW T, NEW q \in Seq(T), NEW x \in T
  PROVE  /\ Append(q, x) \in Seq(T)
         /\ ToSet(Append(q, x)) = ToSet(q) \cup {x}
         /\ IsInjective(q) /\ x \notin ToSet(q) => IsInjective(Append(q, x))
<1>1. /\ Append(q, x) \in Seq(T) /\ DOMAIN Append(q, x) = 1..Len(q) + 1
      /\ \A i \in DOMAIN q : Append(q, x)[i] = q[i]
      /\ Append(q, x)[Len(q) + 1] = x /\ DOMAIN q = 1..Len(q) /\ Len(q) \in Nat
  OBVIOUS
<1> DEFINE w == Append(q, x)
<1> HIDE DEF w
<1>2. \A i \in DOMAIN w : i \in DOMAIN q \/ i = Len(q) + 1
  BY <1>1 DEF w
<1>3. ToSet(w) = ToSet(q) \cup {x}
  BY <1>1, <1>2 DEF w, ToSet
<1>4. ASSUME IsInjective(q), x \notin ToSet(q)
      PROVE  IsInjective(w)
  <2>1. \A i \in DOMAIN q : w[i] = q[i] /\ w[i] # x
    BY <1>1, <1>4 DEF w, ToSet
  <2>2. w[Len(q) + 1] = x
    BY <1>1 DEF w
  <2>. QED
    BY <1>2, <1>4, <2>1, <2>2 DEF IsInjective
<1>. QED
  BY <1>1, <1>3, <1>4 DEF w

\* What is kept is what there was of it, once if it was there once.
LEMMA ThoseAre ==
  ASSUME NEW T, NEW s \in Seq(T), NEW S
  PROVE  /\ Those(s, S) \in Seq(T)
         /\ ToSet(Those(s, S)) = ToSet(s) \cap S
         /\ IsInjective(s) => IsInjective(Those(s, S))
<1>1. Len(s) \in Nat /\ DOMAIN s = 1..Len(s) /\ \A i \in 1..Len(s) : s[i] \in T
  OBVIOUS
<1>2. PICK f : /\ Those(s, S) = f[Len(s)] /\ f[0] = <<>>
               /\ \A n \in 1..Len(s) : f[n] = IF s[n] \in S THEN Append(f[n - 1], s[n]) ELSE f[n - 1]
  BY <1>1, Among
<1> DEFINE FirstOf(n) == {s[i] : i \in 1..n}
           Good(n) == /\ f[n] \in Seq(T) /\ ToSet(f[n]) = FirstOf(n) \cap S
                      /\ IsInjective(s) => IsInjective(f[n])
           Bad == {n \in 0..Len(s) : ~Good(n)}
<1>3. Good(0)
  BY <1>2 DEF ToSet, IsInjective
<1>4. ASSUME NEW n \in 1..Len(s), Good(n - 1)
      PROVE  Good(n)
  <2>1. n - 1 \in 0..Len(s) /\ s[n] \in T /\ FirstOf(n) = FirstOf(n - 1) \cup {s[n]}
    BY <1>1
  <2>2. IsInjective(s) => s[n] \notin FirstOf(n - 1)
    BY <1>1 DEF IsInjective
  <2>3. f[n] = IF s[n] \in S THEN Append(f[n - 1], s[n]) ELSE f[n - 1]
    BY <1>2
  <2>4. CASE s[n] \in S
    BY <2>1, <2>2, <2>3, <2>4, <1>4, Appended
  <2>5. CASE s[n] \notin S
    BY <2>1, <2>3, <2>5, <1>4
  <2>. QED
    BY <2>4, <2>5
<1>5. Bad = {}
  <2>1. ASSUME Bad # {}
        PROVE  FALSE
    <3>1. PICK k \in Bad : \A y \in Bad : k <= y
      <4>1. Bad \in SUBSET Nat
        OBVIOUS
      <4> HIDE DEF Bad
      <4>. QED
        BY <2>1, <4>1, HasFirst
    <3>2. k \in 0..Len(s) /\ ~Good(k)
      BY <3>1
    <3> HIDE DEF Good
    <3>3. k # 0
      BY <3>2, <1>3
    <3>4. k \in 1..Len(s) /\ k - 1 \in 0..Len(s) /\ ~(k <= k - 1)
      BY <3>2, <3>3, <1>1
    <3>5. Good(k - 1)
      BY <3>1, <3>4
    <3>. QED
      BY <3>2, <3>4, <3>5, <1>4
  <2>. QED
    BY <2>1
<1>6. Good(Len(s))
  <2> HIDE DEF Good
  <2>. QED
    BY <1>5, <1>1
<1>7. FirstOf(Len(s)) = ToSet(s)
  BY <1>1 DEF ToSet
<1>. QED
  BY <1>2, <1>6, <1>7

\* Reversing loses nothing.
LEMMA ReverseIs ==
  ASSUME NEW T, NEW s \in Seq(T)
  PROVE  Reverse(s) \in Seq(T) /\ ToSet(Reverse(s)) = ToSet(s)
<1>1. Len(s) \in Nat /\ DOMAIN s = 1..Len(s) /\ \A i \in 1..Len(s) : s[i] \in T /\ Len(s) - i + 1 \in 1..Len(s)
  OBVIOUS
<1>2. Reverse(s) \in Seq(T) /\ DOMAIN Reverse(s) = 1..Len(s)
  BY <1>1 DEF Reverse
<1>3. \A i \in 1..Len(s) : Reverse(s)[i] = s[Len(s) - i + 1]
  BY <1>1 DEF Reverse
<1>4. \A i \in 1..Len(s) : s[i] = Reverse(s)[Len(s) - i + 1]
  <2>1. \A i \in 1..Len(s) : Len(s) - (Len(s) - i + 1) + 1 = i
    BY <1>1
  <2>. QED
    BY <1>1, <1>3, <2>1
<1>. QED
  BY <1>1, <1>2, <1>3, <1>4 DEF ToSet

-----------------------------------------------------------------------------
(* The rows, the list, the screens *)

Holder == {Nil, "window", "run", "other"}
Row == [is : {"none", "saved", "deleted"}, root : {"here", "there"}, title : Word, first : Word \cup {Nil},
        count : Nat, holder : Holder]
Rows(e) == e \in [Id -> Row] /\ \A j \in Id : e[j].holder # Nil => e[j].is = "saved"
ListSound == recent \in Seq(Id) /\ ToSet(recent) = Saved /\ IsInjective(recent)

\* what a command or the window is about is of this project
Ours(i) == i \in Id /\ entry[i].root = "here" /\ entry[i].is # "none"

CommandSound ==
  command # Nil =>
    /\ command \in [kind : {"rename", "delete", "run"}, id : Id, title : Word, name : Word \cup {Nil},
                    step : {"write", "asked", "admit", "auto", "name", "say", "end"}]
    /\ Ours(command.id)
    /\ command.kind = "rename" => command.title # Blank
    /\ command.kind = "run" /\ command.step # "admit" => entry[command.id].holder = "run"
    /\ command.step = "name" => command.kind = "run" /\ command.name \in Word

WindowSound ==
  /\ at \in {"closed", "idle", "auto", "name", "say", "picker", "confirm"}
  /\ current \in Id \cup {Nil} /\ (current # Nil => Ours(current))
  /\ holds \in BOOLEAN /\ (holds => current # Nil /\ entry[current].holder = "window")
  /\ at \in {"auto", "name", "say"} => holds
  /\ IF at = "name" THEN name \in Word ELSE name = Nil
  /\ at = "confirm" => Ours(asked)

Option == [id : Id, title : Word, first : Word \cup {Nil}, current : BOOLEAN, locked : BOOLEAN]
PickerSound ==
  /\ options \in Seq(Option) /\ \A n \in DOMAIN options : Ours(options[n].id)
  /\ index = 0 \/ index \in DOMAIN Filtered

NamesSound ==
  /\ called \in [Id -> (Word \ {Blank}) \cup {Nil}] /\ raced \in SUBSET Id
  /\ \A i \in Id : entry[i].is = "none" => called[i] = Nil
  /\ \A i \in Saved : called[i] # Nil => entry[i].title = called[i] \/ i \in raced
  /\ \A i \in Id : BeingNamed(i) => called[i] = Nil \/ i \in raced

StoreSound == Rows(entry) /\ ListSound
ConvInv == StoreSound /\ CommandSound /\ WindowSound /\ PickerSound /\ NamesSound

-----------------------------------------------------------------------------
(* What a step does to the store *)

\* only holders differ between the rows and e, and only those of S
HeldOnly(e, S) ==
  /\ Rows(e)
  /\ \A j \in Id : /\ e[j].is = entry[j].is /\ e[j].root = entry[j].root /\ e[j].title = entry[j].title
                   /\ e[j].first = entry[j].first /\ e[j].count = entry[j].count
                   /\ j \notin S => e[j] = entry[j]

\* Holding a conversation.
LEMMA HeldIs ==
  ASSUME Rows(entry), NEW i \in Saved, NEW h \in Holder
  PROVE  HeldOnly(Held(i, h), {i}) /\ Held(i, h)[i].holder = h
<1>1. i \in Id /\ entry[i].is = "saved"
  BY DEF Saved
<1>. QED
  BY <1>1 DEF Rows, Row, HeldOnly, Held

\* Letting one go.
LEMMA FreedIs ==
  ASSUME Rows(entry), NEW i \in Id, NEW h \in Holder
  PROVE  /\ HeldOnly(Freed(i, h), {i})
         /\ Freed(i, h)[i].holder = IF entry[i].holder = h THEN Nil ELSE entry[i].holder
  BY DEF Rows, Row, HeldOnly, Freed, Holder

\* The window lets go of its own.
LEMMA LeftIs ==
  ASSUME Rows(entry), WindowSound
  PROVE  /\ HeldOnly(Left, IF holds THEN {current} ELSE {})
         /\ \A j \in Id : entry[j].holder # "window" => Left[j].holder = entry[j].holder
<1>1. CASE holds
  <2>1. current \in Id /\ "window" \in Holder /\ Left = Freed(current, "window")
    BY <1>1, ConversationsAssumption DEF WindowSound, Left, Holder
  <2>2. HeldOnly(Left, {current}) /\ (entry[current].holder # "window" => Left[current].holder = entry[current].holder)
    BY <2>1, FreedIs
  <2>. QED
    BY <1>1, <2>2 DEF HeldOnly
<1>2. CASE ~holds
  BY <1>2 DEF Left, HeldOnly, Rows
<1>. QED
  BY <1>1, <1>2

\* a row that was created stays, of its project; one that is gone is gone
Stays ==
  \A j \in Id : /\ entry[j].is # "none" => entry'[j].is # "none" /\ entry'[j].root = entry[j].root
                /\ entry'[j].is = "saved" => entry[j].is # "deleted"
TitlesKept == \A j \in Saved : entry'[j].is = "saved" => entry'[j].title = entry[j].title
NoneDeleted == \A j \in Saved : entry'[j].is # "deleted"
HeldKept(h) == \A j \in Id : entry[j].holder = h => entry'[j].holder = h
OthersKept(S) == \A j \in Id : j \notin S => entry'[j] = entry[j]

\* Nothing happens to the store.
LEMMA KeepStore ==
  ASSUME StoreSound, UNCHANGED stored
  PROVE  /\ StoreSound' /\ Stays /\ TitlesKept /\ NoneDeleted /\ OthersKept({})
         /\ \A h : HeldKept(h)
  BY DEF StoreSound, Rows, ListSound, Saved, stored, Stays, TitlesKept, NoneDeleted, OthersKept, HeldKept

\* Only holders change.
LEMMA HoldStore ==
  ASSUME StoreSound, NEW S, HeldOnly(entry', S), recent' = recent
  PROVE  StoreSound' /\ Stays /\ TitlesKept /\ NoneDeleted /\ OthersKept(S)
<1>1. Saved' = Saved
  BY DEF HeldOnly, Saved
<1>. QED
  BY <1>1 DEF StoreSound, ListSound, HeldOnly, Stays, TitlesKept, NoneDeleted, OthersKept, Saved

\* A title is written.
LEMMA TitleStore ==
  ASSUME StoreSound, NEW i \in Id, NEW title \in Word, Titled(i, title), recent' = recent
  PROVE  /\ StoreSound' /\ Stays /\ NoneDeleted /\ OthersKept({i})
         /\ \A h : HeldKept(h)
         /\ \A j \in Saved : entry'[j].is = "saved" /\ entry'[j].count = entry[j].count
         /\ i \in Saved => entry'[i].title = title
<1>1. /\ Rows(entry') /\ OthersKept({i})
      /\ entry'[i].is = entry[i].is /\ entry'[i].root = entry[i].root /\ entry'[i].count = entry[i].count
      /\ entry'[i].holder = entry[i].holder /\ (i \in Saved => entry'[i].title = title)
  BY DEF StoreSound, Rows, Row, Titled, OthersKept
<1>2. Saved' = Saved
  BY <1>1 DEF OthersKept, Saved
<1>3. StoreSound' /\ Stays /\ NoneDeleted
  BY <1>1, <1>2 DEF StoreSound, ListSound, Stays, NoneDeleted, OthersKept, Saved
<1>4. \A h : HeldKept(h)
  BY <1>1 DEF HeldKept, OthersKept
<1>5. \A j \in Saved : entry'[j].is = "saved" /\ entry'[j].count = entry[j].count
  BY <1>1 DEF OthersKept, Saved
<1>. QED
  BY <1>1, <1>3, <1>4, <1>5

\* Something is said: the conversation becomes the latest.
LEMMA SayStore ==
  ASSUME StoreSound, NEW i \in Saved, NEW text \in Word, Say(i, text)
  PROVE  /\ StoreSound' /\ Stays /\ TitlesKept /\ NoneDeleted /\ OthersKept({i})
         /\ \A h : HeldKept(h)
<1>0. i \in Id
  BY DEF Saved
<1> DEFINE n == entry[i].count + 1
           t == IF entry[i].first = Nil THEN text ELSE entry[i].first
           said == [entry[i] EXCEPT !.count = n, !.first = t]
<1>a. entry[i] \in Row
  BY <1>0 DEF StoreSound, Rows
<1>b. n \in Nat /\ t \in Word \cup {Nil}
  BY <1>a DEF Row
<1>c. entry' = [entry EXCEPT ![i] = said]
  BY DEF Say
<1>d. said \in Row /\ said.is = entry[i].is /\ said.root = entry[i].root /\ said.title = entry[i].title
      /\ said.holder = entry[i].holder
  <2> HIDE DEF n, t
  <2>. QED
    BY <1>a, <1>b DEF Row
<1> HIDE DEF said
<1>1. /\ Rows(entry') /\ OthersKept({i})
      /\ entry'[i].is = entry[i].is /\ entry'[i].root = entry[i].root /\ entry'[i].title = entry[i].title
      /\ entry'[i].holder = entry[i].holder
  BY <1>0, <1>c, <1>d DEF StoreSound, Rows, OthersKept
<1>2. Saved' = Saved
  BY <1>1 DEF OthersKept, Saved
<1>3. ListSound'
  <2> DEFINE others == Those(recent, Id \ {i})
  <2>1. recent \in Seq(Id) /\ ToSet(recent) = Saved /\ IsInjective(recent) /\ recent' = Append(others, i)
    BY DEF StoreSound, ListSound, Say
  <2>2. others \in Seq(Id) /\ ToSet(others) = Saved \cap (Id \ {i}) /\ IsInjective(others)
    BY <2>1, ThoseAre
  <2> HIDE DEF others
  <2>3. i \notin ToSet(others) /\ ToSet(others) \cup {i} = Saved
    BY <2>2 DEF Saved
  <2>4. recent' \in Seq(Id) /\ ToSet(recent') = ToSet(others) \cup {i} /\ IsInjective(recent')
    BY <2>1, <2>2, <2>3, <1>0, Appended
  <2>. QED
    BY <2>3, <2>4, <1>2 DEF ListSound
<1>4. Stays /\ TitlesKept /\ NoneDeleted /\ \A h : HeldKept(h)
  BY <1>1 DEF Stays, TitlesKept, NoneDeleted, OthersKept, HeldKept, Saved
<1>. QED
  BY <1>1, <1>3, <1>4 DEF StoreSound

\* A conversation is deleted, if nobody holds it.
LEMMA DeleteStore ==
  ASSUME StoreSound, NEW i, Ours(i), Delete(i)
  PROVE  /\ StoreSound' /\ Stays /\ TitlesKept /\ OthersKept({i})
         /\ HeldKept("window") /\ HeldKept("run")
         /\ \A j \in Saved : entry'[j].is = "deleted" => j = i /\ ~Live(i)
<1>0. i \in Id /\ entry[i].is # "none"
  BY DEF Ours
<1>1. CASE Live(i)
  BY <1>1, KeepStore DEF Delete, OthersKept, NoneDeleted
<1>2. CASE ~Live(i)
  <2>1. entry' = [entry EXCEPT ![i] = [Blanked EXCEPT !.is = "deleted", !.root = entry[i].root]]
        /\ recent' = Those(recent, Id \ {i})
    BY <1>2 DEF Delete
  <2>2. [Blanked EXCEPT !.is = "deleted", !.root = entry[i].root] \in Row
    BY <1>0, ConversationsAssumption DEF Blanked, Row, Holder, StoreSound, Rows
  <2>3. /\ Rows(entry') /\ OthersKept({i})
        /\ entry'[i].is = "deleted" /\ entry'[i].root = entry[i].root /\ entry'[i].holder = Nil
    BY <1>0, <2>1, <2>2 DEF StoreSound, Rows, OthersKept, Blanked
  <2>4. Saved' = Saved \cap (Id \ {i})
    BY <1>0, <2>3 DEF OthersKept, Saved
  <2>5. ListSound'
    BY <2>1, <2>4, ThoseAre DEF StoreSound, ListSound
  <2>6. entry[i].holder = Nil /\ Nil # "window" /\ Nil # "run"
    BY <1>2, ConversationsAssumption DEF Live
  <2>7. Stays /\ TitlesKept /\ HeldKept("window") /\ HeldKept("run")
    BY <1>0, <2>3, <2>6 DEF Stays, TitlesKept, OthersKept, HeldKept, Saved
  <2>. QED
    BY <1>2, <2>3, <2>5, <2>7 DEF StoreSound, OthersKept, Saved
<1>. QED
  BY <1>1, <1>2

\* A conversation is created, while others may change hands.
LEMMA MakeStore ==
  ASSUME StoreSound, NEW i \in Id, entry[i].is = "none", recent' = Append(recent, i), Rows(entry'), entry'[i].is = "saved",
         \A j \in Id : j # i => /\ entry'[j].is = entry[j].is /\ entry'[j].root = entry[j].root
                                /\ entry'[j].title = entry[j].title
  PROVE  StoreSound' /\ Stays /\ TitlesKept /\ NoneDeleted
<1>1. Saved' = Saved \cup {i} /\ i \notin Saved
  BY DEF Saved
<1>2. ListSound'
  BY <1>1, Appended DEF StoreSound, ListSound
<1>. QED
  BY <1>2 DEF StoreSound, Stays, TitlesKept, NoneDeleted, Saved

\* What a new row is.
LEMMA FreshIs ==
  ASSUME NEW title \in Word, NEW holder \in Holder
  PROVE  LET fresh == Fresh(title, holder) IN
         /\ fresh \in Row /\ fresh.is = "saved" /\ fresh.root = "here" /\ fresh.title = title /\ fresh.holder = holder
  BY ConversationsAssumption DEF Fresh, Blanked, Row

-----------------------------------------------------------------------------
(* What a step keeps *)

\* What is left of the two properties of steps when the invariant is set aside.
Shown ==
  at = "picker" /\ current' # current /\ at' # "closed" =>
    LET shown == Filtered[index].id IN
    /\ current' = shown \/ (shown \notin Saved /\ entry[current'].title = FullId[shown])
    /\ current' \in Saved /\ holds'
DeletesAsked ==
  \A i \in Saved : entry'[i].is = "deleted" =>
    /\ i \in Mine /\ ~Live(i)
    /\ (at = "confirm" /\ i = asked) \/ (command # Nil /\ command.kind = "delete" /\ i = command.id)
OursOnly == \A i \in Saved \ Mine : entry'[i] # entry[i] => "other" \in {entry[i].holder, entry'[i].holder}
NamesMove ==
  \A i \in Saved : entry'[i].is = "saved" /\ entry'[i].title # entry[i].title =>
    entry'[i].count = entry[i].count /\ recent' = recent
Kept == ConvInv' /\ Shown /\ DeletesAsked /\ OursOnly /\ NamesMove

\* A command that is not at work is where it was.
LEMMA CommandStays ==
  ASSUME CommandSound, Stays, HeldKept("run"), command' = command
  PROVE  CommandSound'
  BY DEF CommandSound, Stays, HeldKept, Ours

\* So is the window.
LEMMA WindowStays ==
  ASSUME WindowSound, Stays, HeldKept("window"), UNCHANGED window
  PROVE  WindowSound'
<1>1. UNCHANGED <<at, current, holds, asked, name>>
  BY DEF window
<1>. QED
  BY <1>1 DEF WindowSound, Stays, HeldKept, Ours

\* So are its rows.
LEMMA PickerStays ==
  ASSUME PickerSound, Stays, UNCHANGED picker
  PROVE  PickerSound'
<1>1. options' = options /\ query' = query /\ index' = index
  BY DEF picker
<1>2. Filtered' = Filtered
  BY <1>1 DEF Filtered
<1>3. \A n \in DOMAIN options : options[n].id \in Id
  BY DEF PickerSound, Ours
<1>. QED
  BY <1>1, <1>2, <1>3 DEF PickerSound, Stays, Ours

\* Names stand while no title is written and nobody begins to choose one.
LEMMA NamesStay ==
  ASSUME StoreSound, NamesSound, Stays, TitlesKept, called' = called, raced' = raced,
         \A i \in Id : BeingNamed(i)' => BeingNamed(i)
  PROVE  NamesSound'
<1>1. \A i \in Id : entry'[i].is = "none" => entry[i].is = "none"
  BY DEF Stays
<1>2. ASSUME NEW i \in Saved', called[i] # Nil
      PROVE  entry'[i].title = called[i] \/ i \in raced
  <2>1. i \in Id /\ entry'[i].is = "saved"
    BY DEF Saved
  <2>2. entry[i].is # "none" /\ entry[i].is # "deleted"
    BY <1>2, <2>1 DEF NamesSound, Stays
  <2>3. i \in Saved
    <3>1. entry'[i].title = entry[i].title \/ entry[i].is # "saved"
      BY <2>1 DEF TitlesKept, Saved
    <3>. QED
      BY <2>1, <2>2 DEF Saved, StoreSound, Rows, Row
  <2>. QED
    BY <1>2, <2>1, <2>3 DEF TitlesKept, NamesSound
<1>. QED
  BY <1>1, <1>2 DEF NamesSound

\* What is of this project is nobody else's.
LEMMA OursChange ==
  ASSUME NEW S, OthersKept(S), \A i \in S : Ours(i) \/ i \notin Saved
  PROVE  OursOnly
  BY DEF OthersKept, OursOnly, Mine, Ours, Saved

\* A reference leads to this project.
LEMMA ResolvedOurs ==
  ASSUME NEW ref, NEW i \in Resolved(ref)
  PROVE  i \in Mine /\ i \in Saved /\ Ours(i)
  BY DEF Resolved, Mine, Saved, Ours

\* The lists are of this project.
LEMMA ListsOurs ==
  ASSUME StoreSound
  PROVE  /\ NonEmpty \in Seq(Id) /\ ToSet(NonEmpty) \subseteq Mine
         /\ LatestNonEmpty # Nil => LatestNonEmpty \in Mine /\ LatestNonEmpty \in Saved /\ Ours(LatestNonEmpty)
<1>1. Those(recent, Mine) \in Seq(Id) /\ ToSet(Those(recent, Mine)) \subseteq Mine
  BY ThoseAre DEF StoreSound, ListSound
<1>2. ListSessions \in Seq(Id) /\ ToSet(ListSessions) \subseteq Mine
  BY <1>1, ReverseIs DEF ListSessions
<1>3. NonEmpty \in Seq(Id) /\ ToSet(NonEmpty) \subseteq Mine
  BY <1>2, ThoseAre DEF NonEmpty
<1>4. NonEmpty # <<>> => NonEmpty[1] \in ToSet(NonEmpty)
  BY <1>3 DEF ToSet
<1>. QED
  BY <1>3, <1>4 DEF LatestNonEmpty, Mine, Saved, Ours

-----------------------------------------------------------------------------
(* Commands *)

\* A command begins: nothing else happens.
LEMMA CommandBegins ==
  ASSUME ConvInv, NEW kind \in {"rename", "delete", "run"}, NEW i \in Mine, NEW title \in Word,
         NEW step \in {"write", "asked", "admit"}, Begin(kind, i, title, step), kind = "rename" => title # Blank,
         kind = "run" => step = "admit", UNCHANGED <<stored, window, called, raced>>
  PROVE  Kept
<1>1. command' = [kind |-> kind, id |-> i, title |-> title, step |-> step, name |-> Nil] /\ command = Nil
  BY DEF Begin
<1>2. Ours(i) /\ i \in Id
  BY DEF Mine, Saved, Ours
<1>3. StoreSound' /\ Stays /\ TitlesKept /\ NoneDeleted /\ OthersKept({}) /\ HeldKept("window")
  BY KeepStore DEF ConvInv
<1>4. CommandSound'
  BY <1>1, <1>2, <1>3 DEF CommandSound, Ours, Stays
<1>5. UNCHANGED <<at, current, name, picker, called, raced>>
  BY DEF window
<1>6. WindowSound' /\ PickerSound'
  BY <1>3, <1>5, WindowStays, PickerStays DEF ConvInv
<1>7. \A j \in Id : BeingNamed(j)' => BeingNamed(j)
  BY <1>1, <1>5 DEF BeingNamed, Step
<1>8. NamesSound'
  BY <1>3, <1>5, <1>7, NamesStay DEF ConvInv
<1>9. OursOnly
  BY <1>3, OursChange
<1>. QED
  BY <1>3, <1>4, <1>5, <1>6, <1>8, <1>9 DEF Kept, ConvInv, Shown, DeletesAsked, NoneDeleted, TitlesKept, NamesMove

\* The commands that begin on a conversation that is there.
LEMMA BeginsKeep ==
  ASSUME ConversationsAssumption, ConvInv,
         \/ \E ref \in Word : BeginDelete(ref) \/ \E title \in Naming : BeginRename(ref, title)
         \/ \E ref \in Word, title \in Naming \cup {Blank} : BeginRun(ref, title)
         \/ \E title \in Naming \cup {Blank} : BeginLatest(title)
  PROVE  Kept
<1>1. Blank \in Word /\ \A title \in Naming : title \in Word /\ title # Blank
  BY ConversationsAssumption
<1>2. CASE \E ref \in Word : BeginDelete(ref)
  <2>1. PICK ref \in Word : BeginDelete(ref)
    BY <1>2
  <2>2. PICK i \in Resolved(ref) : Begin("delete", i, Blank, "asked")
    BY <2>1 DEF BeginDelete
  <2>. QED
    BY <1>1, <2>1, <2>2, ResolvedOurs, CommandBegins DEF BeginDelete
<1>3. CASE \E ref \in Word : \E title \in Naming : BeginRename(ref, title)
  <2>1. PICK ref \in Word : \E title \in Naming : BeginRename(ref, title)
    BY <1>3
  <2>2. PICK title \in Naming : BeginRename(ref, title)
    BY <2>1
  <2>3. PICK i \in Resolved(ref) : Begin("rename", i, title, "write")
    BY <2>2 DEF BeginRename
  <2>. QED
    BY <1>1, <2>2, <2>3, ResolvedOurs, CommandBegins DEF BeginRename
<1>4. CASE \E ref \in Word, title \in Naming \cup {Blank} : BeginRun(ref, title)
  <2>1. PICK ref \in Word, title \in Naming \cup {Blank} : BeginRun(ref, title)
    BY <1>4
  <2>2. PICK i \in Resolved(ref) : Begin("run", i, title, "admit")
    BY <2>1 DEF BeginRun
  <2>3. title \in Word
    BY <1>1
  <2>. QED
    BY <2>1, <2>2, <2>3, ResolvedOurs, CommandBegins DEF BeginRun
<1>5. CASE \E title \in Naming \cup {Blank} : BeginLatest(title)
  <2>1. PICK title \in Naming \cup {Blank} : BeginLatest(title)
    BY <1>5
  <2>2. LatestNonEmpty \in Mine
    BY <2>1, ListsOurs DEF BeginLatest, ConvInv
  <2>3. title \in Word
    BY <1>1
  <2>. QED
    BY <2>1, <2>2, <2>3, CommandBegins DEF BeginLatest
<1>. QED
  BY <1>2, <1>3, <1>4, <1>5

\* A run without a reference makes its conversation.
LEMMA BeginNewKeeps ==
  ASSUME ConvInv, NEW title \in Naming \cup {Blank}, BeginNew(title)
  PROVE  Kept
<1>0. PICK i \in Id : /\ Unused(i) /\ Begin("run", i, Blank, "admit")
                      /\ entry' = [entry EXCEPT ![i] = Fresh(title, Nil)] /\ recent' = Append(recent, i)
                      /\ called' = [called EXCEPT ![i] = IF title = Blank THEN Nil ELSE title]
                      /\ UNCHANGED <<window, raced>>
  BY DEF BeginNew
<1>1. command' = [kind |-> "run", id |-> i, title |-> Blank, step |-> "admit", name |-> Nil] /\ command = Nil
  BY <1>0 DEF Begin
<1>2. entry[i].is = "none" /\ title \in Word /\ Blank \in Word /\ Nil \in Holder
  BY <1>0, ConversationsAssumption DEF Unused, Holder
<1>3. /\ StoreSound' /\ Stays /\ TitlesKept /\ NoneDeleted /\ OthersKept({i})
      /\ \A j \in Id : j # i => entry'[j].holder = entry[j].holder
      /\ entry'[i].title = title /\ entry'[i].root = "here" /\ entry'[i].is = "saved"
  <2> DEFINE fresh == Fresh(title, Nil)
  <2>1. fresh \in Row /\ fresh.is = "saved" /\ fresh.root = "here" /\ fresh.title = title
    BY <1>2, FreshIs
  <2>2. entry' = [entry EXCEPT ![i] = fresh] /\ recent' = Append(recent, i)
    BY <1>0
  <2> HIDE DEF fresh
  <2>3. Rows(entry') /\ entry'[i] = fresh /\ OthersKept({i})
    BY <2>1, <2>2 DEF ConvInv, StoreSound, Rows, OthersKept
  <2>4. \A j \in Id : j # i => entry'[j] = entry[j]
    BY <2>3 DEF OthersKept
  <2>5. StoreSound' /\ Stays /\ TitlesKept /\ NoneDeleted
    BY <1>2, <2>1, <2>2, <2>3, <2>4, MakeStore DEF ConvInv
  <2>. QED
    BY <2>1, <2>3, <2>4, <2>5
<1>4. HeldKept("window")
  <2>1. entry[i].holder # "window"
    BY <1>2, ConversationsAssumption DEF ConvInv, StoreSound, Rows
  <2>. QED
    BY <1>3, <2>1 DEF HeldKept
<1>5. CommandSound'
  BY <1>1, <1>2, <1>3 DEF CommandSound, Ours
<1>6. UNCHANGED <<at, current, name, picker, raced>>
  BY <1>0 DEF window
<1>7. WindowSound' /\ PickerSound'
  BY <1>0, <1>3, <1>4, <1>6, WindowStays, PickerStays DEF ConvInv
<1>8. \A j \in Id : BeingNamed(j)' => BeingNamed(j) /\ j # i
  BY <1>1, <1>2, <1>6 DEF BeingNamed, Step, ConvInv, WindowSound, Ours
<1>9. NamesSound'
  <2>1. /\ called' \in [Id -> (Word \ {Blank}) \cup {Nil}]
        /\ called'[i] = IF title = Blank THEN Nil ELSE title
        /\ \A j \in Id : j # i => called'[j] = called[j]
    BY <1>0, ConversationsAssumption DEF ConvInv, NamesSound
  <2>2. \A j \in Id : j # i => entry'[j] = entry[j]
    BY <1>3 DEF OthersKept
  <2>3. \A j \in Saved' : j \in Saved \/ j = i
    BY <2>2 DEF Saved
  <2>4. NamesSound /\ raced' = raced
    BY <1>6 DEF ConvInv
  <2>5. \A j \in Id : entry'[j].is = "none" => called'[j] = Nil
    BY <1>3, <2>1, <2>2, <2>4 DEF NamesSound
  <2>6. ASSUME NEW j \in Saved', called'[j] # Nil
        PROVE  entry'[j].title = called'[j] \/ j \in raced'
    <3>1. CASE j = i
      BY <1>3, <2>1, <2>6, <3>1
    <3>2. CASE j # i
      BY <2>1, <2>2, <2>3, <2>4, <2>6, <3>2 DEF NamesSound, Saved
    <3>. QED
      BY <3>1, <3>2
  <2>7. ASSUME NEW j \in Id, BeingNamed(j)'
        PROVE  called'[j] = Nil \/ j \in raced'
    BY <1>8, <2>1, <2>4, <2>7 DEF NamesSound
  <2>. QED
    BY <2>1, <2>4, <2>5, <2>6, <2>7 DEF NamesSound
<1>10. OursOnly
  BY <1>2, <1>3, OursChange DEF Saved
<1>. QED
  BY <1>3, <1>5, <1>6, <1>7, <1>9, <1>10 DEF Kept, ConvInv, Shown, DeletesAsked, NoneDeleted, TitlesKept, NamesMove

\* A user names a conversation.
LEMMA RenameNames ==
  ASSUME StoreSound, NamesSound, NEW i \in Id, NEW title \in Word \ {Blank}, Rename(i, title),
         \A j \in Id : BeingNamed(j)' => BeingNamed(j)
  PROVE  NamesSound'
<1>1. /\ \A j \in Saved : entry'[j].is = "saved"
      /\ i \in Saved => entry'[i].title = title
      /\ OthersKept({i}) /\ Stays
  BY TitleStore DEF Rename
<1>2. /\ called' \in [Id -> (Word \ {Blank}) \cup {Nil}]
      /\ called'[i] = IF i \in Saved THEN title ELSE called[i]
      /\ \A j \in Id : j # i => called'[j] = called[j]
  BY DEF Rename, NamesSound
<1>3. raced' \in SUBSET Id /\ raced \subseteq raced' /\ (BeingNamed(i) => i \in raced')
  BY DEF Rename, NamesSound
<1>4. Saved' = Saved
  BY <1>1 DEF OthersKept, Saved, Rename, Titled, StoreSound, Rows, Row
<1>5. \A j \in Id : entry'[j].is = "none" => entry[j].is = "none"
  BY <1>1 DEF Stays
<1>6. ASSUME NEW j \in Id, BeingNamed(j)'
      PROVE  called'[j] = Nil \/ j \in raced'
  BY <1>2, <1>3, <1>6 DEF NamesSound
<1>7. ASSUME NEW j \in Saved, called'[j] # Nil
      PROVE  entry'[j].title = called'[j] \/ j \in raced'
  <2>1. j \in Id
    BY DEF Saved
  <2>2. CASE j # i
    BY <1>1, <1>2, <1>3, <1>7, <2>1, <2>2 DEF NamesSound, OthersKept
  <2>. QED
    BY <1>1, <1>2, <2>2
<1>8. \A j \in Id : entry'[j].is = "none" => called'[j] = Nil
  BY <1>2, <1>5 DEF NamesSound, Saved
<1>. QED
  BY <1>2, <1>3, <1>4, <1>6, <1>7, <1>8 DEF NamesSound

\* A conversation gets a name by itself.
LEMMA WrittenNames ==
  ASSUME StoreSound, NamesSound, NEW i \in Id, BeingNamed(i), NEW title \in Word, WriteName(i, title),
         \A j \in Id : BeingNamed(j)' => BeingNamed(j)
  PROVE  NamesSound'
<1>1. OthersKept({i}) /\ Stays /\ \A j \in Saved : entry'[j].is = "saved"
  BY TitleStore DEF WriteName
<1>2. called' = called /\ raced' = raced /\ (called[i] = Nil \/ i \in raced)
  BY DEF WriteName, NamesSound
<1>3. \A j \in Id : entry'[j].is = "none" => entry[j].is = "none"
  BY <1>1 DEF Stays
<1>4. Saved' = Saved
  BY <1>1 DEF OthersKept, Saved, WriteName, Titled, StoreSound, Rows, Row
<1>5. ASSUME NEW j \in Saved, called[j] # Nil
      PROVE  entry'[j].title = called[j] \/ j \in raced
  BY <1>1, <1>2, <1>5 DEF OthersKept, NamesSound, Saved
<1>. QED
  BY <1>2, <1>3, <1>4, <1>5 DEF NamesSound

\* `sessions rename` writes.
LEMMA RenameWriteKeeps ==
  ASSUME ConvInv, RenameWrite
  PROVE  Kept
<1>1. /\ Rename(command.id, command.title) /\ command' = Nil /\ UNCHANGED window
      /\ command.id \in Id /\ command.title \in Word \ {Blank} /\ Ours(command.id)
  BY DEF RenameWrite, Step, ConvInv, CommandSound
<1>2. Titled(command.id, command.title) /\ recent' = recent
  BY <1>1 DEF Rename
<1>3. /\ StoreSound' /\ Stays /\ NoneDeleted /\ OthersKept({command.id}) /\ HeldKept("window")
      /\ \A j \in Saved : entry'[j].count = entry[j].count
  BY <1>1, <1>2, TitleStore DEF ConvInv
<1>4. UNCHANGED <<at, current, name, picker>>
  BY <1>1 DEF window
<1>5. WindowSound' /\ PickerSound' /\ CommandSound'
  BY <1>1, <1>3, <1>4, WindowStays, PickerStays DEF ConvInv, CommandSound
<1>6. \A j \in Id : BeingNamed(j)' => BeingNamed(j)
  BY <1>1, <1>4 DEF BeingNamed, Step
<1>7. NamesSound'
  BY <1>1, <1>6, RenameNames DEF ConvInv
<1>8. OursOnly
  BY <1>1, <1>3, OursChange
<1>. QED
  BY <1>2, <1>3, <1>4, <1>5, <1>7, <1>8 DEF Kept, ConvInv, Shown, DeletesAsked, NoneDeleted, NamesMove

\* `sessions delete` gets its answer.
LEMMA DeleteAnswerKeeps ==
  ASSUME ConvInv, NEW yes \in BOOLEAN, DeleteAnswer(yes)
  PROVE  Kept
<1>1. /\ (IF yes THEN Delete(command.id) ELSE UNCHANGED stored)
      /\ command # Nil /\ command.kind = "delete" /\ Ours(command.id) /\ command' = Nil
      /\ UNCHANGED <<window, called, raced>>
  BY DEF DeleteAnswer, Over, Step, ConvInv, CommandSound
<1>2. /\ StoreSound' /\ Stays /\ TitlesKept /\ OthersKept({command.id}) /\ HeldKept("window")
      /\ \A j \in Saved : entry'[j].is = "deleted" => j = command.id /\ ~Live(command.id)
  <2>1. CASE yes
    BY <1>1, <2>1, DeleteStore DEF ConvInv
  <2>2. CASE ~yes
    BY <1>1, <2>2, KeepStore DEF ConvInv, OthersKept, NoneDeleted
  <2>. QED
    BY <2>1, <2>2
<1>3. UNCHANGED <<at, current, name, picker, called, raced>>
  BY <1>1 DEF window
<1>4. WindowSound' /\ PickerSound' /\ CommandSound'
  BY <1>1, <1>2, <1>3, WindowStays, PickerStays DEF ConvInv, CommandSound
<1>5. \A j \in Id : BeingNamed(j)' => BeingNamed(j)
  BY <1>1, <1>3 DEF BeingNamed, Step
<1>6. NamesSound'
  BY <1>2, <1>3, <1>5, NamesStay DEF ConvInv
<1>7. OursOnly
  BY <1>1, <1>2, OursChange
<1>8. DeletesAsked
  BY <1>1, <1>2 DEF DeletesAsked, Ours, Mine
<1>. QED
  BY <1>2, <1>3, <1>4, <1>6, <1>7, <1>8 DEF Kept, ConvInv, Shown, TitlesKept, NamesMove

\* A step of a run: the window and the other conversations are left alone.
LEMMA RunKeeps ==
  ASSUME ConvInv, StoreSound', Stays, NoneDeleted, OthersKept({command.id}), HeldKept("window"), NamesMove,
         command # Nil, CommandSound', NamesSound', UNCHANGED window
  PROVE  Kept
<1>1. UNCHANGED <<at, current, picker>>
  BY DEF window
<1>2. WindowSound' /\ PickerSound'
  BY <1>1, WindowStays, PickerStays DEF ConvInv
<1>3. OursOnly
  BY OursChange DEF ConvInv, CommandSound
<1>. QED
  BY <1>1, <1>2, <1>3 DEF Kept, ConvInv, Shown, DeletesAsked, NoneDeleted

\* What a run is at.
LEMMA RunIs ==
  ASSUME ConvInv, NEW step, Step("run", step)
  PROVE  /\ command # Nil /\ Ours(command.id) /\ command.id \in Id
         /\ step # "admit" => command.id \in Saved /\ entry[command.id].holder = "run"
<1>1. command # Nil /\ Ours(command.id) /\ command.id \in Id /\ (step # "admit" => entry[command.id].holder = "run")
  BY DEF Step, ConvInv, CommandSound, Ours
<1>. QED
  BY <1>1, ConversationsAssumption DEF ConvInv, StoreSound, Rows, Saved

\* A run is admitted, or turned away.
LEMMA RunAdmittedKeeps ==
  ASSUME ConvInv, RunAdmitted
  PROVE  Kept
<1> DEFINE i == command.id
<1>0. command # Nil /\ Ours(i) /\ i \in Id /\ command.kind = "run"
  BY RunIs DEF RunAdmitted, Step
<1>1. UNCHANGED <<window, raced>> /\ recent' = recent
  BY DEF RunAdmitted
<1>2. CASE CanHold(i, "run")
  <2> DEFINE t == IF command.title = Blank THEN entry[i].title ELSE command.title
  <2>1. /\ entry' = [entry EXCEPT ![i] = [@ EXCEPT !.holder = "run", !.title = t]]
        /\ called' = [called EXCEPT ![i] = IF command.title = Blank THEN @ ELSE command.title]
        /\ command' = [command EXCEPT !.step = "auto"]
    <3>1. entry' = [Held(i, "run") EXCEPT ![i].title = IF command.title = Blank THEN @ ELSE command.title]
      BY <1>2 DEF RunAdmitted
    <3>2. Held(i, "run")[i].title = entry[i].title
      BY <1>0 DEF Held, ConvInv, StoreSound, Rows, Row
    <3>. QED
      BY <1>0, <1>2, <3>1, <3>2 DEF RunAdmitted, Held, ConvInv, StoreSound, Rows, Row
  <2>2. i \in Saved /\ entry[i].holder # "window" /\ t \in Word /\ entry[i] \in Row /\ entry[i].is = "saved"
    BY <1>0, <1>2, ConversationsAssumption DEF CanHold, ConvInv, CommandSound, StoreSound, Rows, Row, Saved
  <2> HIDE DEF t
  <2>3. /\ Rows(entry') /\ OthersKept({i}) /\ entry'[i].is = "saved" /\ entry'[i].root = entry[i].root
        /\ entry'[i].holder = "run" /\ entry'[i].title = t /\ entry'[i].count = entry[i].count
    BY <1>0, <2>1, <2>2 DEF ConvInv, StoreSound, Rows, Row, Holder, OthersKept
  <2>4. Saved' = Saved
    BY <2>2, <2>3 DEF OthersKept, Saved
  <2>5. StoreSound' /\ Stays /\ NoneDeleted /\ HeldKept("window") /\ NamesMove
    BY <1>1, <2>2, <2>3, <2>4 DEF ConvInv, StoreSound, ListSound, Stays, NoneDeleted, OthersKept, HeldKept, NamesMove, Saved
  <2>6. CommandSound'
    BY <1>0, <2>1, <2>3 DEF CommandSound, ConvInv, Ours
  <2>7. NamesSound'
    <3>1. /\ called' \in [Id -> (Word \ {Blank}) \cup {Nil}]
          /\ called'[i] = IF command.title = Blank THEN called[i] ELSE command.title
          /\ \A j \in Id : j # i => called'[j] = called[j]
      BY <1>0, <2>1 DEF ConvInv, NamesSound, CommandSound
    <3>2. \A j \in Id : BeingNamed(j)' => BeingNamed(j) /\ j # i
      <4>1. \A j \in Id : BeingNamed(j)' => BeingNamed(j) /\ name # Nil /\ current = j
        <5>1. command' # Nil => command'.step = "auto"
          BY <1>0, <2>1 DEF ConvInv, CommandSound
        <5>2. current' = current /\ name' = name
          BY <1>1 DEF window
        <5>. QED
          BY <5>1, <5>2 DEF BeingNamed, Step
      <4>2. name # Nil => current # i
        BY <2>2 DEF ConvInv, WindowSound
      <4>. QED
        BY <4>1, <4>2
    <3>3. ASSUME NEW j \in Saved, called'[j] # Nil
          PROVE  entry'[j].title = called'[j] \/ j \in raced
      <4>1. CASE j = i
        BY <1>0, <2>2, <2>3, <3>1, <3>3, <4>1 DEF ConvInv, NamesSound, t
      <4>2. CASE j # i
        BY <2>3, <3>1, <3>3, <4>2 DEF ConvInv, NamesSound, OthersKept, Saved
      <4>. QED
        BY <4>1, <4>2
    <3>4. ASSUME NEW j \in Id, entry'[j].is = "none"
          PROVE  called'[j] = Nil
      BY <2>3, <3>1, <3>4 DEF ConvInv, NamesSound, OthersKept
    <3>5. ASSUME NEW j \in Id, BeingNamed(j)'
          PROVE  called'[j] = Nil \/ j \in raced
      BY <3>1, <3>2, <3>5 DEF ConvInv, NamesSound
    <3>6. raced' = raced /\ raced \in SUBSET Id
      BY <1>1 DEF ConvInv, NamesSound
    <3>. QED
      BY <2>4, <3>1, <3>3, <3>4, <3>5, <3>6 DEF NamesSound
  <2>. QED
    BY <1>0, <1>1, <2>3, <2>5, <2>6, <2>7, RunKeeps
<1>3. CASE ~CanHold(i, "run")
  <2>1. UNCHANGED <<entry, called>> /\ command' = Nil
    BY <1>3 DEF RunAdmitted
  <2>2. StoreSound' /\ Stays /\ TitlesKept /\ NoneDeleted /\ OthersKept({i}) /\ HeldKept("window") /\ NamesMove
    BY <1>1, <2>1, KeepStore DEF ConvInv, stored, OthersKept, NamesMove
  <2>3. \A j \in Id : BeingNamed(j)' => BeingNamed(j)
    BY <1>1, <2>1 DEF BeingNamed, Step, window
  <2>4. CommandSound' /\ NamesSound'
    BY <1>1, <2>1, <2>2, <2>3, NamesStay DEF CommandSound, ConvInv
  <2>. QED
    BY <1>0, <1>1, <2>2, <2>4, RunKeeps
<1>. QED
  BY <1>2, <1>3

\* A run looks whether its conversation has a name.
LEMMA RunLooksKeeps ==
  ASSUME ConvInv, NEW text \in Speech, RunLooks(text)
  PROVE  Kept
<1> DEFINE i == command.id
           n == AutoName(i, text)
<1>0. command # Nil /\ Ours(i) /\ i \in Id /\ i \in Saved /\ entry[i].holder = "run" /\ command.kind = "run"
  BY RunIs DEF RunLooks, Step
<1>1. /\ UNCHANGED <<stored, window, called, raced>>
      /\ command' = [command EXCEPT !.name = n, !.step = IF n = Nil THEN "say" ELSE "name"]
  BY DEF RunLooks
<1>2. n \in Word \cup {Nil} /\ (n # Nil => Unnamed(i))
  BY <1>0, ConversationsAssumption DEF AutoName, ConvInv, StoreSound, Rows, Row
<1> HIDE DEF n
<1>3. StoreSound' /\ Stays /\ TitlesKept /\ NoneDeleted /\ OthersKept({i}) /\ HeldKept("window") /\ NamesMove
  BY <1>1, KeepStore DEF ConvInv, stored, OthersKept, NamesMove
<1>4. UNCHANGED <<entry, current, name>>
  BY <1>1 DEF stored, window
<1>5. CommandSound'
  BY <1>0, <1>1, <1>2, <1>4 DEF CommandSound, ConvInv, Ours
<1>6. ASSUME NEW j \in Id, BeingNamed(j)'
      PROVE  called[j] = Nil \/ j \in raced
  <2>1. CASE BeingNamed(j)
    BY <2>1 DEF ConvInv, NamesSound
  <2>2. CASE ~BeingNamed(j)
    <3>1. command'.id = j /\ command'.step = "name"
      BY <1>4, <1>6, <2>2 DEF BeingNamed, Step
    <3>2. j = i /\ Unnamed(i)
      BY <1>0, <1>1, <1>2, <3>1 DEF ConvInv, CommandSound
    <3>. QED
      BY <1>0, <3>2 DEF ConvInv, NamesSound, Unnamed
  <2>. QED
    BY <2>1, <2>2
<1>7. NamesSound'
  BY <1>1, <1>4, <1>6 DEF ConvInv, NamesSound, Saved
<1>. QED
  BY <1>0, <1>1, <1>3, <1>5, <1>7, RunKeeps

\* A run writes the name it chose.
LEMMA RunNamesKeeps ==
  ASSUME ConvInv, RunNames
  PROVE  Kept
<1> DEFINE i == command.id
<1>0. /\ command # Nil /\ Ours(i) /\ i \in Id /\ entry[i].holder = "run" /\ command.kind = "run"
      /\ command.name \in Word /\ BeingNamed(i)
  BY RunIs DEF RunNames, Step, BeingNamed, ConvInv, CommandSound
<1>1. /\ UNCHANGED window /\ command' = [command EXCEPT !.step = "say"]
      /\ WriteName(i, command.name) /\ Titled(i, command.name) /\ recent' = recent
  BY DEF RunNames, WriteName
<1>2. /\ StoreSound' /\ Stays /\ NoneDeleted /\ OthersKept({i}) /\ HeldKept("window") /\ HeldKept("run")
      /\ \A j \in Saved : entry'[j].count = entry[j].count
  BY <1>0, <1>1, TitleStore DEF ConvInv
<1>3. NamesMove
  BY <1>1, <1>2 DEF NamesMove
<1>4. CommandSound'
  BY <1>0, <1>1, <1>2 DEF CommandSound, ConvInv, Ours, Stays, HeldKept
<1>5. \A j \in Id : BeingNamed(j)' => BeingNamed(j)
  <2>1. command' # Nil => command'.step = "say"
    BY <1>0, <1>1 DEF ConvInv, CommandSound
  <2>2. current' = current /\ name' = name
    BY <1>1 DEF window
  <2>. QED
    BY <2>1, <2>2 DEF BeingNamed, Step
<1>6. NamesSound'
  BY <1>0, <1>1, <1>5, WrittenNames DEF ConvInv
<1>. QED
  BY <1>0, <1>1, <1>2, <1>3, <1>4, <1>6, RunKeeps

\* A run's first prompt is said.
LEMMA RunSaysKeeps ==
  ASSUME ConvInv, NEW text \in Speech, RunSays(text)
  PROVE  Kept
<1> DEFINE i == command.id
<1>0. command # Nil /\ Ours(i) /\ i \in Saved /\ entry[i].holder = "run" /\ command.kind = "run"
  BY RunIs DEF RunSays, Step
<1>1. /\ UNCHANGED <<window, called, raced>> /\ command' = [command EXCEPT !.step = "end"] /\ Say(i, text)
      /\ text \in Word
  BY ConversationsAssumption DEF RunSays
<1>2. StoreSound' /\ Stays /\ TitlesKept /\ NoneDeleted /\ OthersKept({i}) /\ HeldKept("window") /\ HeldKept("run")
  BY <1>0, <1>1, SayStore DEF ConvInv
<1>3. NamesMove
  BY <1>2 DEF NamesMove, TitlesKept
<1>4. CommandSound'
  BY <1>0, <1>1, <1>2 DEF CommandSound, ConvInv, Ours, Stays, HeldKept
<1>5. \A j \in Id : BeingNamed(j)' => BeingNamed(j)
  <2>1. command' # Nil => command'.step = "end"
    BY <1>0, <1>1 DEF ConvInv, CommandSound
  <2>2. current' = current /\ name' = name
    BY <1>1 DEF window
  <2>. QED
    BY <2>1, <2>2 DEF BeingNamed, Step
<1>6. NamesSound'
  BY <1>1, <1>2, <1>5, NamesStay DEF ConvInv
<1>. QED
  BY <1>0, <1>1, <1>2, <1>3, <1>4, <1>6, RunKeeps

\* A run ends or dies.
LEMMA RunEndsKeeps ==
  ASSUME ConvInv, RunEnds
  PROVE  Kept
<1> DEFINE i == command.id
<1>0. command # Nil /\ Ours(i) /\ i \in Id
  BY DEF RunEnds, ConvInv, CommandSound
<1>1. /\ UNCHANGED <<window, called, raced>> /\ command' = Nil /\ recent' = recent
      /\ entry' = Freed(i, "run")
  BY DEF RunEnds, Over
<1>2. HeldOnly(entry', {i}) /\ entry'[i].holder = IF entry[i].holder = "run" THEN Nil ELSE entry[i].holder
  BY <1>0, <1>1, FreedIs DEF ConvInv, StoreSound, Holder
<1>3. StoreSound' /\ Stays /\ TitlesKept /\ NoneDeleted /\ OthersKept({i})
  BY <1>1, <1>2, HoldStore DEF ConvInv
<1>4. HeldKept("window")
  BY <1>2, <1>3 DEF HeldKept, OthersKept
<1>5. NamesMove
  BY <1>3 DEF NamesMove, TitlesKept
<1>6. \A j \in Id : BeingNamed(j)' => BeingNamed(j)
  BY <1>1 DEF BeingNamed, Step, window
<1>7. CommandSound' /\ NamesSound'
  BY <1>1, <1>3, <1>6, NamesStay DEF CommandSound, ConvInv
<1>. QED
  BY <1>0, <1>1, <1>3, <1>4, <1>5, <1>7, RunKeeps

\* No command breaks the invariant or a property of steps.
LEMMA CommandsKeep ==
  ASSUME ConversationsAssumption, ConvInv, CommandNext
  PROVE  Kept
<1>1. CASE \E title \in Naming \cup {Blank} : BeginNew(title)
  BY <1>1, BeginNewKeeps
<1>2. CASE RenameWrite \/ RunAdmitted \/ RunNames \/ RunEnds \/ \E yes \in BOOLEAN : DeleteAnswer(yes)
  BY <1>2, RenameWriteKeeps, RunAdmittedKeeps, RunNamesKeeps, RunEndsKeeps, DeleteAnswerKeeps
<1>3. CASE \E text \in Speech : RunLooks(text) \/ RunSays(text)
  BY <1>3, RunLooksKeeps, RunSaysKeeps
<1>. QED
  BY <1>1, <1>2, <1>3, BeginsKeep DEF CommandNext

-----------------------------------------------------------------------------
(* The window *)

\* A step of the window that writes no title.
LEMMA WindowStep ==
  ASSUME ConvInv, NEW S, OthersKept(S), \A j \in S : Ours(j) \/ j \notin Saved,
         StoreSound', Stays, TitlesKept, HeldKept("run"), UNCHANGED <<command, called, raced>>,
         WindowSound', PickerSound', name' = Nil, Shown, DeletesAsked
  PROVE  Kept
<1>1. \A j \in Id : BeingNamed(j)' => BeingNamed(j)
  BY DEF BeingNamed, Step
<1>2. CommandSound' /\ NamesSound' /\ OursOnly /\ NamesMove
  BY <1>1, CommandStays, NamesStay, OursChange DEF ConvInv, NamesMove, TitlesKept
<1>. QED
  BY <1>2 DEF Kept, ConvInv

\* The window is between the steps of a turn: no name is about to be written.
LEMMA NoName ==
  ASSUME WindowSound, at # "name"
  PROVE  name = Nil
  BY DEF WindowSound

\* The window changes no row and no conversation: its screens.
LEMMA ScreenKeeps ==
  ASSUME ConvInv, Screen, at # "name", at' \in {"idle", "picker", "confirm"}, PickerSound',
         at' = "confirm" => Ours(asked')
  PROVE  Kept
<1>1. UNCHANGED <<stored, current, holds, name, called, command, raced>>
  BY DEF Screen, Elsewhere
<1>2. StoreSound' /\ Stays /\ TitlesKept /\ NoneDeleted /\ OthersKept({}) /\ \A h : HeldKept(h)
  BY <1>1, KeepStore DEF ConvInv
<1>3. entry' = entry /\ name = Nil
  BY <1>1, NoName DEF stored, ConvInv
<1>4. WindowSound'
  BY <1>1, <1>3 DEF WindowSound, Ours, ConvInv
<1>. QED
  BY <1>1, <1>2, <1>3, <1>4, WindowStep DEF Shown, DeletesAsked, NoneDeleted

\* The window is opened.
LEMMA OpenOnKeeps ==
  ASSUME ConvInv, NEW i, i = Nil \/ i \in Mine, OpenOn(i)
  PROVE  Kept
<1>1. /\ at = "closed" /\ current' = i /\ recent' = recent /\ at' = "idle"
      /\ UNCHANGED <<picker, asked, name, called, command, raced>>
      /\ holds' = (i # Nil /\ CanHold(i, "window"))
      /\ entry' = IF holds' THEN Held(i, "window") ELSE entry
  BY DEF OpenOn, Shows, Elsewhere
<1>2. i # Nil => Ours(i) /\ i \in Id
  BY DEF Mine, Saved, Ours
<1> DEFINE S == IF holds' THEN {i} ELSE {}
<1>3. HeldOnly(entry', S) /\ (holds' => entry'[i].holder = "window" /\ entry[i].holder \in {Nil, "window"})
  <2>1. CASE holds'
    <3>1. i \in Saved /\ "window" \in Holder /\ entry' = Held(i, "window") /\ entry[i].holder \in {Nil, "window"}
      BY <1>1, <2>1 DEF CanHold, Holder
    <3>. QED
      BY <2>1, <3>1, HeldIs DEF ConvInv, StoreSound
  <2>2. CASE ~holds'
    BY <1>1, <2>2 DEF HeldOnly, ConvInv, StoreSound
  <2>. QED
    BY <2>1, <2>2
<1> HIDE DEF S
<1>4. StoreSound' /\ Stays /\ TitlesKept /\ NoneDeleted /\ OthersKept(S)
  BY <1>1, <1>3, HoldStore DEF ConvInv
<1>5. \A j \in S : Ours(j) /\ j = i /\ holds'
  BY <1>1, <1>2 DEF S
<1>6. HeldKept("run")
  BY <1>3, <1>4, <1>5, ConversationsAssumption DEF HeldKept, OthersKept
<1>7. name' = Nil
  BY <1>1, NoName DEF ConvInv
<1>8. WindowSound'
  <2>1. i # Nil => Ours(i)'
    BY <1>2, <1>4 DEF Ours, Stays
  <2>. QED
    BY <1>1, <1>2, <1>3, <1>7, <2>1 DEF WindowSound
<1>9. PickerSound'
  BY <1>1, <1>4, PickerStays DEF ConvInv
<1>. QED
  BY <1>1, <1>4, <1>5, <1>6, <1>7, <1>8, <1>9, WindowStep DEF Shown, DeletesAsked, NoneDeleted

\* The window is closed.
LEMMA CloseKeeps ==
  ASSUME ConvInv, CloseWindow
  PROVE  Kept
<1>1. /\ at' = "closed" /\ current' = Nil /\ holds' = FALSE /\ name' = Nil /\ entry' = Left
      /\ UNCHANGED <<recent, picker, called, command, raced>>
  BY DEF CloseWindow, Left, Elsewhere
<1> DEFINE S == IF holds THEN {current} ELSE {}
<1>2. HeldOnly(entry', S) /\ \A j \in Id : entry[j].holder # "window" => entry'[j].holder = entry[j].holder
  BY <1>1, LeftIs DEF ConvInv, StoreSound
<1>3. \A j \in S : Ours(j)
  BY DEF ConvInv, WindowSound
<1> HIDE DEF S
<1>4. StoreSound' /\ Stays /\ TitlesKept /\ NoneDeleted /\ OthersKept(S) /\ HeldKept("run")
  BY <1>1, <1>2, HoldStore DEF ConvInv, HeldKept
<1>5. WindowSound' /\ PickerSound'
  BY <1>1, <1>4, PickerStays DEF ConvInv, WindowSound
<1>. QED
  BY <1>1, <1>3, <1>4, <1>5, WindowStep DEF Shown, DeletesAsked, NoneDeleted

\* The window goes to another conversation, if it gets the lock.
LEMMA SwitchIs ==
  ASSUME ConvInv, NEW i \in Mine, Switch(i), recent' = recent
  PROVE  /\ \E S : OthersKept(S) /\ \A j \in S : Ours(j)
         /\ StoreSound' /\ Stays /\ TitlesKept /\ NoneDeleted /\ HeldKept("run")
         /\ current' \in Id \cup {Nil} /\ holds' \in BOOLEAN
         /\ holds' => current' # Nil /\ entry'[current'].holder = "window"
         /\ current' # Nil => Ours(current')
         /\ current' # current => current' = i /\ holds'
<1>0. i \in Id /\ i \in Saved /\ Ours(i)
  BY DEF Mine, Saved, Ours
<1>1. CASE CanHold(i, "window")
  <2>1. entry' = [Left EXCEPT ![i].holder = "window"] /\ current' = i /\ holds' = TRUE
    BY <1>1 DEF Switch
  <2> DEFINE S == IF holds THEN {current} ELSE {}
  <2>2. HeldOnly(Left, S) /\ \A j \in Id : entry[j].holder # "window" => Left[j].holder = entry[j].holder
    BY LeftIs DEF ConvInv, StoreSound
  <2>3. \A j \in S : Ours(j)
    BY DEF ConvInv, WindowSound
  <2> HIDE DEF S
  <2>4. HeldOnly(entry', S \cup {i}) /\ entry'[i].holder = "window" /\ \A j \in Id : j # i => entry'[j] = Left[j]
    BY <1>0, <2>1, <2>2 DEF HeldOnly, Rows, Row, Holder, Saved
  <2>5. StoreSound' /\ Stays /\ TitlesKept /\ NoneDeleted /\ OthersKept(S \cup {i})
    BY <2>4, HoldStore DEF ConvInv
  <2>6. HeldKept("run")
    BY <1>1, <2>2, <2>4, ConversationsAssumption DEF HeldKept, CanHold
  <2>. QED
    BY <1>0, <2>1, <2>3, <2>4, <2>5, <2>6, ConversationsAssumption
<1>2. CASE ~CanHold(i, "window")
  <2>1. UNCHANGED <<stored, current, holds>>
    BY <1>2 DEF Switch, stored
  <2>2. StoreSound' /\ Stays /\ TitlesKept /\ NoneDeleted /\ OthersKept({}) /\ HeldKept("run")
    BY <2>1, KeepStore DEF ConvInv
  <2>. QED
    BY <2>1, <2>2 DEF ConvInv, WindowSound, stored
<1>. QED
  BY <1>1, <1>2

\* /resume
LEMMA ResumeHereKeeps ==
  ASSUME ConvInv, NEW ref, ResumeHere(ref)
  PROVE  Kept
<1>1. PICK i \in Resolved(ref) : Switch(i)
  BY DEF ResumeHere
<1>2. at = "idle" /\ at' = "idle" /\ UNCHANGED <<picker, asked, name, recent, called, command, raced>>
  BY DEF ResumeHere, Shows, Elsewhere
<1>3. /\ StoreSound' /\ Stays /\ TitlesKept /\ NoneDeleted /\ HeldKept("run")
      /\ current' \in Id \cup {Nil} /\ holds' \in BOOLEAN
      /\ holds' => current' # Nil /\ entry'[current'].holder = "window"
      /\ current' # Nil => Ours(current')
  BY <1>1, <1>2, SwitchIs, ResolvedOurs
<1>4. PICK S : OthersKept(S) /\ \A j \in S : Ours(j)
  BY <1>1, <1>2, SwitchIs, ResolvedOurs
<1>5. name' = Nil
  BY <1>2, NoName DEF ConvInv
<1>6. WindowSound'
  <2>1. current' # Nil => Ours(current)'
    BY <1>3 DEF Ours, Stays
  <2>. QED
    BY <1>2, <1>3, <1>5, <2>1 DEF WindowSound
<1>7. PickerSound'
  BY <1>2, <1>3, PickerStays DEF ConvInv
<1>. QED
  BY <1>2, <1>3, <1>4, <1>5, <1>6, <1>7, WindowStep DEF Shown, DeletesAsked, NoneDeleted

\* A conversation is made for the window, that may leave another.
LEMMA MadeHere ==
  ASSUME ConvInv, NEW i \in Id, Unused(i), NEW e, e \in {entry, Left},
         entry' = [e EXCEPT ![i] = Fresh(Blank, "window")], recent' = Append(recent, i)
  PROVE  /\ \E S : OthersKept(S) /\ \A j \in S : Ours(j) \/ j \notin Saved
         /\ StoreSound' /\ Stays /\ TitlesKept /\ NoneDeleted /\ HeldKept("run")
         /\ Ours(i)' /\ entry'[i].holder = "window"
<1> DEFINE S == IF holds THEN {current} ELSE {}
<1>1. HeldOnly(Left, S) /\ \A j \in Id : entry[j].holder # "window" => Left[j].holder = entry[j].holder
  BY LeftIs DEF ConvInv, StoreSound
<1>2. \A j \in S : Ours(j)
  BY DEF ConvInv, WindowSound
<1> HIDE DEF S
<1>3. HeldOnly(e, S) /\ \A j \in Id : entry[j].holder # "window" => e[j].holder = entry[j].holder
  BY <1>1 DEF HeldOnly, ConvInv, StoreSound
<1>4. /\ entry[i].is = "none" /\ i \notin S /\ Blank \in Word /\ "window" \in Holder /\ i \notin Saved
      /\ entry[i].holder # "run"
  BY <1>2, ConversationsAssumption DEF Unused, Ours, Holder, Saved, ConvInv, StoreSound, Rows
<1>5. /\ StoreSound' /\ Stays /\ TitlesKept /\ NoneDeleted /\ OthersKept(S \cup {i})
      /\ \A j \in Id : j # i => entry'[j].holder = e[j].holder
      /\ entry'[i].holder = "window" /\ entry'[i].root = "here" /\ entry'[i].is = "saved"
  <2> DEFINE fresh == Fresh(Blank, "window")
  <2>1. fresh \in Row /\ fresh.is = "saved" /\ fresh.root = "here" /\ fresh.holder = "window"
    BY <1>4, FreshIs
  <2>2. entry' = [e EXCEPT ![i] = fresh]
    OBVIOUS
  <2> HIDE DEF fresh
  <2>3. Rows(entry') /\ entry'[i] = fresh /\ \A j \in Id : j # i => entry'[j] = e[j]
    BY <1>3, <2>1, <2>2 DEF HeldOnly, Rows
  <2>4. StoreSound' /\ Stays /\ TitlesKept /\ NoneDeleted
    <3>1. \A j \in Id : j # i => /\ entry'[j].is = entry[j].is /\ entry'[j].root = entry[j].root
                                 /\ entry'[j].title = entry[j].title
      BY <1>3, <2>3 DEF HeldOnly
    <3>2. StoreSound
      BY DEF ConvInv
    <3>. QED
      BY <1>4, <2>1, <2>3, <3>1, <3>2, MakeStore
  <2>5. OthersKept(S \cup {i})
    BY <1>3, <2>3 DEF OthersKept, HeldOnly
  <2>. QED
    BY <2>1, <2>3, <2>4, <2>5
<1>6. HeldKept("run")
  BY <1>3, <1>4, <1>5 DEF HeldKept
<1>7. Ours(i)'
  BY <1>5 DEF Ours
<1>. QED
  BY <1>2, <1>4, <1>5, <1>6, <1>7

\* /new
LEMMA NewHereKeeps ==
  ASSUME ConvInv, NewHere
  PROVE  Kept
<1>1. PICK i \in Id : /\ Unused(i) /\ current' = i /\ recent' = Append(recent, i)
                      /\ entry' = [Left EXCEPT ![i] = Fresh(Blank, "window")]
  BY DEF NewHere
<1>2. at = "idle" /\ at' = "idle" /\ holds' = TRUE /\ UNCHANGED <<picker, asked, name, called, command, raced>>
  BY DEF NewHere, Shows, Elsewhere
<1>3. /\ StoreSound' /\ Stays /\ TitlesKept /\ NoneDeleted /\ HeldKept("run")
      /\ Ours(i)' /\ entry'[i].holder = "window"
  BY <1>1, MadeHere
<1>4. PICK S : OthersKept(S) /\ \A j \in S : Ours(j) \/ j \notin Saved
  BY <1>1, MadeHere
<1>5. name' = Nil
  BY <1>2, NoName DEF ConvInv
<1>6. WindowSound'
  BY <1>1, <1>2, <1>3, <1>5, ConversationsAssumption DEF WindowSound, Ours
<1>7. PickerSound'
  BY <1>2, <1>3, PickerStays DEF ConvInv
<1>. QED
  BY <1>2, <1>3, <1>4, <1>5, <1>6, <1>7, WindowStep DEF Shown, DeletesAsked, NoneDeleted

\* A turn starts, on a conversation of its own or with the lock of the one that is there.
LEMMA TurnStartsKeeps ==
  ASSUME ConvInv, TurnStarts
  PROVE  Kept
<1>1. at = "idle" /\ at' = "auto" /\ holds' = TRUE /\ UNCHANGED <<picker, asked, name, called, command, raced>>
  BY DEF TurnStarts, Shows, Elsewhere
<1>2. /\ StoreSound' /\ Stays /\ TitlesKept /\ NoneDeleted /\ HeldKept("run")
      /\ Ours(current)' /\ entry'[current'].holder = "window"
      /\ \E S : OthersKept(S) /\ \A j \in S : Ours(j) \/ j \notin Saved
  <2>1. CASE current = Nil
    <3>1. PICK i \in Id : /\ Unused(i) /\ current' = i /\ recent' = Append(recent, i)
                          /\ entry' = [entry EXCEPT ![i] = Fresh(Blank, "window")]
      BY <2>1 DEF TurnStarts
    <3>2. /\ StoreSound' /\ Stays /\ TitlesKept /\ NoneDeleted /\ HeldKept("run")
          /\ Ours(i)' /\ entry'[i].holder = "window"
          /\ \E S : OthersKept(S) /\ \A j \in S : Ours(j) \/ j \notin Saved
      BY <3>1, MadeHere
    <3>. QED
      BY <3>1, <3>2 DEF Ours
  <2>2. CASE current # Nil
    <3>1. /\ CanHold(current, "window") /\ entry' = Held(current, "window") /\ recent' = recent
          /\ current' = current /\ Ours(current)
      BY <2>2 DEF TurnStarts, ConvInv, WindowSound
    <3>2. current \in Saved /\ "window" \in Holder /\ entry[current].holder # "run"
      BY <3>1, ConversationsAssumption DEF CanHold, Holder
    <3>3. HeldOnly(entry', {current}) /\ entry'[current].holder = "window"
      BY <3>1, <3>2, HeldIs DEF ConvInv, StoreSound
    <3>4. StoreSound' /\ Stays /\ TitlesKept /\ NoneDeleted /\ OthersKept({current})
      BY <3>1, <3>3, HoldStore DEF ConvInv
    <3>5. HeldKept("run") /\ Ours(current)'
      BY <3>1, <3>2, <3>4 DEF HeldKept, OthersKept, Ours, Stays
    <3>. QED
      BY <3>1, <3>3, <3>4, <3>5
  <2>. QED
    BY <2>1, <2>2
<1>3. PICK S : OthersKept(S) /\ \A j \in S : Ours(j) \/ j \notin Saved
  BY <1>2
<1>4. name' = Nil
  BY <1>1, NoName DEF ConvInv
<1>5. WindowSound'
  BY <1>1, <1>2, <1>4, ConversationsAssumption DEF WindowSound, Ours
<1>6. PickerSound'
  BY <1>1, <1>2, PickerStays DEF ConvInv
<1>. QED
  BY <1>1, <1>2, <1>3, <1>4, <1>5, <1>6, WindowStep DEF Shown, DeletesAsked, NoneDeleted

\* What the window of a turn is on.
LEMMA TurnIs ==
  ASSUME ConvInv, at \in {"auto", "name", "say"}
  PROVE  /\ holds /\ current \in Id /\ current \in Saved /\ Ours(current) /\ entry[current].holder = "window"
         /\ current # Nil
<1>1. holds /\ current # Nil /\ entry[current].holder = "window" /\ Ours(current) /\ current \in Id
  BY DEF ConvInv, WindowSound, Ours
<1>. QED
  BY <1>1, ConversationsAssumption DEF ConvInv, StoreSound, Rows, Saved

\* A turn looks whether its conversation has a name.
LEMMA TurnLooksKeeps ==
  ASSUME ConvInv, NEW text \in Speech, TurnLooks(text)
  PROVE  Kept
<1>0. current \in Id /\ current \in Saved /\ Ours(current) /\ holds
  BY TurnIs DEF TurnLooks
<1>1. /\ at = "auto" /\ name' = AutoName(current, text) /\ at' = (IF name' = Nil THEN "say" ELSE "name")
      /\ UNCHANGED <<stored, current, holds, picker, asked, called, command, raced>>
  BY DEF TurnLooks, Elsewhere
<1>2. name' \in Word \cup {Nil} /\ (name' # Nil => Unnamed(current))
  BY <1>0, <1>1, ConversationsAssumption DEF AutoName, ConvInv, StoreSound, Rows, Row
<1>3. StoreSound' /\ Stays /\ TitlesKept /\ NoneDeleted /\ OthersKept({}) /\ HeldKept("run")
  BY <1>1, KeepStore DEF ConvInv
<1>4. entry' = entry /\ recent' = recent
  BY <1>1 DEF stored
<1>5. WindowSound'
  BY <1>0, <1>1, <1>2, <1>4 DEF ConvInv, WindowSound, Ours
<1>6. CommandSound' /\ PickerSound' /\ OursOnly
  BY <1>1, <1>3, CommandStays, PickerStays, OursChange DEF ConvInv
<1>7. ASSUME NEW j \in Id, BeingNamed(j)'
      PROVE  called[j] = Nil \/ j \in raced
  <2>1. CASE BeingNamed(j)
    BY <2>1 DEF ConvInv, NamesSound
  <2>2. CASE ~BeingNamed(j)
    <3>1. name' # Nil /\ current = j
      BY <1>1, <1>7, <2>2 DEF BeingNamed, Step
    <3>. QED
      BY <1>0, <1>2, <3>1 DEF ConvInv, NamesSound, Unnamed
  <2>. QED
    BY <2>1, <2>2
<1>8. NamesSound'
  BY <1>1, <1>4, <1>7 DEF ConvInv, NamesSound, Saved
<1>. QED
  BY <1>1, <1>3, <1>4, <1>5, <1>6, <1>8 DEF Kept, ConvInv, Shown, DeletesAsked, NoneDeleted, NamesMove

\* A turn writes the name it chose.
LEMMA TurnNamesKeeps ==
  ASSUME ConvInv, TurnNames
  PROVE  Kept
<1>0. current \in Id /\ current \in Saved /\ Ours(current) /\ holds /\ name \in Word /\ name # Nil
  BY TurnIs, ConversationsAssumption DEF TurnNames, ConvInv, WindowSound
<1>1. /\ at = "name" /\ at' = "say" /\ name' = Nil /\ UNCHANGED <<current, holds, picker, asked, command>>
      /\ WriteName(current, name) /\ Titled(current, name) /\ recent' = recent
  BY DEF TurnNames, WriteName
<1>2. /\ StoreSound' /\ Stays /\ NoneDeleted /\ OthersKept({current}) /\ HeldKept("window") /\ HeldKept("run")
      /\ \A j \in Saved : entry'[j].count = entry[j].count
  BY <1>0, <1>1, TitleStore DEF ConvInv
<1>3. BeingNamed(current) /\ \A j \in Id : BeingNamed(j)' => BeingNamed(j)
  BY <1>0, <1>1 DEF BeingNamed, Step
<1>4. NamesSound'
  BY <1>0, <1>1, <1>3, WrittenNames DEF ConvInv
<1>5. WindowSound'
  BY <1>0, <1>1, <1>2 DEF ConvInv, WindowSound, Ours, Stays, HeldKept
<1>6. CommandSound' /\ PickerSound' /\ OursOnly
  BY <1>0, <1>1, <1>2, CommandStays, PickerStays, OursChange DEF ConvInv
<1>. QED
  BY <1>1, <1>2, <1>4, <1>5, <1>6 DEF Kept, ConvInv, Shown, DeletesAsked, NoneDeleted, NamesMove

\* A turn's prompt is said.
LEMMA TurnSaysKeeps ==
  ASSUME ConvInv, NEW text \in Speech, TurnSays(text)
  PROVE  Kept
<1>0. current \in Id /\ current \in Saved /\ Ours(current) /\ holds /\ text \in Word
  BY TurnIs, ConversationsAssumption DEF TurnSays
<1>1. /\ at = "say" /\ at' = "idle" /\ UNCHANGED <<current, holds, picker, asked, name, called, command, raced>>
      /\ Say(current, text)
  BY DEF TurnSays, Shows, Elsewhere
<1>2. /\ StoreSound' /\ Stays /\ TitlesKept /\ NoneDeleted /\ OthersKept({current})
      /\ HeldKept("window") /\ HeldKept("run")
  BY <1>0, <1>1, SayStore DEF ConvInv
<1>3. name' = Nil
  BY <1>1, NoName DEF ConvInv
<1>4. WindowSound' /\ PickerSound'
  BY <1>0, <1>1, <1>2, <1>3, PickerStays DEF ConvInv, WindowSound, Ours, Stays, HeldKept
<1>. QED
  BY <1>0, <1>1, <1>2, <1>3, <1>4, WindowStep DEF Shown, DeletesAsked, NoneDeleted

\* /rename
LEMMA RenameHereKeeps ==
  ASSUME ConvInv, NEW title \in Naming, RenameHere(title)
  PROVE  Kept
<1>1. /\ Rename(current, title) /\ UNCHANGED <<window, command>> /\ current \in Id /\ Ours(current)
      /\ title \in Word \ {Blank} /\ Titled(current, title) /\ recent' = recent
  BY ConversationsAssumption DEF RenameHere, Rename, ConvInv, WindowSound
<1>2. /\ StoreSound' /\ Stays /\ NoneDeleted /\ OthersKept({current}) /\ HeldKept("window") /\ HeldKept("run")
      /\ \A j \in Saved : entry'[j].count = entry[j].count
  BY <1>1, TitleStore DEF ConvInv
<1>3. UNCHANGED <<at, current, name, picker>>
  BY <1>1 DEF window
<1>4. \A j \in Id : BeingNamed(j)' => BeingNamed(j)
  BY <1>1, <1>3 DEF BeingNamed, Step
<1>5. CommandSound' /\ WindowSound' /\ PickerSound' /\ NamesSound' /\ OursOnly
  BY <1>1, <1>2, <1>3, <1>4, CommandStays, WindowStays, PickerStays, RenameNames, OursChange DEF ConvInv
<1>. QED
  BY <1>1, <1>2, <1>3, <1>5 DEF Kept, ConvInv, Shown, DeletesAsked, NoneDeleted, NamesMove

-----------------------------------------------------------------------------
(* The picker and the confirmation *)

\* What is left of the rows are rows, and there are some if one is hit.
LEMMA FilteredIs ==
  ASSUME NEW rows \in Seq(Option), NEW text
  PROVE  LET some == Those(rows, {o \in ToSet(rows) : Hit(o, text)}) IN
         /\ some \in Seq(Option) /\ ToSet(some) \subseteq ToSet(rows)
         /\ (\E n \in DOMAIN rows : Hit(rows[n], text)) => 1 \in DOMAIN some
<1> DEFINE S == {o \in ToSet(rows) : Hit(o, text)}
           some == Those(rows, S)
<1>1. some \in Seq(Option) /\ ToSet(some) = ToSet(rows) \cap S
  BY ThoseAre
<1>2. ASSUME NEW n \in DOMAIN rows, Hit(rows[n], text)
      PROVE  1 \in DOMAIN some
  <2>1. rows[n] \in ToSet(rows) \cap S
    BY <1>2 DEF ToSet
  <2> HIDE DEF some
  <2>2. \E m \in DOMAIN some : TRUE
    BY <1>1, <2>1 DEF ToSet
  <2>. QED
    BY <1>1, <2>2
<1>. QED
  BY <1>1, <1>2

\* The highlighted row is one of the list.
LEMMA HighlightedIs ==
  ASSUME PickerSound, index # 0
  PROVE  Highlighted \in Option /\ Ours(Highlighted.id) /\ Highlighted.id \in Id
<1>1. options \in Seq(Option) /\ index \in DOMAIN Filtered
  BY DEF PickerSound
<1>2. ToSet(Filtered) \subseteq ToSet(options)
  BY <1>1, FilteredIs DEF Filtered
<1>3. Highlighted \in ToSet(options)
  <2>1. Filtered[index] \in ToSet(Filtered)
    BY <1>1 DEF ToSet
  <2>. QED
    BY <1>2, <2>1 DEF Highlighted
<1>4. PICK n \in DOMAIN options : Highlighted = options[n]
  BY <1>3 DEF ToSet
<1>. QED
  BY <1>1, <1>4 DEF PickerSound, Ours

\* The picker goes away.
LEMMA PickerGoes ==
  ASSUME PickerGone
  PROVE  PickerSound'
  BY DEF PickerGone, PickerSound

\* The picker is shown.
LEMMA ShowPickerKeeps ==
  ASSUME ConvInv, ShowPicker
  PROVE  Kept
<1>1. /\ NonEmpty # <<>> /\ at = "idle" /\ at' = "picker" /\ Screen /\ query' = Blank /\ index' = 1
      /\ options' = [n \in DOMAIN NonEmpty |->
           LET i == NonEmpty[n] IN
           [id |-> i, title |-> entry[i].title, first |-> entry[i].first, current |-> i = current,
            locked |-> Live(i) /\ ~(holds /\ i = current)]]
  BY DEF ShowPicker
<1>2. NonEmpty \in Seq(Id) /\ ToSet(NonEmpty) \subseteq Mine
  BY ListsOurs DEF ConvInv
<1>3. \A n \in DOMAIN NonEmpty : NonEmpty[n] \in Id /\ Ours(NonEmpty[n])
  BY <1>2 DEF ToSet, Mine, Saved, Ours
<1>4. \A n \in DOMAIN NonEmpty : options'[n] \in Option /\ options'[n].id = NonEmpty[n]
  BY <1>1, <1>3 DEF Option, ConvInv, StoreSound, Rows, Row
<1>5. options' \in Seq(Option) /\ DOMAIN options' = DOMAIN NonEmpty
  BY <1>1, <1>2, <1>4
<1>6. entry' = entry
  BY <1>1 DEF Screen, stored
<1>7. (\A n \in DOMAIN options : Ours(options[n].id))'
  BY <1>3, <1>4, <1>5, <1>6 DEF Ours
<1>8. \E n \in DOMAIN options' : Hit(options'[n], query')
  <2>1. 1 \in DOMAIN options' /\ Hit(options'[1], query')
    BY <1>1, <1>2, <1>5 DEF Hit
  <2>. QED
    BY <2>1
<1>9. index' \in DOMAIN Filtered'
  <2>1. 1 \in DOMAIN Those(options', {o \in ToSet(options') : Hit(o, query')})
    BY <1>5, <1>8, FilteredIs
  <2>. QED
    BY <1>1, <2>1 DEF Filtered
<1>10. PickerSound'
  BY <1>5, <1>7, <1>9 DEF PickerSound
<1>. QED
  BY <1>1, <1>10, ScreenKeeps

\* The rows are filtered by what is typed.
LEMMA FilterKeeps ==
  ASSUME ConvInv, NEW text \in Query, Filter(text)
  PROVE  Kept
<1>1. /\ at = "picker" /\ at' = at /\ options' = options /\ query' = text /\ Screen
      /\ index' = IF \E n \in DOMAIN options : Hit(options[n], text) THEN 1 ELSE 0
  BY DEF Filter
<1>2. options \in Seq(Option) /\ \A n \in DOMAIN options : Ours(options[n].id)
  BY DEF ConvInv, PickerSound
<1>3. entry' = entry
  BY <1>1 DEF Screen, stored
<1>4. (\A n \in DOMAIN options : Ours(options[n].id))'
  BY <1>1, <1>2, <1>3 DEF Ours
<1>5. index' = 0 \/ index' \in DOMAIN Filtered'
  <2>1. (\E n \in DOMAIN options : Hit(options[n], text)) =>
          1 \in DOMAIN Those(options, {o \in ToSet(options) : Hit(o, text)})
    BY <1>2, FilteredIs
  <2>. QED
    BY <1>1, <2>1 DEF Filtered
<1>6. PickerSound'
  BY <1>1, <1>2, <1>4, <1>5 DEF PickerSound
<1>. QED
  BY <1>1, <1>6, ScreenKeeps

\* Another row is highlighted.
LEMMA MoveKeeps ==
  ASSUME ConvInv, Move
  PROVE  Kept
<1>1. /\ at = "picker" /\ at' = at /\ options' = options /\ query' = query /\ Screen
      /\ index' \in DOMAIN Filtered
  BY DEF Move
<1>2. entry' = entry /\ Filtered' = Filtered
  BY <1>1 DEF Screen, stored, Filtered
<1>3. PickerSound'
  BY <1>1, <1>2 DEF ConvInv, PickerSound, Ours
<1>. QED
  BY <1>1, <1>3, ScreenKeeps

\* The picker is left, or asks whether to delete, or /delete does.
LEMMA AsksKeep ==
  ASSUME ConvInv, EscapePicker \/ AskDeleteRow \/ \E ref \in Word : AskDelete(ref)
  PROVE  Kept
<1>1. CASE EscapePicker
  BY <1>1, PickerGoes, ScreenKeeps DEF EscapePicker
<1>2. CASE AskDeleteRow
  <2>1. at = "picker" /\ at' = "confirm" /\ asked' = Highlighted.id /\ index # 0 /\ UNCHANGED picker /\ Screen
    BY <1>2 DEF AskDeleteRow
  <2>2. Ours(asked') /\ Stays
    BY <2>1, HighlightedIs, KeepStore DEF ConvInv, Screen
  <2>. QED
    BY <2>1, <2>2, PickerStays, ScreenKeeps DEF ConvInv
<1>3. CASE \E ref \in Word : AskDelete(ref)
  <2>1. PICK ref \in Word : AskDelete(ref)
    BY <1>3
  <2>2. at = "idle" /\ at' = "confirm" /\ asked' \in Resolved(ref) /\ UNCHANGED picker /\ Screen
    BY <2>1 DEF AskDelete
  <2>3. Ours(asked') /\ Stays
    BY <2>2, ResolvedOurs, KeepStore DEF ConvInv, Screen
  <2>. QED
    BY <2>2, <2>3, PickerStays, ScreenKeeps DEF ConvInv
<1>. QED
  BY <1>1, <1>2, <1>3

\* The full id of a conversation leads to it, or, when it is gone, to one that has the id for a name.
LEMMA FullIdLeads ==
  ASSUME NEW shown \in Id, NEW i \in Resolved(FullId[shown])
  PROVE  i = shown \/ (shown \notin Saved /\ entry[i].title = FullId[shown])
<1>1. FullId[shown] # Blank /\ \A j \in Id : FullId[shown] \in Begins[j] => j = shown
  BY ConversationsAssumption
<1>2. \A j \in Id : FullId[j] = FullId[shown] => j = shown
  BY <1>1, ConversationsAssumption
<1>3. i \in Mine /\ i \in Id /\ i \in Saved
  BY ResolvedOurs DEF Saved
<1> DEFINE exact == {j \in Saved : FullId[j] = FullId[shown]}
<1>4. i \in IF exact # {} THEN exact ELSE Matches(FullId[shown])
  BY <1>1 DEF Resolved
<1>5. CASE exact # {}
  BY <1>2, <1>3, <1>4, <1>5
<1>6. CASE exact = {}
  <2>1. shown \notin Saved
    BY <1>6
  <2>. QED
    BY <1>1, <1>3, <1>4, <1>6, <2>1 DEF Matches
<1>. QED
  BY <1>5, <1>6

\* The row is chosen.
LEMMA ChooseKeeps ==
  ASSUME ConvInv, Choose
  PROVE  Kept
<1> DEFINE shown == Highlighted.id
<1>1. /\ at = "picker" /\ at' = "idle" /\ index # 0 /\ UNCHANGED <<recent, asked, name, called, command, raced>>
      /\ PickerSound'
  BY PickerGoes DEF Choose, Elsewhere
<1>2. shown \in Id /\ shown = Filtered[index].id
  BY <1>1, HighlightedIs DEF ConvInv, Highlighted
<1>3. /\ StoreSound' /\ Stays /\ TitlesKept /\ NoneDeleted /\ HeldKept("run")
      /\ current' \in Id \cup {Nil} /\ holds' \in BOOLEAN
      /\ holds' => current' # Nil /\ entry'[current'].holder = "window"
      /\ current' # Nil => Ours(current')
      /\ current' # current => current' \in Resolved(FullId[shown]) /\ holds'
      /\ \E S : OthersKept(S) /\ \A j \in S : Ours(j)
  <2>1. CASE \E i \in Resolved(FullId[shown]) : Switch(i)
    <3>1. PICK i \in Resolved(FullId[shown]) : Switch(i)
      BY <2>1
    <3>. QED
      BY <1>1, <3>1, SwitchIs, ResolvedOurs
  <2>2. CASE UNCHANGED <<entry, current, holds>>
    <3>1. StoreSound' /\ Stays /\ TitlesKept /\ NoneDeleted /\ HeldKept("run") /\ OthersKept({})
      BY <1>1, <2>2, KeepStore DEF ConvInv, stored
    <3>. QED
      BY <2>2, <3>1 DEF ConvInv, WindowSound
  <2>. QED
    BY <2>1, <2>2 DEF Choose
<1>4. PICK S : OthersKept(S) /\ \A j \in S : Ours(j)
  BY <1>3
<1>5. name' = Nil
  BY <1>1, NoName DEF ConvInv
<1>6. WindowSound'
  <2>1. current' # Nil => Ours(current)'
    BY <1>3 DEF Ours, Stays
  <2>. QED
    BY <1>1, <1>3, <1>5, <2>1 DEF WindowSound
<1>7. Shown
  <2>1. ASSUME current' # current
        PROVE  /\ current' = shown \/ (shown \notin Saved /\ entry[current'].title = FullId[shown])
               /\ current' \in Saved /\ holds'
    BY <1>2, <1>3, <2>1, FullIdLeads, ResolvedOurs
  <2>. QED
    BY <1>2, <2>1 DEF Shown
<1>. QED
  BY <1>1, <1>3, <1>4, <1>5, <1>6, <1>7, WindowStep DEF DeletesAsked, NoneDeleted

\* The confirmation is answered.
LEMMA AnswerKeeps ==
  ASSUME ConvInv, NEW yes \in BOOLEAN, Answer(yes)
  PROVE  Kept
<1>1. /\ at = "confirm" /\ at' \in {"idle", "picker"} /\ (PickerGone \/ UNCHANGED picker)
      /\ UNCHANGED <<current, holds, name, called, command, raced>> /\ Ours(asked)
      /\ IF yes THEN Delete(asked) ELSE UNCHANGED stored
  BY DEF Answer, Elsewhere, ConvInv, WindowSound
<1>2. /\ StoreSound' /\ Stays /\ TitlesKept /\ OthersKept({asked}) /\ HeldKept("window") /\ HeldKept("run")
      /\ \A j \in Saved : entry'[j].is = "deleted" => j = asked /\ ~Live(asked)
  <2>1. CASE yes
    BY <1>1, <2>1, DeleteStore DEF ConvInv
  <2>2. CASE ~yes
    BY <1>1, <2>2, KeepStore DEF ConvInv, OthersKept, NoneDeleted
  <2>. QED
    BY <2>1, <2>2
<1>3. DeletesAsked
  BY <1>1, <1>2 DEF DeletesAsked, Ours, Mine
<1>4. name' = Nil
  BY <1>1, NoName DEF ConvInv
<1>5. WindowSound'
  BY <1>1, <1>2, <1>4 DEF ConvInv, WindowSound, Ours, Stays, HeldKept
<1>6. PickerSound'
  BY <1>1, <1>2, PickerGoes, PickerStays DEF ConvInv
<1>. QED
  BY <1>1, <1>2, <1>3, <1>4, <1>5, <1>6, WindowStep DEF Shown

\* Nothing the window does breaks the invariant or a property of steps.
LEMMA WindowsKeep ==
  ASSUME ConversationsAssumption, ConvInv, WindowNext
  PROVE  Kept
<1>1. CASE OpenWindow
  <2>1. CASE OpenOn(Nil)
    BY <2>1, OpenOnKeeps
  <2>2. CASE OpenOn(LatestNonEmpty)
    BY <2>2, OpenOnKeeps, ListsOurs DEF ConvInv
  <2>3. CASE \E ref \in Word : \E i \in Resolved(ref) : OpenOn(i)
    BY <2>3, OpenOnKeeps, ResolvedOurs
  <2>. QED
    BY <1>1, <2>1, <2>2, <2>3 DEF OpenWindow
<1>2. CASE CloseWindow \/ NewHere \/ \E ref \in Word : ResumeHere(ref)
  BY <1>2, CloseKeeps, NewHereKeeps, ResumeHereKeeps
<1>3. CASE TurnStarts \/ TurnNames \/ (\E text \in Speech : TurnLooks(text) \/ TurnSays(text))
           \/ \E title \in Naming : RenameHere(title)
  BY <1>3, TurnStartsKeeps, TurnNamesKeeps, TurnLooksKeeps, TurnSaysKeeps, RenameHereKeeps
<1>4. CASE ShowPicker \/ Move \/ Choose \/ (\E text \in Query : Filter(text)) \/ \E yes \in BOOLEAN : Answer(yes)
  BY <1>4, ShowPickerKeeps, MoveKeeps, ChooseKeeps, FilterKeeps, AnswerKeeps
<1>5. CASE EscapePicker \/ AskDeleteRow \/ \E ref \in Word : AskDelete(ref)
  BY <1>5, AsksKeep
<1>. QED
  BY <1>1, <1>2, <1>3, <1>4, <1>5 DEF WindowNext

-----------------------------------------------------------------------------
(* The other window, and everything *)

\* The other window keeps to the conversations that it holds.
LEMMA OthersKeep ==
  ASSUME ConversationsAssumption, ConvInv, OtherNext
  PROVE  Kept
<1>1. UNCHANGED <<window, command, called, raced>>
  BY DEF OtherNext
<1>2. PICK i \in Id : OtherHolds(i) \/ OtherLeaves(i) \/ \E text \in Speech : OtherSays(i, text)
  BY DEF OtherNext
<1>3. Nil # "window" /\ Nil # "run" /\ Nil # "other" /\ "other" \in Holder /\ \A text \in Speech : text \in Word
  BY ConversationsAssumption DEF Holder
<1>4. /\ StoreSound' /\ Stays /\ TitlesKept /\ NoneDeleted /\ OthersKept({i}) /\ HeldKept("window") /\ HeldKept("run")
      /\ "other" \in {entry[i].holder, entry'[i].holder}
  <2>1. CASE OtherHolds(i)
    <3>1. i \in Saved /\ entry[i].holder = Nil /\ entry' = Held(i, "other") /\ recent' = recent
      BY <2>1 DEF OtherHolds, Live
    <3>2. HeldOnly(entry', {i}) /\ entry'[i].holder = "other"
      BY <1>3, <3>1, HeldIs DEF ConvInv, StoreSound
    <3>3. StoreSound' /\ Stays /\ TitlesKept /\ NoneDeleted /\ OthersKept({i})
      BY <3>1, <3>2, HoldStore DEF ConvInv
    <3>. QED
      BY <1>3, <3>1, <3>2, <3>3 DEF HeldKept, OthersKept
  <2>2. CASE OtherLeaves(i)
    <3>1. entry[i].holder = "other" /\ entry' = Freed(i, "other") /\ recent' = recent
      BY <2>2 DEF OtherLeaves
    <3>2. HeldOnly(entry', {i})
      BY <1>3, <3>1, FreedIs DEF ConvInv, StoreSound
    <3>3. StoreSound' /\ Stays /\ TitlesKept /\ NoneDeleted /\ OthersKept({i})
      BY <3>1, <3>2, HoldStore DEF ConvInv
    <3>. QED
      BY <3>1, <3>3 DEF HeldKept, OthersKept
  <2>3. CASE \E text \in Speech : OtherSays(i, text)
    <3>1. PICK text \in Speech : OtherSays(i, text)
      BY <2>3
    <3>2. entry[i].holder = "other" /\ Say(i, text) /\ text \in Word /\ i \in Saved
      BY <1>3, <3>1 DEF OtherSays, ConvInv, StoreSound, Rows, Saved
    <3>. QED
      BY <3>2, SayStore DEF ConvInv
  <2>. QED
    BY <1>2, <2>1, <2>2, <2>3
<1>5. UNCHANGED <<at, current, name, picker, command, called, raced>>
  BY <1>1 DEF window
<1>6. \A j \in Id : BeingNamed(j)' => BeingNamed(j)
  BY <1>5 DEF BeingNamed, Step
<1>7. CommandSound' /\ WindowSound' /\ PickerSound' /\ NamesSound'
  BY <1>1, <1>4, <1>5, <1>6, CommandStays, WindowStays, PickerStays, NamesStay DEF ConvInv
<1>8. OursOnly
  BY <1>4 DEF OthersKept, OursOnly, Saved
<1>. QED
  BY <1>4, <1>5, <1>7, <1>8 DEF Kept, ConvInv, Shown, DeletesAsked, NoneDeleted, TitlesKept, NamesMove

\* The invariant holds at first.
LEMMA ConvInit ==
  ASSUME ConversationsAssumption, ConversationsInit
  PROVE  ConvInv
<1>0. /\ 1 \in Id /\ 2 \in Id /\ 3 \in Id /\ Blank \in Word /\ Nil # "window"
      /\ \A text \in Speech : text \in Word
  BY ConversationsAssumption
<1>1. PICK text \in Speech : entry = [i \in Id |->
       CASE i = 1 -> [Blanked EXCEPT !.is = "saved", !.title = text, !.count = 1, !.first = text]
         [] i = 2 -> [Blanked EXCEPT !.is = "saved", !.count = 1, !.first = text]
         [] i = 3 -> [Blanked EXCEPT !.is = "saved", !.root = "there", !.title = text]
         [] OTHER -> Blanked]
  BY DEF ConversationsInit
<1>2. Blanked \in Row /\ Blanked.is = "none" /\ Blanked.holder = Nil
  BY <1>0 DEF Blanked, Row, Holder
<1>3. \A i \in Id : /\ entry[i] \in Row /\ entry[i].holder = Nil
                    /\ entry[i].is = IF i \in {1, 2, 3} THEN "saved" ELSE "none"
  BY <1>0, <1>1, <1>2 DEF Blanked, Row
<1>4. Rows(entry)
  BY <1>1, <1>3 DEF Rows
<1>5. Saved = {1, 2, 3}
  BY <1>0, <1>3 DEF Saved
<1>6. recent = <<1, 3, 2>>
  BY DEF ConversationsInit
<1>7. ListSound
  BY <1>0, <1>5, <1>6 DEF ListSound, ToSet, IsInjective
<1>8. /\ at = "closed" /\ current = Nil /\ holds = FALSE /\ options = <<>> /\ index = 0 /\ name = Nil /\ command = Nil
      /\ called = [i \in Id |-> Nil] /\ raced = {}
  BY DEF ConversationsInit
<1>9. CommandSound
  BY <1>8 DEF CommandSound
<1>10. WindowSound
  BY <1>8 DEF WindowSound
<1>11. PickerSound
  BY <1>8 DEF PickerSound
<1>12. NamesSound
  <2>1. called \in [Id -> (Word \ {Blank}) \cup {Nil}] /\ \A i \in Id : called[i] = Nil
    BY <1>8
  <2>2. raced \in SUBSET Id
    BY <1>8
  <2>3. \A i \in Saved : called[i] = Nil
    BY <2>1 DEF Saved
  <2>. QED
    BY <2>1, <2>2, <2>3 DEF NamesSound
<1>. QED
  BY <1>4, <1>7, <1>9, <1>10, <1>11, <1>12 DEF ConvInv, StoreSound

\* Every step keeps it.
LEMMA ConvNext ==
  ASSUME ConversationsAssumption, ConvInv, [ConversationsNext]_conversations
  PROVE  Kept
<1>1. CASE UNCHANGED conversations
  <2>1. UNCHANGED <<stored, window, command, called, raced>>
    BY <1>1 DEF conversations
  <2>2. StoreSound' /\ Stays /\ TitlesKept /\ NoneDeleted /\ OthersKept({}) /\ \A h : HeldKept(h)
    BY <2>1, KeepStore DEF ConvInv
  <2>3. UNCHANGED <<at, current, name, picker>>
    BY <2>1 DEF window
  <2>4. \A j \in Id : BeingNamed(j)' => BeingNamed(j)
    BY <2>1, <2>3 DEF BeingNamed, Step
  <2>5. CommandSound' /\ WindowSound' /\ PickerSound' /\ NamesSound' /\ OursOnly
    BY <2>1, <2>2, <2>3, <2>4, CommandStays, WindowStays, PickerStays, NamesStay, OursChange DEF ConvInv
  <2>. QED
    BY <2>2, <2>3, <2>5 DEF Kept, ConvInv, Shown, DeletesAsked, NoneDeleted, TitlesKept, NamesMove
<1>. QED
  BY <1>1, CommandsKeep, WindowsKeep, OthersKeep DEF ConversationsNext

\* The invariant holds in every state.
LEMMA ConversationsInvariant == ConversationsSpec => []ConvInv
<1>1. ConversationsInit => ConvInv
  BY ConversationsAssumption, ConvInit
<1>2. ConvInv /\ [ConversationsNext]_conversations => ConvInv'
  BY ConversationsAssumption, ConvNext DEF Kept
<1>. QED
  BY <1>1, <1>2, PTL DEF ConversationsSpec

\* A set of conversations has one element if its cardinality says so, and the other way round.
LEMMA SavedFinite ==
  ASSUME StoreSound, NEW S \in SUBSET Saved
  PROVE  Cardinality(S) = 1 <=> \E x : S = {x}
<1>1. recent \in Seq(Id) /\ ToSet(recent) = Saved /\ IsInjective(recent)
  BY DEF StoreSound, ListSound
<1>2. Len(recent) \in Nat /\ DOMAIN recent = 1..Len(recent)
  BY <1>1
<1>3. IsFiniteSet(1..Len(recent))
  BY <1>2, FS_Interval
<1>4. recent \in Surjection(1..Len(recent), Saved)
  BY <1>1, <1>2 DEF Surjection, ToSet
<1>5. IsFiniteSet(Saved)
  BY <1>3, <1>4, FS_Surjection
<1>6. IsFiniteSet(S)
  BY <1>5, FS_Subset
<1>. QED
  BY <1>6, FS_Singleton

\* The types follow from the invariant.
LEMMA ConversationsTyped ==
  ASSUME ConversationsAssumption, ConvInv
  PROVE  ConversationsTypeOK
<1>1. \A i \in Id : /\ entry[i].is \in {"none", "saved", "deleted"} /\ entry[i].root \in {"here", "there"}
                    /\ entry[i].title \in Word /\ entry[i].first \in Word \cup {Nil}
                    /\ entry[i].holder \in {Nil, "window", "run", "other"}
  BY DEF ConvInv, StoreSound, Rows, Row, Holder
<1>. QED
  BY <1>1 DEF ConversationsTypeOK, ConvInv, StoreSound, ListSound, WindowSound

\* A reference means what it should.
LEMMA ReferencesMean ==
  ASSUME ConversationsAssumption, ConvInv
  PROVE  ReferencesSound
<1> SUFFICES ASSUME NEW ref \in Word \ {Blank}
             PROVE  /\ \A i \in Resolved(ref) : i \in Mine /\ (FullId[i] = ref \/ Meant(ref) = {i})
                    /\ Cardinality(Meant(ref)) = 1 /\ Resolved(ref) = {} => \E i \in Saved \ Mine : FullId[i] = ref
  BY DEF ReferencesSound
<1> DEFINE exact == {i \in Saved : FullId[i] = ref}
<1>1. StoreSound /\ Matches(ref) = Meant(ref) /\ Meant(ref) \in SUBSET Saved /\ Meant(ref) \subseteq Mine /\ exact \in SUBSET Saved
  BY DEF ConvInv, Matches, Meant, Mine
<1>2. Cardinality(Meant(ref)) = 1 <=> \E x : Meant(ref) = {x}
  BY <1>1, SavedFinite
<1>3. Cardinality(exact) = 1 <=> \E x : exact = {x}
  BY <1>1, SavedFinite
<1>4. \A i, j \in exact : i = j
  <2>1. \A i, j \in Id : FullId[i] = FullId[j] => i = j
    BY ConversationsAssumption
  <2>. QED
    BY <2>1 DEF Saved
<1>5. Resolved(ref) = LET found == IF exact # {} THEN exact ELSE Meant(ref) IN
                      IF Cardinality(found) = 1 THEN found \cap Mine ELSE {}
  BY <1>1 DEF Resolved
<1> HIDE DEF exact
<1>6. CASE exact # {}
  <2>1. PICK e \in exact : exact = {e}
    BY <1>4, <1>6
  <2>2. Resolved(ref) = {e} \cap Mine /\ FullId[e] = ref /\ e \in Saved
    BY <1>3, <1>5, <1>6, <2>1 DEF exact
  <2>. QED
    BY <2>2
<1>7. CASE exact = {}
  BY <1>1, <1>2, <1>5, <1>7
<1>. QED
  BY <1>6, <1>7

-----------------------------------------------------------------------------
(* The theorems *)

\* However old what a user points at is by then, it is what is meant.
THEOREM PointedAtHolds == ConversationsSpec => PointedAt
<1>1. ConvInv => ConversationsTypeOK /\ ReferencesSound
  BY ConversationsAssumption, ConversationsTyped, ReferencesMean
<1>2. ConvInv /\ [ConversationsNext]_conversations =>
        [/\ at = "picker" /\ current' # current /\ at' # "closed" =>
              LET shown == Filtered[index].id IN
              /\ current' = shown \/ (shown \notin Saved /\ entry[current'].title = FullId[shown])
              /\ current' \in Saved /\ holds'
         /\ \A i \in Saved : entry'[i].is = "deleted" =>
              /\ i \in Mine /\ ~Live(i)
              /\ (at = "confirm" /\ i = asked) \/ (command # Nil /\ command.kind = "delete" /\ i = command.id)
         /\ \A i \in Saved \ Mine : entry'[i] # entry[i] =>
              "other" \in {entry[i].holder, entry'[i].holder}]_conversations
  BY ConversationsAssumption, ConvNext DEF Kept, Shown, DeletesAsked, OursOnly
<1>. QED
  BY <1>1, <1>2, ConversationsInvariant, PTL DEF ConversationsSpec, PointedAt, ActsOnShown

\* A name that a user gave stays, but for one given between two steps of a prompt's; and a name alone
\* moves nothing.
THEOREM NamesHold == ConversationsSpec => NamesStand
<1>1. ConvInv /\ [ConversationsNext]_conversations =>
        [\A i \in Saved : entry'[i].is = "saved" /\ entry'[i].title # entry[i].title =>
           /\ called'[i] # Nil => entry'[i].title = called'[i] \/ i \in raced'
           /\ entry'[i].count = entry[i].count /\ recent' = recent]_conversations
  <2> SUFFICES ASSUME ConvInv, [ConversationsNext]_conversations, NEW i \in Saved,
                      entry'[i].is = "saved", entry'[i].title # entry[i].title
               PROVE  /\ called'[i] # Nil => entry'[i].title = called'[i] \/ i \in raced'
                      /\ entry'[i].count = entry[i].count /\ recent' = recent
    OBVIOUS
  <2>1. ConvInv' /\ NamesMove
    BY ConversationsAssumption, ConvNext DEF Kept
  <2>2. i \in Saved'
    BY DEF Saved
  <2>. QED
    BY <2>1, <2>2 DEF ConvInv, NamesSound, NamesMove
<1>. QED
  BY <1>1, ConversationsInvariant, PTL DEF ConversationsSpec, NamesStand
=============================================================================
