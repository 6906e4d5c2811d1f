-------------------------- MODULE SessionLockProofs --------------------------
(***************************************************************************)
(* Proofs about SessionLock and about Transport, which share no state.     *)
(* Transport, for streams of any length, cut into chunks anywhere and      *)
(* ending anywhere: StreamInv is an invariant, and with it a turn that is  *)
(* handed on is the server's, whole (TurnSound).  SessionLock, for every   *)
(* number of sessions, runs, windows and hosts and every life of a lock:   *)
(* IndInv is an invariant, and with it the guard's promise (WriteOwned)    *)
(* and, when no process stalls for longer than a lock lives, mutual        *)
(* exclusion of turns (OneRunner).                                         *)
(***************************************************************************)
EXTENDS SessionLock, Transport, FiniteSetTheorems, FunctionTheorems, SequenceTheorems, WellFoundedInduction, TLAPS

-----------------------------------------------------------------------------
(* Streams *)

\* A set of naturals that is not empty has a first one.
LEMMA HasFirst ==
  ASSUME NEW S \in SUBSET Nat, S # {}
  PROVE  \E x \in S : \A y \in S : x <= y
<1>1. PICK x \in S : \A y \in S : ~(<<y, x>> \in OpToRel(<, Nat))
  BY NatLessThanWellFounded, WFMin
<1>2. ASSUME NEW y \in S
      PROVE  x <= y
  <2>1. y \in Nat /\ x \in Nat /\ ~(y < x)
    BY <1>1 DEF OpToRel
  <2>. QED
    BY <2>1
<1>. QED
  BY <1>2

\* The texts of a sequence of values, one after the other: flattened up to the n-th, they are
\* what they are up to the one before, and the n-th.
LEMMA Flattened ==
  ASSUME NEW q, Len(q) \in Nat, Len(q) # 0
  PROVE  \E f : /\ FlattenSeq(q) = f[Len(q)]
                /\ f[1] = q[1]
                /\ \A n \in 2..Len(q) : f[n] = f[n - 1] \o q[n]
<1> DEFINE Is(f, k) == f = [i \in 1..k |-> IF i = 1 THEN q[i] ELSE f[i - 1] \o q[i]]
           Bad == {k \in 1..Len(q) : ~\E f : Is(f, k)}
<1>1. \E f : Is(f, 1)
  <2>1. Is([i \in 1..1 |-> q[1]], 1)
    OBVIOUS
  <2>. QED
    BY <2>1
<1>2. ASSUME NEW k \in Nat, k # 0, NEW f, Is(f, k)
      PROVE  \E g : Is(g, k + 1)
  <2> DEFINE g == [i \in 1..k + 1 |-> IF i <= k THEN f[i] ELSE f[k] \o q[k + 1]]
  <2>1. \A i \in 1..k + 1 : g[i] = IF i = 1 THEN q[i] ELSE g[i - 1] \o q[i]
    <3>1. \A i \in 1..k : g[i] = f[i]
      OBVIOUS
    <3>2. \A i \in 1..k : f[i] = IF i = 1 THEN q[i] ELSE f[i - 1] \o q[i]
      BY <1>2
    <3>3. g[k + 1] = g[k] \o q[k + 1]
      <4>1. g[k] = f[k] /\ k + 1 \in 1..k + 1 /\ ~(k + 1 <= k)
        BY <1>2, <3>1
      <4>. QED
        BY <4>1
    <3> HIDE DEF g
    <3>4. ASSUME NEW i \in 1..k + 1
          PROVE  g[i] = IF i = 1 THEN q[i] ELSE g[i - 1] \o q[i]
      <4>1. CASE i = k + 1
        <5>1. i # 1 /\ i - 1 = k
          BY <1>2, <4>1
        <5>. QED
          BY <4>1, <5>1, <3>3
      <4>2. CASE i \in 1..k
        <5>1. i # 1 => g[i - 1] = f[i - 1]
          BY <4>2, <3>1
        <5>. QED
          BY <4>2, <5>1, <3>1, <3>2
      <4>. QED
        BY <4>1, <4>2
    <3>. QED
      BY <3>4
  <2>2. g = [i \in 1..k + 1 |-> g[i]]
    OBVIOUS
  <2> HIDE DEF g
  <2>3. Is(g, k + 1)
    BY <2>1, <2>2
  <2>. QED
    BY <2>3
<1>3. Bad = {}
  <2>1. ASSUME Bad # {}
        PROVE  FALSE
    <3>1. Bad \in SUBSET Nat
      <4> HIDE DEF Is
      <4>. QED
        OBVIOUS
    <3>2. PICK k \in Bad : \A y \in Bad : k <= y
      BY <2>1, <3>1, HasFirst
    <3>3. k # 1
      BY <1>1, <3>2
    <3>4. k \in 1..Len(q) /\ ~\E f : Is(f, k)
      BY <3>2
    <3>5. k - 1 \in 1..Len(q) /\ k - 1 \in Nat /\ k - 1 # 0 /\ (k - 1) + 1 = k /\ ~(k <= k - 1)
      BY <3>3, <3>4
    <3>6. k - 1 \notin Bad
      BY <3>2, <3>5
    <3> HIDE DEF Is
    <3>7. PICK f : Is(f, k - 1)
      BY <3>5, <3>6
    <3>8. \E g : Is(g, (k - 1) + 1)
      BY <3>5, <3>7, <1>2
    <3>. QED
      BY <3>8, <3>4, <3>5
  <2>. QED
    BY <2>1
<1>4. \E f : Is(f, Len(q))
  <2>1. Len(q) \in 1..Len(q)
    OBVIOUS
  <2>. QED
    BY <1>3, <2>1
<1> DEFINE f == CHOOSE f : Is(f, Len(q))
<1>5. Is(f, Len(q))
  BY <1>4
<1>6. FlattenSeq(q) = f[Len(q)]
  BY DEF FlattenSeq
<1>7. f[1] = q[1] /\ \A n \in 2..Len(q) : f[n] = f[n - 1] \o q[n]
  <2> HIDE DEF f
  <2>1. ASSUME NEW g, Is(g, Len(q)), NEW i \in 1..Len(q)
        PROVE  g[i] = IF i = 1 THEN q[i] ELSE g[i - 1] \o q[i]
    BY <2>1
  <2> HIDE DEF Is
  <2>2. f[1] = q[1]
    BY <2>1, <1>5
  <2>3. ASSUME NEW n \in 2..Len(q)
        PROVE  f[n] = f[n - 1] \o q[n]
    <3>1. n \in 1..Len(q) /\ n # 1
      OBVIOUS
    <3>. QED
      BY <3>1, <2>1, <1>5
  <2>. QED
    BY <2>2, <2>3
<1>. QED
  BY <1>6, <1>7

\* The cells of the first n of a sequence of lines
Written(ls, n) == FlattenSeq([i \in 1..n |-> Append(Cells(i, ls[i].size), Newline)])

LineEndsAt(ls, n) == Len(Written(ls, n))

Sized(ls) == Len(ls) \in Nat /\ \A i \in 1..Len(ls) : ls[i].size \in 1..2

CellOf(n) == {Newline} \cup [line : 1..n, part : 1..2]

\* A line is its parts and a newline.
LEMMA LineIs ==
  ASSUME NEW i \in Nat, NEW size \in 1..2
  PROVE  LET l == Append(Cells(i, size), Newline) IN
         /\ l \in Seq({Newline} \cup [line : {i}, part : 1..2]) /\ Len(l) = size + 1
         /\ l[size + 1] = Newline
         /\ \A k \in 1..size : l[k] = [line |-> i, part |-> k]
<1> DEFINE c == [k \in 1..size |-> [line |-> i, part |-> k]]
           T == {Newline} \cup [line : {i}, part : 1..2]
<1>1. c \in Seq(T) /\ Len(c) = size /\ \A k \in 1..size : c[k] = [line |-> i, part |-> k]
  <2>1. \A k \in 1..size : [line |-> i, part |-> k] \in T
    OBVIOUS
  <2>2. c \in [1..size -> T] /\ size \in Nat
    BY <2>1
  <2>. QED
    BY <2>2
<1>2. Newline \in T
  OBVIOUS
<1> HIDE DEF c, T
<1>3. /\ Append(c, Newline) \in Seq(T) /\ Len(Append(c, Newline)) = size + 1
      /\ Append(c, Newline)[size + 1] = Newline
      /\ \A k \in 1..size : Append(c, Newline)[k] = c[k]
  BY <1>1, <1>2
<1>4. Cells(i, size) = c
  BY DEF Cells, c
<1>. QED
  BY <1>1, <1>3, <1>4 DEF T

\* A line as it is written
Text(ls, i) == Append(Cells(i, ls[i].size), Newline)

Grows(f, ls, m) == f[1] = Text(ls, 1) /\ \A k \in 2..m : f[k] = f[k - 1] \o Text(ls, k)

\* What is written, line by line.
LEMMA WrittenBy ==
  ASSUME NEW ls, NEW m \in Nat, m # 0
  PROVE  \E f : Grows(f, ls, m) /\ Written(ls, m) = f[m]
<1> DEFINE q == [i \in 1..m |-> Text(ls, i)]
<1>1. Written(ls, m) = FlattenSeq(q)
  BY DEF Written, Text
<1>2. Len(q) = m
  OBVIOUS
<1>3. \A i \in 1..m : q[i] = Text(ls, i)
  OBVIOUS
<1> HIDE DEF q
<1>4. PICK f : /\ FlattenSeq(q) = f[Len(q)]
               /\ f[1] = q[1]
               /\ \A n \in 2..Len(q) : f[n] = f[n - 1] \o q[n]
  BY <1>2, Flattened
<1>5. 1 \in 1..m /\ \A k \in 2..m : k \in 1..m
  OBVIOUS
<1>6. f[1] = Text(ls, 1) /\ \A k \in 2..m : f[k] = f[k - 1] \o Text(ls, k)
  BY <1>2, <1>3, <1>4, <1>5
<1>7. Grows(f, ls, m) /\ Written(ls, m) = f[m]
  BY <1>1, <1>2, <1>4, <1>6 DEF Grows
<1>. QED
  BY <1>7

\* What is written of one line more: that line.
LEMMA WrittenNext ==
  ASSUME NEW ls, NEW n \in Nat
  PROVE  /\ Written(ls, 0) = <<>>
         /\ Written(ls, 1) = Text(ls, 1)
         /\ n # 0 => Written(ls, n + 1) = Written(ls, n) \o Text(ls, n + 1)
<1>3. Written(ls, 0) = <<>>
  <2> DEFINE q == [i \in 1..0 |-> Text(ls, i)]
  <2>1. Written(ls, 0) = FlattenSeq(q)
    BY DEF Written, Text
  <2>2. q = <<>> /\ Len(q) = 0
    OBVIOUS
  <2> HIDE DEF q
  <2>. QED
    BY <2>1, <2>2 DEF FlattenSeq
<1>4. Written(ls, 1) = Text(ls, 1)
  <2>1. PICK f : Grows(f, ls, 1) /\ Written(ls, 1) = f[1]
    BY WrittenBy
  <2>. QED
    BY <2>1 DEF Grows
<1>5. ASSUME n # 0
      PROVE  Written(ls, n + 1) = Written(ls, n) \o Text(ls, n + 1)
  <2>0. PICK f : Grows(f, ls, n) /\ Written(ls, n) = f[n]
    BY <1>5, WrittenBy
  <2>1. PICK g : Grows(g, ls, n + 1) /\ Written(ls, n + 1) = g[n + 1]
    <3>1. n + 1 \in Nat /\ n + 1 # 0
      OBVIOUS
    <3>. QED
      BY <3>1, WrittenBy
  <2>2. f[1] = Text(ls, 1) /\ \A k \in 2..n : f[k] = f[k - 1] \o Text(ls, k)
    BY <2>0 DEF Grows
  <2>3. g[1] = Text(ls, 1) /\ \A k \in 2..n + 1 : g[k] = g[k - 1] \o Text(ls, k)
    BY <2>1 DEF Grows
  <2>6. f[n] = g[n]
    <3> DEFINE Bad == {m \in 1..n : f[m] # g[m]}
    <3>1. ASSUME Bad # {}
          PROVE  FALSE
      <4>0. Bad \in SUBSET Nat
        OBVIOUS
      <4>1. PICK m \in Bad : \A y \in Bad : m <= y
        BY <3>1, <4>0, HasFirst
      <4>2. m \in 1..n /\ f[m] # g[m] /\ m # 1
        BY <2>2, <2>3, <4>1
      <4>3. m \in 2..n /\ m \in 2..n + 1 /\ m - 1 \in 1..n /\ ~(m <= m - 1)
        BY <4>2
      <4>4. f[m - 1] = g[m - 1]
        BY <4>1, <4>3
      <4>5. f[m] = f[m - 1] \o Text(ls, m) /\ g[m] = g[m - 1] \o Text(ls, m)
        BY <2>2, <2>3, <4>3
      <4>. QED
        BY <4>2, <4>4, <4>5
    <3>2. n \in 1..n
      BY <1>5
    <3>. QED
      BY <3>1, <3>2
  <2>7. g[n + 1] = g[n] \o Text(ls, n + 1)
    <3>1. n + 1 \in 2..n + 1 /\ (n + 1) - 1 = n
      BY <1>5
    <3>. QED
      BY <2>3, <3>1
  <2>. QED
    BY <2>0, <2>1, <2>6, <2>7
<1>. QED
  BY <1>3, <1>4, <1>5

\* A line more of what can be written
LEMMA WrittenStep ==
  ASSUME NEW ls, Sized(ls), NEW n \in 0..Len(ls) - 1, NEW N \in Nat, n < N,
         Written(ls, n) \in Seq(CellOf(N))
  PROVE  /\ Written(ls, n + 1) = Written(ls, n) \o Text(ls, n + 1)
         /\ Written(ls, n + 1) \in Seq(CellOf(N))
         /\ LineEndsAt(ls, n + 1) = LineEndsAt(ls, n) + ls[n + 1].size + 1
<1>1. n \in Nat /\ n + 1 \in 1..Len(ls) /\ n + 1 \in Nat /\ n + 1 \in 1..N
  BY DEF Sized
<1>2. ls[n + 1].size \in 1..2
  BY <1>1 DEF Sized
<1>3. /\ Text(ls, n + 1) \in Seq({Newline} \cup [line : {n + 1}, part : 1..2])
      /\ Len(Text(ls, n + 1)) = ls[n + 1].size + 1
  BY <1>1, <1>2, LineIs DEF Text
<1>4. Text(ls, n + 1) \in Seq(CellOf(N))
  <2>1. {Newline} \cup [line : {n + 1}, part : 1..2] \subseteq CellOf(N)
    BY <1>1 DEF CellOf
  <2> DEFINE S == {Newline} \cup [line : {n + 1}, part : 1..2]
  <2>2. \A s : s \in Seq(S) => s \in Seq(CellOf(N))
    <3> HIDE DEF S
    <3>. QED
      BY <2>1 DEF S
  <2>. QED
    BY <1>3, <2>2
<1>5. Written(ls, n + 1) = Written(ls, n) \o Text(ls, n + 1)
  <2>1. CASE n = 0
    <3>1. Written(ls, n + 1) = Text(ls, n + 1) /\ Written(ls, n) = <<>>
      BY <2>1, WrittenNext
    <3>2. <<>> \o Text(ls, n + 1) = Text(ls, n + 1)
      BY <1>4
    <3>. QED
      BY <3>1, <3>2
  <2>2. CASE n # 0
    BY <1>1, <2>2, WrittenNext
  <2>. QED
    BY <2>1, <2>2
<1>6. /\ Written(ls, n) \o Text(ls, n + 1) \in Seq(CellOf(N))
      /\ Len(Written(ls, n) \o Text(ls, n + 1)) = Len(Written(ls, n)) + Len(Text(ls, n + 1))
      /\ Len(Written(ls, n)) \in Nat
  BY <1>4
<1>7. Len(Written(ls, n + 1)) = Len(Written(ls, n)) + ls[n + 1].size + 1
  BY <1>2, <1>3, <1>5, <1>6
<1>8. Written(ls, n + 1) \in Seq(CellOf(N))
  BY <1>5, <1>6
<1>. QED
  BY <1>5, <1>7, <1>8 DEF LineEndsAt

\* What is written is cells of those lines.
LEMMA WrittenTyped ==
  ASSUME NEW ls, Sized(ls), NEW n \in 0..Len(ls)
  PROVE  Written(ls, n) \in Seq(CellOf(n)) /\ LineEndsAt(ls, n) \in Nat
<1> DEFINE Bad == {k \in 0..Len(ls) : ~(Written(ls, k) \in Seq(CellOf(k)))}
<1>1. ASSUME Bad # {}
      PROVE  FALSE
  <2>0. Bad \in SUBSET Nat
    BY DEF Sized
  <2>1. PICK m \in Bad : \A y \in Bad : m <= y
    BY <1>1, <2>0, HasFirst
  <2>2. m \in 0..Len(ls) /\ ~(Written(ls, m) \in Seq(CellOf(m))) /\ Len(ls) \in Nat
    BY <2>1 DEF Sized
  <2>3. m # 0
    <3>1. Written(ls, 0) = <<>>
      BY WrittenNext
    <3>2. \A S : <<>> \in Seq(S)
      OBVIOUS
    <3>. QED
      BY <2>2, <3>1, <3>2
  <2>4. m - 1 \in 0..Len(ls) /\ m - 1 \in 0..Len(ls) - 1 /\ (m - 1) + 1 = m /\ ~(m <= m - 1) /\ m \in Nat /\ m - 1 \in Nat /\ m - 1 < m
    BY <2>2, <2>3
  <2>5. Written(ls, m - 1) \in Seq(CellOf(m - 1))
    BY <2>1, <2>4
  <2>6. Written(ls, m - 1) \in Seq(CellOf(m))
    <3>1. CellOf(m - 1) \subseteq CellOf(m)
      BY <2>4 DEF CellOf
    <3>. QED
      BY <2>5, <3>1
  <2>. QED
    BY <2>2, <2>4, <2>6, WrittenStep
<1>2. Written(ls, n) \in Seq(CellOf(n))
  BY <1>1
<1>. QED
  BY <1>2 DEF LineEndsAt

\* Where the next line ends, and that what was written before stands.
LEMMA WrittenMore ==
  ASSUME NEW ls, Sized(ls), NEW n \in 0..Len(ls) - 1
  PROVE  /\ Written(ls, n + 1) = Written(ls, n) \o Text(ls, n + 1)
         /\ LineEndsAt(ls, n + 1) = LineEndsAt(ls, n) + ls[n + 1].size + 1
         /\ LineEndsAt(ls, n) \in Nat /\ LineEndsAt(ls, n + 1) \in Nat
         /\ \A j \in 1..LineEndsAt(ls, n) : Written(ls, n + 1)[j] = Written(ls, n)[j]
         /\ \A j \in 1..ls[n + 1].size + 1 :
              Written(ls, n + 1)[LineEndsAt(ls, n) + j] = Text(ls, n + 1)[j]
<1>1. n \in 0..Len(ls) /\ n + 1 \in 0..Len(ls) /\ n + 1 \in Nat /\ n < n + 1 /\ n \in Nat /\ n + 1 \in 1..Len(ls)
  BY DEF Sized
<1>2. Written(ls, n) \in Seq(CellOf(n + 1))
  <2>1. Written(ls, n) \in Seq(CellOf(n))
    BY <1>1, WrittenTyped
  <2>2. CellOf(n) \subseteq CellOf(n + 1)
    BY <1>1 DEF CellOf
  <2>. QED
    BY <2>1, <2>2
<1>3. /\ Written(ls, n + 1) = Written(ls, n) \o Text(ls, n + 1)
      /\ LineEndsAt(ls, n + 1) = LineEndsAt(ls, n) + ls[n + 1].size + 1
  BY <1>1, <1>2, WrittenStep
<1>4. Text(ls, n + 1) \in Seq({Newline} \cup [line : {n + 1}, part : 1..2]) /\ Len(Text(ls, n + 1)) = ls[n + 1].size + 1
  BY <1>1, LineIs DEF Text, Sized
<1>5. LineEndsAt(ls, n) \in Nat /\ LineEndsAt(ls, n + 1) \in Nat
  BY <1>1, WrittenTyped
<1> DEFINE a == Written(ls, n)
           b == Text(ls, n + 1)
<1>6. /\ \A j \in 1..Len(a) : (a \o b)[j] = a[j]
      /\ \A j \in 1..Len(b) : (a \o b)[Len(a) + j] = b[j]
  <2>1. /\ a \in Seq(CellOf(n + 1)) /\ b \in Seq({Newline} \cup [line : {n + 1}, part : 1..2])
    BY <1>2, <1>4
  <2> DEFINE A == CellOf(n + 1)
             B == {Newline} \cup [line : {n + 1}, part : 1..2]
  <2>2. a \in Seq(A \cup B) /\ b \in Seq(A \cup B)
    <3> HIDE DEF a, b, A, B
    <3>. QED
      BY <2>1 DEF A, B
  <2> HIDE DEF a, b, A, B
  <2>. QED
    BY <2>2
<1>. QED
  BY <1>3, <1>4, <1>5, <1>6 DEF LineEndsAt

\* What was written stands when lines follow.
LEMMA WrittenStands ==
  ASSUME NEW ls, Sized(ls), NEW m \in 0..Len(ls), NEW n \in 0..Len(ls), m <= n
  PROVE  /\ LineEndsAt(ls, m) <= LineEndsAt(ls, n)
         /\ \A j \in 1..LineEndsAt(ls, m) : Written(ls, n)[j] = Written(ls, m)[j]
<1> DEFINE Good(k) == /\ LineEndsAt(ls, m) <= LineEndsAt(ls, k)
                      /\ \A j \in 1..LineEndsAt(ls, m) : Written(ls, k)[j] = Written(ls, m)[j]
           Bad == {k \in m..Len(ls) : ~Good(k)}
<1>0. m \in Nat /\ Len(ls) \in Nat /\ LineEndsAt(ls, m) \in Nat
  BY WrittenTyped DEF Sized
<1>1. ASSUME Bad # {}
      PROVE  FALSE
  <2>0. Bad \in SUBSET Nat
    BY <1>0
  <2>1. PICK k \in Bad : \A y \in Bad : k <= y
    BY <1>1, <2>0, HasFirst
  <2>2. k \in m..Len(ls) /\ ~Good(k)
    BY <2>1
  <2>3. k # m
    BY <1>0, <2>2
  <2>4. k - 1 \in m..Len(ls) /\ k - 1 \in 0..Len(ls) - 1 /\ (k - 1) + 1 = k /\ ~(k <= k - 1)
    BY <1>0, <2>2, <2>3
  <2>5. Good(k - 1)
    BY <2>1, <2>4
  <2>6. /\ LineEndsAt(ls, k) = LineEndsAt(ls, k - 1) + ls[k].size + 1 /\ ls[k].size \in Nat
        /\ LineEndsAt(ls, k - 1) \in Nat
        /\ \A j \in 1..LineEndsAt(ls, k - 1) : Written(ls, k)[j] = Written(ls, k - 1)[j]
    <3>1. ls[k].size \in Nat
      BY <1>0, <2>2, <2>3 DEF Sized
    <3>. QED
      BY <2>4, <3>1, WrittenMore
  <2>7. Good(k)
    <3>1. LineEndsAt(ls, m) <= LineEndsAt(ls, k)
      BY <1>0, <2>5, <2>6
    <3>2. ASSUME NEW j \in 1..LineEndsAt(ls, m)
          PROVE  Written(ls, k)[j] = Written(ls, m)[j]
      <4>1. j \in 1..LineEndsAt(ls, k - 1)
        BY <1>0, <2>5, <2>6
      <4>. QED
        BY <2>5, <2>6, <4>1
    <3>. QED
      BY <3>1, <3>2
  <2>. QED
    BY <2>2, <2>7
<1>2. n \in m..Len(ls)
  BY <1>0
<1>3. Good(n)
  BY <1>1, <1>2
<1>. QED
  BY <1>3

\* Where a line is in what is written: its parts, and then a newline.
LEMMA LineAt ==
  ASSUME NEW ls, Sized(ls), NEW n \in 0..Len(ls) - 1
  PROVE  LET W == Written(ls, Len(ls))
             s == LineEndsAt(ls, n) IN
         /\ W \in Seq(CellOf(Len(ls))) /\ s \in Nat /\ ls[n + 1].size \in 1..2
         /\ LineEndsAt(ls, n + 1) = s + ls[n + 1].size + 1 /\ s + ls[n + 1].size + 1 <= Len(W)
         /\ \A k \in 1..ls[n + 1].size : W[s + k] = [line |-> n + 1, part |-> k]
         /\ W[s + ls[n + 1].size + 1] = Newline
<1> DEFINE W == Written(ls, Len(ls))
           s == LineEndsAt(ls, n)
           z == ls[n + 1].size
<1>1. /\ n + 1 \in 0..Len(ls) /\ Len(ls) \in 0..Len(ls) /\ n + 1 <= Len(ls) /\ n + 1 \in Nat /\ n \in 0..Len(ls)
      /\ z \in 1..2
  BY DEF Sized
<1>2. W \in Seq(CellOf(Len(ls))) /\ s \in Nat
  BY <1>1, WrittenTyped
<1>3. /\ LineEndsAt(ls, n + 1) = s + z + 1
      /\ \A j \in 1..z + 1 : Written(ls, n + 1)[s + j] = Text(ls, n + 1)[j]
  BY WrittenMore
<1>4. /\ LineEndsAt(ls, n + 1) <= LineEndsAt(ls, Len(ls))
      /\ \A j \in 1..LineEndsAt(ls, n + 1) : W[j] = Written(ls, n + 1)[j]
  BY <1>1, WrittenStands
<1>5. Text(ls, n + 1)[z + 1] = Newline /\ \A k \in 1..z : Text(ls, n + 1)[k] = [line |-> n + 1, part |-> k]
  BY <1>1, LineIs DEF Text
<1>6. LineEndsAt(ls, Len(ls)) = Len(W)
  BY DEF LineEndsAt
<1> HIDE DEF W, s, z
<1>7. ASSUME NEW k \in 1..z + 1
      PROVE  W[s + k] = Text(ls, n + 1)[k]
  <2>1. s + k \in 1..s + z + 1
    BY <1>1, <1>2
  <2>. QED
    BY <1>3, <1>4, <2>1
<1>8. W[s + (z + 1)] = Newline /\ \A k \in 1..z : W[s + k] = [line |-> n + 1, part |-> k]
  BY <1>1, <1>5, <1>7
<1>9. s + (z + 1) = s + z + 1
  BY <1>1, <1>2
<1>. QED
  BY <1>1, <1>2, <1>3, <1>4, <1>6, <1>8, <1>9 DEF W, s, z

\* A line added to the end changes nothing of what is written before it.
LEMMA WrittenAppend ==
  ASSUME NEW T, NEW ls \in Seq(T), NEW l \in T, NEW n \in 0..Len(ls)
  PROVE  Written(Append(ls, l), n) = Written(ls, n)
<1>1. \A i \in 1..n : Append(ls, l)[i] = ls[i]
  OBVIOUS
<1>2. [i \in 1..n |-> Append(Cells(i, Append(ls, l)[i].size), Newline)] = [i \in 1..n |-> Append(Cells(i, ls[i].size), Newline)]
  BY <1>1
<1>. QED
  BY <1>2 DEF Written

\* A set of numbers counts up its members, one by one.
LEMMA Counting ==
  ASSUME NEW S \in SUBSET Nat, IsFiniteSet(S)
  PROVE  /\ \A i \in S : Cardinality({j \in S : j <= i}) \in 1..Cardinality(S)
         /\ \A i, k \in S : Cardinality({j \in S : j <= i}) = Cardinality({j \in S : j <= k}) => i = k
         /\ \A k \in 1..Cardinality(S) : \E i \in S : Cardinality({j \in S : j <= i}) = k
<1>. DEFINE upto(i) == {j \in S : j <= i}
            rank == [i \in S |-> Cardinality(upto(i))]
            n == Cardinality(S)
<1>0. n \in Nat
  BY FS_CardinalityType
<1>1. \A i : upto(i) \in SUBSET S /\ IsFiniteSet(upto(i)) /\ Cardinality(upto(i)) \in Nat /\ Cardinality(upto(i)) <= n
  <2>1. \A i : upto(i) \in SUBSET S
    OBVIOUS
  <2>. HIDE DEF upto
  <2>. QED
    BY <2>1, FS_Subset, FS_CardinalityType
<1>2. \A i \in S : i \in upto(i)
  OBVIOUS
<1>3. \A i \in S : Cardinality(upto(i)) # 0
  <2>. HIDE DEF upto
  <2>. QED
    BY <1>1, <1>2, FS_EmptySet
<1>4. ASSUME NEW i \in S, NEW k \in S, i < k
      PROVE  Cardinality(upto(i)) # Cardinality(upto(k))
  <2>0. i \in Nat /\ k \in Nat /\ \A j \in S : j \in Nat
    OBVIOUS
  <2>1. upto(i) \in SUBSET upto(k)
    <3>1. \A j \in Nat : j <= i => j <= k
      BY <1>4, <2>0
    <3>. QED
      BY <2>0, <3>1
  <2>2. k \in upto(k) /\ k \notin upto(i)
    BY <1>4, <2>0
  <2>. HIDE DEF upto
  <2>. QED
    BY <1>1, <2>1, <2>2, FS_Subset
<1>5. \A i, k \in S : Cardinality(upto(i)) = Cardinality(upto(k)) => i = k
  <2>1. \A i, k \in S : i < k \/ k < i \/ i = k
    OBVIOUS
  <2>. HIDE DEF upto
  <2>. QED
    BY <1>4, <2>1
<1>6. \A i \in S : Cardinality(upto(i)) \in 1..n
  <2>. HIDE DEF upto, n
  <2>. QED
    BY <1>0, <1>1, <1>3
<1>7. rank \in Injection(S, 1..n)
  <2>1. rank \in [S -> 1..n]
    BY <1>6
  <2>2. \A a, b \in S : rank[a] = rank[b] => a = b
    BY <1>5
  <2>. HIDE DEF rank
  <2>. QED
    BY <2>1, <2>2, Fun_IsInj
<1>8. IsFiniteSet(1..n) /\ Cardinality(1..n) = n
  <2>. HIDE DEF n
  <2>. QED
    BY <1>0, FS_Interval
<1>9. rank \in Surjection(S, 1..n)
  <2>. HIDE DEF rank
  <2>. QED
    BY <1>7, <1>8, FS_Injection
<1>10. \A k \in 1..n : \E i \in S : rank[i] = k
  <2>. HIDE DEF rank
  <2>. QED
    BY <1>9, Fun_SurjectionProperties
<1>. QED
  BY <1>5, <1>6, <1>10

\* The keys of calls, in order, are the keys of calls.
LEMMA KeysInOrder ==
  ASSUME NEW calls, DOMAIN calls \in SUBSET Nat, IsFiniteSet(DOMAIN calls)
  PROVE  /\ \A n \in DOMAIN InOrder(calls) : InOrder(calls)[n] \in DOMAIN calls
         /\ DOMAIN InOrder(calls) = 1..Cardinality(DOMAIN calls)
         /\ Cardinality(DOMAIN calls) \in Nat
<1> DEFINE S == DOMAIN calls
           P(k, n) == Cardinality({j \in S : j <= k}) = n
           keys == [n \in 1..Cardinality(S) |-> CHOOSE k \in S : P(k, n)]
<1>1. InOrder(calls) = keys
  BY DEF InOrder
<1>2. \A n \in 1..Cardinality(S) : \E k \in S : P(k, n)
  <2> HIDE DEF S
  <2>. QED
    BY Counting DEF S
<1>3. Cardinality(S) \in Nat
  BY FS_CardinalityType
<1> HIDE DEF P, S
<1>4. \A n \in 1..Cardinality(S) : keys[n] \in S
  BY <1>2
<1>5. DOMAIN keys = 1..Cardinality(S)
  OBVIOUS
<1> HIDE DEF keys
<1>. QED
  BY <1>1, <1>3, <1>4, <1>5 DEF S

-----------------------------------------------------------------------------
(* Ids *)

Known0(ids, k) == IF ids[k] = None THEN <<"new", k>> ELSE ids[k]

IdText == {"a", "new"} \cup Nat

\* The ids as they are made unique one by one
Uniques(f, ids, N) ==
  f[0] = <<>> /\ \A k \in 1..N : f[k] = Append(f[k - 1], Unused(Known0(ids, k), ToSet(f[k - 1])))

\* The ids are made unique one by one.
LEMMA UniqueBy ==
  ASSUME NEW ids, Len(ids) \in Nat
  PROVE  \E f : Uniques(f, ids, Len(ids)) /\ UniqueIds(ids) = f[Len(ids)]
<1> DEFINE E(prev, k) == Append(prev, Unused(Known0(ids, k), ToSet(prev)))
           N == Len(ids)
           Is(f, n) == f = [k \in 0..n |-> IF k = 0 THEN <<>> ELSE E(f[k - 1], k)]
           Bad == {n \in 0..N : ~\E f : Is(f, n)}
<1>1. Is([k \in 0..0 |-> <<>>], 0)
  OBVIOUS
<1>2. ASSUME NEW n \in Nat, NEW f, Is(f, n)
      PROVE  \E g : Is(g, n + 1)
  <2> HIDE DEF E
  <2> DEFINE g == [k \in 0..n + 1 |-> IF k = n + 1 THEN E(f[n], n + 1) ELSE f[k]]
             r == [k \in 0..n + 1 |-> IF k = 0 THEN <<>> ELSE E(g[k - 1], k)]
  <2>1. \A k \in 0..n : f[k] = IF k = 0 THEN <<>> ELSE E(f[k - 1], k)
    BY <1>2
  <2>2. \A k \in 0..n : g[k] = f[k]
    OBVIOUS
  <2>3. g[n + 1] = E(f[n], n + 1)
    OBVIOUS
  <2>4. \A k \in 0..n + 1 : r[k] = IF k = 0 THEN <<>> ELSE E(g[k - 1], k)
    OBVIOUS
  <2>5. DOMAIN g = 0..n + 1 /\ DOMAIN r = 0..n + 1 /\ g = [k \in 0..n + 1 |-> g[k]] /\ r = [k \in 0..n + 1 |-> r[k]]
    OBVIOUS
  <2>6. Is(g, n + 1) <=> g = r
    OBVIOUS
  <2> HIDE DEF g, r, Is
  <2>7. ASSUME NEW k \in 0..n + 1
        PROVE  g[k] = r[k]
    <3>1. CASE k = 0
      BY <2>1, <2>2, <2>4, <3>1
    <3>2. CASE k = n + 1
      <4>1. k - 1 = n /\ n \in 0..n /\ k # 0
        BY <3>2
      <4>. QED
        BY <2>2, <2>3, <2>4, <3>2, <4>1
    <3>3. CASE k \in 1..n
      <4>1. k - 1 \in 0..n /\ k \in 0..n /\ k # 0
        BY <3>3
      <4>2. r[k] = E(g[k - 1], k)
        BY <2>4, <4>1
      <4>3. f[k] = E(f[k - 1], k)
        BY <2>1, <4>1
      <4>. QED
        BY <2>2, <4>1, <4>2, <4>3
    <3>. QED
      BY <3>1, <3>2, <3>3
  <2>8. g = r
    BY <2>5, <2>7
  <2>. QED
    BY <2>6, <2>8
<1>3. Bad = {}
  <2> SUFFICES ASSUME Bad # {} PROVE FALSE
    OBVIOUS
  <2> HIDE DEF Is
  <2>1. Bad \in SUBSET Nat
    OBVIOUS
  <2>2. PICK b \in Bad : \A y \in Bad : b <= y
    BY <2>1, HasFirst
  <2>3. b \in 0..N /\ ~(\E f : Is(f, b))
    OBVIOUS
  <2>4. b # 0
    BY <1>1, <2>3
  <2>5. b - 1 \in Nat /\ b - 1 \in 0..N /\ (b - 1) + 1 = b /\ ~(b <= b - 1)
    BY <2>3, <2>4
  <2>6. PICK f : Is(f, b - 1)
    BY <2>2, <2>5
  <2>7. \E g : Is(g, (b - 1) + 1)
    BY <1>2, <2>5, <2>6
  <2>. QED
    BY <2>3, <2>5, <2>7
<1>4. \E f : Is(f, N)
  <2>1. N \in 0..N
    OBVIOUS
  <2> HIDE DEF Is
  <2>. QED
    BY <1>3, <2>1
<1> DEFINE f == CHOOSE f : Is(f, N)
<1>5. Is(f, N)
  BY <1>4
<1>6. UniqueIds(ids) = f[N]
  BY DEF UniqueIds, Known0
<1>7. Uniques(f, ids, N)
  <2> HIDE DEF E
  <2>1. \A k \in 0..N : f[k] = IF k = 0 THEN <<>> ELSE E(f[k - 1], k)
    BY <1>5
  <2> HIDE DEF f, Is
  <2>2. f[0] = <<>>
    <3>1. 0 \in 0..N
      OBVIOUS
    <3>. QED
      BY <2>1, <3>1
  <2>3. \A k \in 1..N : k \in 0..N /\ k # 0
    OBVIOUS
  <2>4. \A k \in 1..N : f[k] = E(f[k - 1], k)
    BY <2>1, <2>3
  <2>. QED
    BY <2>2, <2>4 DEF Uniques, E
<1>. QED
  BY <1>6, <1>7

\* The numbers up to n are n numbers.
LEMMA UpTo ==
  ASSUME NEW n \in Nat
  PROVE  IsFiniteSet(1..n) /\ Cardinality(1..n) = n
BY FS_Interval

\* An id that is taken is given a number that makes it one that is not, as long as there are fewer
\* ids than numbers.
LEMMA UnusedIs ==
  ASSUME TransportAssumption, NEW id \in Seq(IdText), NEW s \in Seq(Seq(IdText)), Len(s) < MaxCalls + AtOnce
  PROVE  /\ Unused(id, ToSet(s)) \in Seq(IdText)
         /\ Unused(id, ToSet(s)) \notin ToSet(s)
         /\ id \notin ToSet(s) => Unused(id, ToSet(s)) = id
<1> DEFINE M == MaxCalls + AtOnce
           T == ToSet(s)
           Free == {n \in Calls : Append(id, n) \notin T}
<1>1. M \in Nat /\ Calls = 1..M /\ Len(s) \in Nat /\ DOMAIN s = 1..Len(s)
  BY DEF TransportAssumption, Calls
<1>2. \A n, m \in Nat : Append(id, n) = Append(id, m) => n = m
  <2>1. \A n \in Nat : Append(id, n)[Len(id) + 1] = n
    OBVIOUS
  <2>. QED
    BY <2>1
<1>3. \A n \in Nat : Append(id, n) \in Seq(IdText)
  BY DEF IdText
<1>4. Free # {}
  <2> SUFFICES ASSUME Free = {} PROVE FALSE
    OBVIOUS
  <2>1. \A n \in 1..M : \E i \in 1..Len(s) : s[i] = Append(id, n)
    BY <1>1 DEF ToSet
  <2> DEFINE g == [n \in 1..M |-> CHOOSE i \in 1..Len(s) : s[i] = Append(id, n)]
  <2>2. \A n \in 1..M : g[n] \in 1..Len(s) /\ s[g[n]] = Append(id, n)
    BY <2>1
  <2>3. g \in [1..M -> 1..Len(s)]
    BY <2>2
  <2>4. /\ IsFiniteSet(1..M) /\ Cardinality(1..M) = M
        /\ IsFiniteSet(1..Len(s)) /\ Cardinality(1..Len(s)) = Len(s)
    BY <1>1, UpTo
  <2> HIDE DEF g, M, T
  <2>5. Len(s) < M
    BY DEF M
  <2>6. PICK x \in 1..M, y \in 1..M : x # y /\ g[x] = g[y]
    <3> DEFINE A == 1..M
               B == 1..Len(s)
    <3>0. IsFiniteSet(A) /\ IsFiniteSet(B) /\ Cardinality(B) < Cardinality(A) /\ g \in [A -> B]
      BY <2>3, <2>4, <2>5
    <3>1. \E x, y \in A : x # y /\ g[x] = g[y]
      <4> HIDE DEF A, B
      <4>1. ASSUME \A x, y \in A : g[x] = g[y] => x = y
            PROVE  FALSE
        <5>1. g \in Injection(A, B)
          BY <3>0, <4>1, Fun_IsInj
        <5>2. Cardinality(A) <= Cardinality(B)
          BY <3>0, <5>1, FS_Injection
        <5>3. Cardinality(A) \in Nat /\ Cardinality(B) \in Nat
          BY <3>0, FS_CardinalityType
        <5>. QED
          BY <3>0, <5>2, <5>3
      <4>. QED
        BY <4>1
    <3>. QED
      BY <3>1
  <2>7. Append(id, x) = Append(id, y) /\ x \in Nat /\ y \in Nat
    <3>1. s[g[x]] = Append(id, x) /\ s[g[y]] = Append(id, y)
      BY <2>2
    <3>2. x \in Nat /\ y \in Nat
      OBVIOUS
    <3>. QED
      BY <2>6, <3>1, <3>2
  <2>. QED
    BY <1>2, <2>6, <2>7
<1>5. PICK n \in Free : \A m \in Free : n <= m
  <2>1. Free \in SUBSET Nat
    BY <1>1
  <2>. QED
    BY <1>4, <2>1, HasFirst
<1>6. n \in Calls /\ Append(id, n) \notin T /\ \A m \in 1..n - 1 : Append(id, m) \in T
  <2>1. \A m \in 1..n - 1 : m \in Calls /\ ~(n <= m)
    BY <1>1
  <2>. QED
    BY <1>5, <2>1
<1> DEFINE c == CHOOSE n_1 \in Calls : Append(id, n_1) \notin T /\ \A m \in 1..n_1 - 1 : Append(id, m) \in T
<1>7. c \in Calls /\ Append(id, c) \notin T
  BY <1>6
<1>8. Unused(id, T) = IF id \notin T THEN id ELSE Append(id, c)
  BY DEF Unused
<1>9. c \in Nat
  BY <1>1, <1>7
<1> HIDE DEF c, T, Free, M
<1>. QED
  BY <1>3, <1>7, <1>8, <1>9 DEF T

\* ensure_unique_call_ids: the ids differ, and if those that were given differ, they are kept.
LEMMA UniqueIdsAre ==
  ASSUME TransportAssumption, NEW ids \in Seq(Ids \cup {None}), Len(ids) <= MaxCalls + AtOnce
  PROVE  LET u == UniqueIds(ids) IN
         /\ u \in Seq(Seq(IdText)) /\ Len(u) = Len(ids)
         /\ \A m, n \in 1..Len(ids) : u[m] = u[n] => m = n
         /\ IsInjective(ids) => \A n \in 1..Len(ids) : ids[n] \in {None, u[n]}
<1> DEFINE N == Len(ids)
           Good(v, k) ==
             /\ v \in Seq(Seq(IdText)) /\ Len(v) = k
             /\ \A m, n \in 1..k : v[m] = v[n] => m = n
             /\ IsInjective(ids) => \A n \in 1..k : v[n] = Known0(ids, n)
<1>0. N \in Nat /\ DOMAIN ids = 1..N /\ \A k \in 1..N : ids[k] \in Ids \cup {None}
  OBVIOUS
<1>1. PICK f : Uniques(f, ids, N) /\ UniqueIds(ids) = f[N]
  BY <1>0, UniqueBy
<1>2. \A k \in 1..N : Known0(ids, k) \in Seq(IdText)
  <2>0. \A S : \A a, b \in S : <<a>> \in Seq(S) /\ <<a, b>> \in Seq(S)
    OBVIOUS
  <2>1. ASSUME NEW k \in 1..N
        PROVE  <<"new", k>> \in Seq(IdText)
    <3>0. k \in Nat
      OBVIOUS
    <3>1. "new" \in IdText /\ k \in IdText
      BY <3>0, Zenon DEF IdText
    <3>. QED
      BY <2>0, <3>1
  <2>2. \A i \in Ids : i \in Seq(IdText)
    <3>0. 1 \in Nat
      OBVIOUS
    <3>1. "a" \in IdText /\ 1 \in IdText
      BY <3>0, Zenon DEF IdText
    <3>2. <<"a">> \in Seq(IdText) /\ <<"a", 1>> \in Seq(IdText)
      BY <2>0, <3>1
    <3>. QED
      BY <3>2 DEF Ids
  <2>. QED
    BY <1>0, <2>1, <2>2 DEF Known0
<1>3. ASSUME IsInjective(ids), NEW j \in 1..N, NEW k \in 1..N, Known0(ids, j) = Known0(ids, k)
      PROVE  j = k
  <2>1. \A m \in 1..N : <<"new", m>> \notin Ids
    BY DEF Ids
  <2>2. \A m, n \in 1..N : <<"new", m>> = <<"new", n>> => m = n
    OBVIOUS
  <2>3. ids[j] = ids[k] => j = k
    BY <1>0, <1>3 DEF IsInjective
  <2>4. CASE ids[j] = None /\ ids[k] = None
    BY <2>3, <2>4
  <2>5. CASE ids[j] # None /\ ids[k] # None
    BY <1>3, <2>3, <2>5 DEF Known0
  <2>6. CASE ids[j] = None /\ ids[k] # None
    BY <1>0, <1>3, <2>1, <2>6 DEF Known0
  <2>7. CASE ids[j] # None /\ ids[k] = None
    BY <1>0, <1>3, <2>1, <2>7 DEF Known0
  <2>. QED
    BY <2>4, <2>5, <2>6, <2>7
<1>4. Good(f[0], 0)
  <2>1. f[0] = <<>>
    BY <1>1 DEF Uniques
  <2>. QED
    BY <2>1
<1>5. ASSUME NEW k \in 1..N, Good(f[k - 1], k - 1)
      PROVE  Good(f[k], k)
  <2> DEFINE v == f[k - 1]
             x == Unused(Known0(ids, k), ToSet(v))
  <2>1. f[k] = Append(v, x)
    BY <1>1 DEF Uniques
  <2>2. v \in Seq(Seq(IdText)) /\ Len(v) = k - 1 /\ k - 1 \in Nat /\ k \in Nat
    BY <1>5
  <2>3. /\ x \in Seq(IdText) /\ x \notin ToSet(v)
        /\ Known0(ids, k) \notin ToSet(v) => x = Known0(ids, k)
    <3>1. Len(v) < MaxCalls + AtOnce
      BY <1>0, <2>2 DEF TransportAssumption
    <3>2. Known0(ids, k) \in Seq(IdText)
      BY <1>2
    <3> HIDE DEF v
    <3>. QED
      BY <2>2, <3>1, <3>2, UnusedIs
  <2>4. /\ \A m, n \in 1..k - 1 : v[m] = v[n] => m = n
        /\ IsInjective(ids) => \A n \in 1..k - 1 : v[n] = Known0(ids, n)
    BY <1>5
  <2> HIDE DEF v, x
  <2>5. /\ Append(v, x) \in Seq(Seq(IdText)) /\ Len(Append(v, x)) = k
        /\ Append(v, x)[k] = x
        /\ \A n \in 1..k - 1 : Append(v, x)[n] = v[n]
    BY <2>2, <2>3
  <2>6. \A n \in 1..k - 1 : v[n] # x
    BY <2>2, <2>3 DEF ToSet
  <2>7. \A n \in 1..k : n = k \/ n \in 1..k - 1
    OBVIOUS
  <2>8. \A m, n \in 1..k : Append(v, x)[m] = Append(v, x)[n] => m = n
    BY <2>4, <2>5, <2>6, <2>7
  <2>9. ASSUME IsInjective(ids)
        PROVE  \A n \in 1..k : Append(v, x)[n] = Known0(ids, n)
    <3>1. Known0(ids, k) \notin ToSet(v)
      <4>1. ASSUME NEW n \in 1..k - 1, v[n] = Known0(ids, k)
            PROVE  FALSE
        <5>1. Known0(ids, n) = Known0(ids, k) /\ n \in 1..N /\ n # k
          BY <2>4, <2>9, <4>1
        <5>. QED
          BY <1>3, <2>9, <5>1
      <4>2. DOMAIN v = 1..k - 1
        BY <2>2
      <4>. QED
        BY <4>1, <4>2 DEF ToSet
    <3>. QED
      BY <2>3, <2>4, <2>5, <2>7, <2>9, <3>1
  <2>. QED
    BY <2>1, <2>5, <2>8, <2>9
<1>6. Good(f[N], N)
  <2> HIDE DEF Good
  <2> DEFINE Bad == {k \in 0..N : ~Good(f[k], k)}
  <2>1. ASSUME Bad # {}
        PROVE  FALSE
    <3>1. Bad \in SUBSET Nat
      OBVIOUS
    <3>2. PICK b \in Bad : \A y \in Bad : b <= y
      BY <2>1, <3>1, HasFirst
    <3>3. b \in 0..N /\ ~Good(f[b], b) /\ b # 0
      BY <1>4, <3>2
    <3>4. b \in 1..N /\ b - 1 \in 0..N /\ ~(b <= b - 1)
      BY <3>3
    <3>5. Good(f[b - 1], b - 1)
      BY <3>2, <3>4
    <3>. QED
      BY <1>5, <3>3, <3>4, <3>5
  <2>2. N \in 0..N
    BY <1>0
  <2>. QED
    BY <2>1, <2>2
<1>7. ASSUME NEW n \in 1..N
      PROVE  ids[n] = None \/ Known0(ids, n) = ids[n]
  BY DEF Known0
<1>. QED
  BY <1>1, <1>6, <1>7

-----------------------------------------------------------------------------
(* The invariant *)

ArgText == {Mapping} \cup Seq([call : Nat, n : Nat])

EntryType == [key : Calls \cup {None}, id : Ids \cup {None}, name : Calls \cup {None}, args : ArgText]

Kinds == {"text", "calls", "finish", "DONE", "bad", "other"}

LineType == [kind : Kinds, size : 1..2, entries : Seq(EntryType)]

\* What the fragments of a call are so far
ArgsSoFar(c) == {Mapping, <<>>, SubSeq(Fragments(c), 1, 1), Fragments(c)}

MeantOK ==
  /\ DOMAIN meant \subseteq Calls
  /\ meant = [c \in DOMAIN meant |-> meant[c]]
  /\ \A c \in DOMAIN meant : meant[c] \in [id : Ids \cup {None}, args : ArgText] /\ meant[c].args \in ArgsSoFar(c)
  /\ dialect = "ollama" => DOMAIN meant = 1..Cardinality(DOMAIN meant)

\* What follows a turn's end is neither text nor a call; text comes once.
LinesOK ==
  /\ dialect \in Dialects
  /\ lines \in Seq(LineType)
  /\ \A i, j \in DOMAIN lines : lines[i].kind = "finish" /\ i < j => lines[j].kind \in {"other", "DONE"}
  /\ \A i, j \in DOMAIN lines : lines[i].kind = "text" /\ lines[j].kind = "text" => i = j

\* Where the transport is in the stream.  The last line, which no newline ends, may have left it
\* before the line's end.
PlaceOK ==
  LET W == Written(lines, Len(lines))
      s == LineEndsAt(lines, handled) IN
  /\ total \in 0..MaxTotal /\ handled \in 0..Len(lines)
  /\ sent \in BOOLEAN
  /\ wire = SubSeq(W, total + 1, total + Len(wire)) /\ Len(wire) \in Nat /\ total + Len(wire) <= Len(W)
  /\ buffer = SubSeq(W, s + 1, total)
  /\ ~sent => total = 0 /\ handled = 0 /\ wire = W
  /\ s <= total \/ (handled # 0 /\ sent /\ wire = <<>> /\ total < s)

\* The lines that were read to their end
LinesRead == IF LineEndsAt(lines, handled) <= total + 1 THEN handled ELSE handled - 1

\* What an entry adds to a call in dialect d
Joined(d, old, entry) ==
  [old EXCEPT !.id = IF entry.id = None \/ (d = "ollama" /\ old.id # None) THEN old.id ELSE entry.id,
              !.name = IF entry.name # None THEN entry.name ELSE @,
              !.args = ArgsOf(old, entry)]

\* The calls as they are known when p is known and a line adds entries
From(d, p, entries) ==
  IF Len(entries) = 1
  THEN LET n == Cardinality(DOMAIN p)
           e == entries[1]
           key == IF d = "ollama" THEN (IF e.name # None \/ n = 0 THEN n + 1 ELSE n) ELSE BuilderOf(e, 1)
       IN [k \in DOMAIN p \cup {key} |-> IF k = key THEN Joined(d, IF key \in DOMAIN p THEN p[key] ELSE New, e) ELSE p[k]]
  ELSE [k \in DOMAIN entries |-> Joined(d, New, entries[k])]

PartsTyped(p) ==
  DOMAIN p \subseteq Calls /\ \A k \in DOMAIN p : p[k].id \in Ids \cup {None} /\ p[k].name \in Calls \cup {None}

AsMeant == [c \in DOMAIN meant |-> Entry(None, meant[c].id, c, meant[c].args)]

\* P[i]: the calls as they are known after i lines
KnownAfter(P) ==
  /\ P[0] = <<>>
  /\ \A i \in 1..Len(lines) :
       P[i] = IF lines[i].kind = "calls" THEN From(dialect, P[i - 1], lines[i].entries) ELSE P[i - 1]
  /\ P[Len(lines)] = AsMeant
  /\ \A i \in 0..Len(lines) : PartsTyped(P[i])
  /\ \A i \in DOMAIN lines : lines[i].kind = "finish" => \A j \in i..Len(lines) : P[j] = AsMeant

PartsOK == \E P : KnownAfter(P) /\ parts = P[LinesRead]

TextOK ==
  /\ text \in Seq(DOMAIN lines) /\ IsInjective(text)
  /\ ToSet(text) = {i \in 1..LinesRead : lines[i].kind = "text"}

FinishedOK == finished \in BOOLEAN /\ (finished <=> \E i \in 1..LinesRead : lines[i].kind = "finish")

TurnOK == Delivered => finished /\ turn = [calls |-> Finalized, text |-> text]

StreamInv == LinesOK /\ MeantOK /\ PlaceOK /\ PartsOK /\ TextOK /\ FinishedOK /\ TurnOK

-----------------------------------------------------------------------------
(* Where the transport is in the stream *)

\* A part of a sequence
LEMMA Cut ==
  ASSUME NEW S, NEW q \in Seq(S), NEW m \in Nat, m # 0, NEW n \in Nat, n <= Len(q)
  PROVE  /\ SubSeq(q, m, n) \in Seq(S)
         /\ Len(SubSeq(q, m, n)) = IF m <= n THEN n - m + 1 ELSE 0
         /\ \A i \in 1..Len(SubSeq(q, m, n)) : SubSeq(q, m, n)[i] = q[m + i - 1]
         /\ n < m => SubSeq(q, m, n) = <<>>
<1>1. \A i \in m..n : q[i] \in S
  OBVIOUS
<1>2. m \in Int /\ n \in Int
  OBVIOUS
<1>3. /\ SubSeq(q, m, n) \in Seq(S)
      /\ Len(SubSeq(q, m, n)) = IF m <= n THEN n - m + 1 ELSE 0
      /\ \A i \in 1..n - m + 1 : SubSeq(q, m, n)[i] = q[m + i - 1]
  BY <1>1, <1>2, SubSeqProperties
<1>4. n < m => SubSeq(q, m, n) = <<>>
  BY <1>2, SubSeqEmpty
<1>5. \A i \in 1..Len(SubSeq(q, m, n)) : i \in 1..n - m + 1
  BY <1>3
<1>. QED
  BY <1>3, <1>4, <1>5

\* A part of a part is a part.
LEMMA CutOfCut ==
  ASSUME NEW S, NEW q \in Seq(S), NEW m \in Nat, m # 0, NEW n \in Nat, n <= Len(q),
         NEW i \in Nat, i # 0, NEW j \in Nat, j <= Len(SubSeq(q, m, n))
  PROVE  SubSeq(SubSeq(q, m, n), i, j) = SubSeq(q, m + i - 1, m + j - 1)
<1> DEFINE p == SubSeq(q, m, n)
           a == SubSeq(p, i, j)
           b == SubSeq(q, m + i - 1, m + j - 1)
<1>1. /\ p \in Seq(S) /\ Len(p) = IF m <= n THEN n - m + 1 ELSE 0
      /\ \A k \in 1..Len(p) : p[k] = q[m + k - 1]
      /\ n < m => p = <<>>
  BY Cut
<1>2. m + i - 1 \in Nat /\ m + i - 1 # 0 /\ m + j - 1 \in Nat
  OBVIOUS
<1>3. CASE j = 0
  <2>1. SubSeq(p, i, j) = <<>>
    BY <1>1, <1>3, Cut
  <2>2. m + j - 1 < m + i - 1
    BY <1>3
  <2>3. b = <<>>
    <3>1. m + i - 1 \in Int /\ m + j - 1 \in Int
      BY <1>2
    <3>. QED
      BY <2>2, <3>1, SubSeqEmpty
  <2>. QED
    BY <2>1, <2>3
<1>4. CASE j # 0
  <2> HIDE DEF p
  <2>1. m <= n /\ Len(p) = n - m + 1 /\ m + j - 1 <= n /\ j <= Len(p)
    BY <1>1, <1>4 DEF p
  <2>2. /\ a \in Seq(S) /\ Len(a) = IF i <= j THEN j - i + 1 ELSE 0
        /\ \A k \in 1..Len(a) : a[k] = p[i + k - 1]
    BY <1>1, <2>1, Cut
  <2>3. /\ b \in Seq(S) /\ Len(b) = IF m + i - 1 <= m + j - 1 THEN (m + j - 1) - (m + i - 1) + 1 ELSE 0
        /\ \A k \in 1..Len(b) : b[k] = q[(m + i - 1) + k - 1]
    <3>1. m + j - 1 <= Len(q)
      BY <2>1
    <3>. QED
      BY <1>2, <3>1, Cut
  <2> HIDE DEF a, b
  <2>4. Len(a) = Len(b)
    BY <2>2, <2>3
  <2>5. ASSUME NEW k \in 1..Len(a)
        PROVE  a[k] = b[k]
    <3>1. a[k] = p[i + k - 1] /\ i + k - 1 \in 1..Len(p)
      BY <2>1, <2>2
    <3>2. p[i + k - 1] = q[m + (i + k - 1) - 1]
      BY <1>1, <3>1
    <3>3. b[k] = q[(m + i - 1) + k - 1]
      BY <2>3, <2>4
    <3>4. m + (i + k - 1) - 1 = (m + i - 1) + k - 1
      BY <2>2
    <3>. QED
      BY <3>1, <3>2, <3>3, <3>4
  <2>6. a = b
    BY <2>2, <2>3, <2>4, <2>5, SeqEqual
  <2>. QED
    BY <2>6 DEF a, b, p
<1>. QED
  BY <1>3, <1>4

\* What is left of a part when its first z + 1 members are taken
LEMMA RestOfCut ==
  ASSUME NEW S, NEW q \in Seq(S), NEW t \in Nat, t <= Len(q),
         NEW s \in Nat, NEW z \in Nat, NEW n \in Nat, s + n = t, z + 1 <= n
  PROVE  SubSeq(SubSeq(q, s + 1, t), z + 2, n) = SubSeq(q, (s + z + 1) + 1, t)
<1> DEFINE m == s + 1
           i == z + 2
<1>1. m \in Nat /\ m # 0 /\ i \in Nat /\ i # 0
  OBVIOUS
<1>2. n <= Len(SubSeq(q, m, t))
  <2>1. Len(SubSeq(q, m, t)) = IF m <= t THEN t - m + 1 ELSE 0
    BY <1>1, Cut
  <2>2. m <= t /\ t - m + 1 = n
    OBVIOUS
  <2>. QED
    BY <2>1, <2>2
<1>3. m + i - 1 = (s + z + 1) + 1 /\ m + n - 1 = t
  OBVIOUS
<1> HIDE DEF m, i
<1>4. SubSeq(SubSeq(q, m, t), i, n) = SubSeq(q, m + i - 1, m + n - 1)
  BY <1>1, <1>2, CutOfCut
<1>5. SubSeq(SubSeq(q, m, t), i, n) = SubSeq(q, (s + z + 1) + 1, t)
  BY <1>3, <1>4
<1>. QED
  BY <1>5 DEF m, i

\* The lines have sizes.
LEMMA LinesSized ==
  ASSUME LinesOK
  PROVE  Sized(lines) /\ DOMAIN lines = 1..Len(lines) /\ Len(lines) \in Nat
<1>1. lines \in Seq(LineType)
  BY DEF LinesOK
<1>2. \A l \in LineType : l.size \in 1..2
  BY DEF LineType
<1>. QED
  BY <1>1, <1>2 DEF Sized

\* What the transport holds, and where it is.
LEMMA HeldIs ==
  ASSUME LinesOK, PlaceOK
  PROVE  LET W == Written(lines, Len(lines))
             s == LineEndsAt(lines, handled) IN
         /\ W \in Seq(CellOf(Len(lines))) /\ s \in Nat /\ s <= Len(W) /\ total \in Nat /\ total <= Len(W)
         /\ buffer \in Seq(CellOf(Len(lines))) /\ wire \in Seq(CellOf(Len(lines)))
         /\ Len(buffer) = IF s <= total THEN total - s ELSE 0
         /\ \A i \in 1..Len(buffer) : buffer[i] = W[s + i]
         /\ buffer # <<>> => handled \in 0..Len(lines) - 1
<1> DEFINE N == Len(lines)
           W == Written(lines, N)
           s == LineEndsAt(lines, handled)
<1>1. Sized(lines) /\ N \in Nat /\ handled \in 0..N /\ N \in 0..N
  BY LinesSized DEF PlaceOK
<1>2. W \in Seq(CellOf(N)) /\ s \in Nat
  BY <1>1, WrittenTyped
<1>3. s <= Len(W)
  <2>1. handled <= N
    BY <1>1
  <2>2. LineEndsAt(lines, handled) <= LineEndsAt(lines, N)
    BY <1>1, <2>1, WrittenStands
  <2>. QED
    BY <2>2 DEF LineEndsAt
<1> HIDE DEF W, s, N
<1>4. /\ total \in Nat /\ Len(wire) \in Nat /\ total + Len(wire) <= Len(W)
      /\ wire = SubSeq(W, total + 1, total + Len(wire)) /\ buffer = SubSeq(W, s + 1, total)
  BY DEF PlaceOK, W, s, N
<1>5. Len(W) \in Nat /\ total <= Len(W)
  BY <1>2, <1>4
<1>6. /\ buffer \in Seq(CellOf(N)) /\ Len(buffer) = IF s + 1 <= total THEN total - (s + 1) + 1 ELSE 0
      /\ \A i \in 1..Len(buffer) : buffer[i] = W[(s + 1) + i - 1]
  <2>1. s + 1 \in Nat /\ s + 1 # 0
    BY <1>2
  <2>. QED
    BY <1>2, <1>4, <1>5, <2>1, Cut
<1>7. wire \in Seq(CellOf(N))
  <2>1. total + 1 \in Nat /\ total + 1 # 0 /\ total + Len(wire) \in Nat
    BY <1>4
  <2>2. SubSeq(W, total + 1, total + Len(wire)) \in Seq(CellOf(N))
    BY <1>2, <1>4, <2>1, Cut
  <2>. QED
    BY <1>4, <2>2
<1>8. Len(buffer) = IF s <= total THEN total - s ELSE 0
  BY <1>2, <1>4, <1>6
<1>9. ASSUME NEW i \in 1..Len(buffer)
      PROVE  buffer[i] = W[s + i]
  <2>1. (s + 1) + i - 1 = s + i
    BY <1>2, <1>6
  <2>. QED
    BY <1>6, <2>1
<1>10. ASSUME buffer # <<>>
       PROVE  handled \in 0..N - 1
  <2>1. Len(buffer) # 0
    BY <1>6, <1>10
  <2>2. s < total
    BY <1>2, <1>4, <1>8, <2>1
  <2>3. handled # N
    <3>1. handled = N => s = Len(W)
      BY DEF s, W, LineEndsAt
    <3>. QED
      BY <1>2, <1>4, <1>5, <2>2, <3>1
  <2>. QED
    BY <1>1, <2>3
<1>. QED
  BY <1>2, <1>3, <1>4, <1>5, <1>6, <1>7, <1>8, <1>9, <1>10 DEF W, s, N

\* It holds the next line, or as much of it as has come.
LEMMA HoldsNext ==
  ASSUME TransportAssumption, LinesOK, PlaceOK, buffer # <<>>
  PROVE  LET s == LineEndsAt(lines, handled)
             z == lines[handled + 1].size IN
         /\ handled + 1 \in DOMAIN lines /\ handled \in Nat /\ z \in 1..2 /\ s \in Nat
         /\ LineEndsAt(lines, handled + 1) = s + z + 1
         /\ Len(buffer) \in Nat /\ Len(buffer) # 0 /\ s + Len(buffer) = total
         /\ \A i \in 1..Len(buffer) : i <= z => buffer[i] = [line |-> handled + 1, part |-> i]
         /\ HasLine <=> z < Len(buffer)
         /\ HasLine => LineEnd = z + 1
<1> DEFINE W == Written(lines, Len(lines))
           s == LineEndsAt(lines, handled)
           z == lines[handled + 1].size
<1>1. /\ s \in Nat /\ buffer \in Seq(CellOf(Len(lines))) /\ handled \in 0..Len(lines) - 1 /\ total \in Nat
      /\ Len(buffer) = IF s <= total THEN total - s ELSE 0
      /\ \A i \in 1..Len(buffer) : buffer[i] = W[s + i]
  BY HeldIs
<1>2. Sized(lines) /\ DOMAIN lines = 1..Len(lines) /\ Len(lines) \in Nat
  BY LinesSized
<1>3. /\ z \in 1..2 /\ LineEndsAt(lines, handled + 1) = s + z + 1
      /\ \A k \in 1..z : W[s + k] = [line |-> handled + 1, part |-> k]
      /\ W[s + z + 1] = Newline
  BY <1>1, <1>2, LineAt
<1>4. handled + 1 \in DOMAIN lines /\ handled \in Nat /\ handled + 1 \in Nat
  BY <1>1, <1>2
<1> HIDE DEF W, s, z
<1>5. Len(buffer) \in Nat /\ Len(buffer) # 0 /\ s + Len(buffer) = total /\ DOMAIN buffer = 1..Len(buffer)
  BY <1>1
<1>6. ASSUME NEW i \in 1..Len(buffer), i <= z
      PROVE  buffer[i] = [line |-> handled + 1, part |-> i] /\ buffer[i] # Newline
  <2>1. i \in 1..z /\ i \in Nat
    BY <1>3, <1>5, <1>6
  <2>2. buffer[i] = [line |-> handled + 1, part |-> i]
    BY <1>1, <1>3, <2>1
  <2>3. [line |-> handled + 1, part |-> i] \in [line : Nat, part : Nat]
    BY <1>4, <2>1
  <2>. QED
    BY <2>2, <2>3 DEF TransportAssumption
<1>7. z < Len(buffer) => buffer[z + 1] = Newline /\ z + 1 \in 1..Len(buffer)
  <2>1. s + (z + 1) = s + z + 1
    BY <1>1, <1>3
  <2>2. z < Len(buffer) => z + 1 \in 1..Len(buffer)
    BY <1>3, <1>5
  <2>. QED
    BY <1>1, <1>3, <2>1, <2>2
<1>8. HasLine <=> z < Len(buffer)
  <2>1. ASSUME ~(z < Len(buffer)), NEW i \in 1..Len(buffer)
        PROVE  buffer[i] # Newline
    <3>1. i <= z
      BY <1>3, <1>5, <2>1
    <3>. QED
      BY <1>6, <3>1
  <2>. QED
    BY <1>5, <1>7, <2>1 DEF HasLine
<1>9. ASSUME HasLine
      PROVE  LineEnd = z + 1
  <2> DEFINE P(i) == buffer[i] = Newline /\ \A j \in 1..i - 1 : buffer[j] # Newline
  <2>1. z + 1 \in DOMAIN buffer /\ P(z + 1)
    <3>1. \A j \in 1..z : j \in 1..Len(buffer) /\ j <= z
      BY <1>3, <1>5, <1>7, <1>8, <1>9
    <3>2. (z + 1) - 1 = z
      BY <1>3
    <3>. QED
      BY <1>5, <1>6, <1>7, <1>8, <1>9, <3>1, <3>2
  <2>2. ASSUME NEW i \in DOMAIN buffer, P(i)
        PROVE  i = z + 1
    <3>1. i \in 1..Len(buffer) /\ ~(i <= z)
      BY <1>5, <1>6, <2>2
    <3>2. i # z + 1 => z + 1 \in 1..i - 1
      BY <1>3, <3>1
    <3>. QED
      BY <2>1, <2>2, <3>2
  <2>3. LineEnd = CHOOSE i \in DOMAIN buffer : P(i)
    BY DEF LineEnd
  <2> HIDE DEF P
  <2>. QED
    BY <2>1, <2>2, <2>3
<1>. QED
  BY <1>1, <1>3, <1>4, <1>5, <1>6, <1>8, <1>9 DEF s, z

\* A line the server writes goes to the end of what is on its way.
LEMMA WritePlace ==
  ASSUME LinesOK, PlaceOK, NEW l \in LineType, ~sent,
         lines' = Append(lines, l), wire' = wire \o Append(Cells(Len(lines) + 1, l.size), Newline),
         UNCHANGED <<sent, buffer, total, handled>>
  PROVE  PlaceOK' /\ LinesRead = 0 /\ LinesRead' = 0 /\ handled = 0 /\ buffer = <<>>
<1> DEFINE N == Len(lines)
           W == Written(lines, N)
           ls == Append(lines, l)
           V == Written(ls, N + 1)
<1>1. /\ lines \in Seq(LineType) /\ N \in Nat /\ Len(ls) = N + 1 /\ ls \in Seq(LineType)
      /\ ls[N + 1] = l
  BY LinesSized DEF LinesOK
<1>2. Sized(ls)
  <2>1. \A i \in 1..N + 1 : ls[i] \in LineType
    BY <1>1
  <2>2. \A k \in LineType : k.size \in 1..2
    BY DEF LineType
  <2>. QED
    BY <1>1, <2>1, <2>2 DEF Sized
<1>3. total = 0 /\ handled = 0 /\ wire = W
  BY DEF PlaceOK
<1>4. Written(ls, N) = W
  BY <1>1, WrittenAppend
<1>5. V = W \o Text(ls, N + 1)
  <2>1. N \in 0..Len(ls) - 1
    BY <1>1
  <2>. QED
    BY <1>2, <1>4, <2>1, WrittenMore
<1>6. Text(ls, N + 1) = Append(Cells(N + 1, l.size), Newline)
  BY <1>1 DEF Text
<1>7. wire' = V
  BY <1>3, <1>5, <1>6
<1>8. V \in Seq(CellOf(N + 1))
  <2>1. N + 1 \in 0..Len(ls)
    BY <1>1
  <2>. QED
    BY <1>2, <2>1, WrittenTyped
<1>9. Written(ls, 0) = <<>> /\ LineEndsAt(ls, 0) = 0 /\ LineEndsAt(lines, 0) = 0
  <2>1. Written(ls, 0) = <<>> /\ Written(lines, 0) = <<>>
    BY WrittenNext
  <2>. QED
    BY <2>1 DEF LineEndsAt
<1>10. buffer = <<>>
  <2>1. buffer = SubSeq(W, 0 + 1, 0)
    BY <1>3, <1>9 DEF PlaceOK
  <2>2. SubSeq(W, 0 + 1, 0) = <<>>
    BY SubSeqEmpty
  <2>. QED
    BY <2>1, <2>2
<1>11. LinesRead = 0 /\ LinesRead' = 0
  <2>1. LinesRead = IF LineEndsAt(lines, 0) <= 0 + 1 THEN 0 ELSE 0 - 1
    BY <1>3 DEF LinesRead
  <2>2. LinesRead' = IF LineEndsAt(ls, 0) <= 0 + 1 THEN 0 ELSE 0 - 1
    BY <1>3 DEF LinesRead
  <2>. QED
    BY <1>9, <2>1, <2>2
<1> HIDE DEF V, W, ls, N
<1>12. V = SubSeq(V, 1, Len(V)) /\ Len(V) \in Nat
  BY <1>8, SubSeqFull
<1>13. SubSeq(V, 0 + 1, 0) = <<>>
  BY SubSeqEmpty
<1>14. Written(lines', Len(lines')) = V /\ LineEndsAt(lines', handled') = 0 /\ total' = 0 /\ handled' = 0 /\ Len(lines') = N + 1
  BY <1>1, <1>3, <1>9 DEF V, ls, N
<1>15. 0 \in 0..MaxTotal /\ sent \in BOOLEAN
  BY <1>3 DEF PlaceOK
<1>16. PlaceOK'
  <2> DEFINE W1 == Written(lines', Len(lines'))
             s1 == LineEndsAt(lines', handled')
  <2>1. total' \in 0..MaxTotal /\ handled' \in 0..Len(lines') /\ sent' \in BOOLEAN
    BY <1>1, <1>14, <1>15
  <2>2. /\ wire' = SubSeq(W1, total' + 1, total' + Len(wire')) /\ Len(wire') \in Nat
        /\ total' + Len(wire') <= Len(W1)
    BY <1>7, <1>12, <1>14
  <2>3. buffer' = SubSeq(W1, s1 + 1, total')
    BY <1>10, <1>13, <1>14
  <2>4. ~sent' => total' = 0 /\ handled' = 0 /\ wire' = W1
    BY <1>7, <1>14
  <2>5. s1 <= total'
    BY <1>14
  <2>. QED
    BY <2>1, <2>2, <2>3, <2>4, <2>5 DEF PlaceOK
<1>. QED
  BY <1>3, <1>10, <1>11, <1>16

\* The network delivers what was written, or a part of it.
LEMMA SendsPlace ==
  ASSUME LinesOK, PlaceOK, Sends
  PROVE  PlaceOK' /\ LinesRead' = LinesRead
<1> DEFINE W == Written(lines, Len(lines))
<1>1. PICK n \in 0..Len(wire) : wire' = SubSeq(wire, 1, n)
  BY DEF Sends
<1>2. UNCHANGED <<lines, buffer, total, handled>> /\ sent' = TRUE /\ ~sent
  BY DEF Sends, server, reader
<1>3. /\ total = 0 /\ handled = 0 /\ wire = W /\ Len(wire) \in Nat
  BY <1>2 DEF PlaceOK
<1>4. W \in Seq(CellOf(Len(lines)))
  BY HeldIs
<1>5. Len(SubSeq(W, 1, n)) = n /\ n <= Len(W) /\ n \in Nat
  <2>1. n \in Nat /\ n <= Len(W) /\ 1 \in Nat /\ 1 # 0
    BY <1>3
  <2>2. Len(SubSeq(W, 1, n)) = IF 1 <= n THEN n - 1 + 1 ELSE 0
    BY <1>4, <2>1, Cut
  <2>. QED
    BY <2>1, <2>2
<1>6. /\ wire' = SubSeq(W, total' + 1, total' + Len(wire')) /\ Len(wire') \in Nat
      /\ total' + Len(wire') <= Len(W)
  BY <1>1, <1>2, <1>3, <1>5
<1>7. LineEndsAt(lines, handled) = 0
  <2>1. Written(lines, 0) = <<>>
    BY WrittenNext
  <2>. QED
    BY <1>3, <2>1 DEF LineEndsAt
<1> HIDE DEF W
<1>8. PlaceOK'
  <2>1. LineEndsAt(lines', handled') <= total'
    BY <1>2, <1>3, <1>7
  <2>. QED
    BY <1>2, <1>6, <2>1 DEF PlaceOK, W
<1>. QED
  BY <1>2, <1>8 DEF LinesRead

\* A chunk that is read is the next part of what was written.
LEMMA ReadPlace ==
  ASSUME TransportAssumption, LinesOK, PlaceOK, sent, NEW n \in 1..Len(wire), ~TooMuch(n),
         wire' = SubSeq(wire, n + 1, Len(wire)), buffer' = buffer \o SubSeq(wire, 1, n), total' = total + n,
         UNCHANGED <<lines, handled, sent>>
  PROVE  PlaceOK' /\ LinesRead' = LinesRead
<1> DEFINE W == Written(lines, Len(lines))
           s == LineEndsAt(lines, handled)
           C == CellOf(Len(lines))
<1>1. /\ W \in Seq(C) /\ s \in Nat /\ s <= Len(W) /\ total \in Nat /\ total <= Len(W)
      /\ wire \in Seq(C)
  BY HeldIs
<1>0. /\ wire = SubSeq(W, total + 1, total + Len(wire)) /\ buffer = SubSeq(W, s + 1, total)
  BY DEF PlaceOK
<1>2. /\ Len(wire) \in Nat /\ total + Len(wire) <= Len(W) /\ handled \in 0..Len(lines)
      /\ s <= total \/ wire = <<>>
  BY DEF PlaceOK
<1> HIDE DEF W, s, C
<1>3. n \in Nat /\ n # 0 /\ n <= Len(wire) /\ total + n \in Nat /\ total + n <= Len(W) /\ Len(W) \in Nat
  BY <1>1, <1>2
<1>4. s <= total
  <2>1. wire # <<>>
    BY <1>3
  <2>. QED
    BY <1>2, <2>1
<1>5. SubSeq(wire, 1, n) = SubSeq(W, total + 1, total + n)
  <2>1. total + 1 \in Nat /\ total + 1 # 0 /\ total + Len(wire) \in Nat /\ 1 \in Nat /\ 1 # 0
    BY <1>1, <1>2
  <2>2. SubSeq(SubSeq(W, total + 1, total + Len(wire)), 1, n) = SubSeq(W, (total + 1) + 1 - 1, (total + 1) + n - 1)
    BY <1>1, <1>2, <1>3, <2>1, CutOfCut
  <2>3. (total + 1) + 1 - 1 = total + 1 /\ (total + 1) + n - 1 = total + n
    BY <1>1, <1>3
  <2>. QED
    BY <1>0, <2>2, <2>3
<1>6. wire' = SubSeq(W, (total + n) + 1, total + Len(wire))
  <2>1. total + 1 \in Nat /\ total + 1 # 0 /\ total + Len(wire) \in Nat /\ n + 1 \in Nat /\ n + 1 # 0
    BY <1>1, <1>2, <1>3
  <2>2. SubSeq(SubSeq(W, total + 1, total + Len(wire)), n + 1, Len(wire)) = SubSeq(W, (total + 1) + (n + 1) - 1, (total + 1) + Len(wire) - 1)
    BY <1>1, <1>2, <1>3, <2>1, CutOfCut
  <2>3. (total + 1) + (n + 1) - 1 = (total + n) + 1 /\ (total + 1) + Len(wire) - 1 = total + Len(wire)
    BY <1>1, <1>2, <1>3
  <2>. QED
    BY <1>0, <2>2, <2>3
<1>7. Len(wire') = Len(wire) - n
  <2>1. (total + n) + 1 \in Nat /\ (total + n) + 1 # 0 /\ total + Len(wire) \in Nat
    BY <1>1, <1>2, <1>3
  <2>2. Len(SubSeq(W, (total + n) + 1, total + Len(wire))) =
          IF (total + n) + 1 <= total + Len(wire) THEN (total + Len(wire)) - ((total + n) + 1) + 1 ELSE 0
    BY <1>1, <1>2, <2>1, Cut
  <2>3. Len(wire') = IF (total + n) + 1 <= total + Len(wire) THEN (total + Len(wire)) - ((total + n) + 1) + 1 ELSE 0
    BY <1>6, <2>2
  <2>. QED
    BY <1>1, <1>2, <1>3, <2>3
<1>8. buffer' = SubSeq(W, s + 1, total + n)
  <2>1. s + 1 \in 1..Len(W) + 1 /\ total \in (s + 1) - 1..Len(W) /\ total + n \in total..Len(W)
    BY <1>1, <1>3, <1>4
  <2>2. SubSeq(W, s + 1, total) \o SubSeq(W, total + 1, total + n) = SubSeq(W, s + 1, total + n)
    BY <1>1, <2>1, ConcatAdjacentSubSeq
  <2>. QED
    BY <1>0, <1>5, <2>2
<1>9. total' \in 0..MaxTotal
  BY <1>1, <1>3 DEF TooMuch, TransportAssumption
<1>10. total + n + Len(wire') = total + Len(wire)
  <2> DEFINE a == Len(wire)
             b == Len(wire')
  <2>1. total \in Nat /\ n \in Nat /\ a \in Nat /\ b = a - n
    BY <1>1, <1>2, <1>3, <1>7
  <2> HIDE DEF a, b
  <2>2. total + n + b = total + a
    BY <2>1
  <2>. QED
    BY <2>2 DEF a, b
<1>11. PlaceOK'
  <2>0. wire' = SubSeq(W, total' + 1, total' + Len(wire'))
    BY <1>6, <1>10
  <2>1. Len(wire') \in Nat /\ total' + Len(wire') <= Len(W)
    <3>1. Len(wire') \in Nat
      BY <1>2, <1>3, <1>7
    <3>2. total' + Len(wire') = total + Len(wire)
      BY <1>10
    <3>. QED
      BY <1>2, <3>1, <3>2
  <2>2. buffer' = SubSeq(W, s + 1, total')
    BY <1>8
  <2>3. s <= total'
    BY <1>1, <1>3, <1>4
  <2>4. Written(lines', Len(lines')) = W /\ LineEndsAt(lines', handled') = s /\ handled' \in 0..Len(lines')
    BY <1>2 DEF W, s
  <2>. QED
    BY <1>9, <2>0, <2>1, <2>2, <2>3, <2>4 DEF PlaceOK
<1>12. LinesRead = handled /\ LinesRead' = handled
  <2>1. s <= total + 1 /\ s <= total + n + 1
    BY <1>1, <1>3, <1>4
  <2>2. LineEndsAt(lines', handled') = s /\ handled' = handled /\ total' = total + n
    BY DEF s
  <2>. QED
    BY <2>1, <2>2 DEF LinesRead, s
<1>. QED
  BY <1>11, <1>12

\* A line that is handled is the next one, whole, and what is left starts where it ended.
LEMMA HandlePlace ==
  ASSUME TransportAssumption, LinesOK, PlaceOK, HasLine, buffer' = Rest, handled' = handled + 1,
         UNCHANGED <<lines, wire, sent, total>>
  PROVE  LET cells == SubSeq(buffer, 1, LineEnd - 1) IN
         /\ PlaceOK' /\ LinesRead = handled /\ LinesRead' = handled + 1
         /\ handled + 1 \in DOMAIN lines /\ cells[1].line = handled + 1 /\ Whole(cells)
<1> DEFINE W == Written(lines, Len(lines))
           s == LineEndsAt(lines, handled)
           z == lines[handled + 1].size
           C == CellOf(Len(lines))
<1>0. buffer # <<>>
  BY DEF HasLine
<1>1. /\ W \in Seq(C) /\ total \in Nat /\ total <= Len(W)
      /\ buffer \in Seq(C)
  BY HeldIs
<1>2. /\ handled + 1 \in DOMAIN lines /\ handled \in Nat /\ z \in 1..2 /\ s \in Nat
      /\ LineEndsAt(lines, handled + 1) = s + z + 1
      /\ Len(buffer) \in Nat /\ Len(buffer) # 0 /\ s + Len(buffer) = total
      /\ \A i \in 1..Len(buffer) : i <= z => buffer[i] = [line |-> handled + 1, part |-> i]
      /\ z < Len(buffer)
      /\ LineEnd = z + 1
  BY <1>0, HoldsNext
<1>3. /\ wire = SubSeq(W, total + 1, total + Len(wire)) /\ Len(wire) \in Nat /\ total + Len(wire) <= Len(W)
      /\ buffer = SubSeq(W, s + 1, total) /\ total \in 0..MaxTotal /\ sent \in BOOLEAN
      /\ ~sent => total = 0
  BY DEF PlaceOK
<1>4. Len(lines) \in Nat /\ DOMAIN lines = 1..Len(lines)
  BY LinesSized
<1> HIDE DEF W, s, z, C
<1>5. buffer' = SubSeq(W, (s + z + 1) + 1, total)
  <2>1. Rest = SubSeq(buffer, z + 2, Len(buffer))
    <3>1. (z + 1) + 1 = z + 2
      BY <1>2
    <3>. QED
      BY <1>2, <3>1 DEF Rest
  <2>2. z \in Nat /\ z + 1 <= Len(buffer)
    BY <1>2
  <2>3. SubSeq(SubSeq(W, s + 1, total), z + 2, Len(buffer)) = SubSeq(W, (s + z + 1) + 1, total)
    <3> DEFINE n == Len(buffer)
    <3>1. total \in Nat /\ total <= Len(W) /\ n \in Nat /\ s \in Nat /\ s + n = total
      BY <1>1, <1>2
    <3>2. z \in Nat /\ z + 1 <= n
      BY <2>2
    <3>3. W \in Seq(C)
      BY <1>1
    <3> HIDE DEF n
    <3>4. SubSeq(SubSeq(W, s + 1, total), z + 2, n) = SubSeq(W, (s + z + 1) + 1, total)
      BY <3>1, <3>2, <3>3, RestOfCut
    <3>. QED
      BY <3>4 DEF n
  <2>. QED
    BY <1>3, <2>1, <2>3
<1>6. s + z + 1 <= total /\ total # 0
  BY <1>2
<1>7. PlaceOK'
  <2>1. Written(lines', Len(lines')) = W /\ LineEndsAt(lines', handled') = s + z + 1 /\ handled' \in 0..Len(lines')
    BY <1>2, <1>4 DEF W
  <2>. QED
    BY <1>3, <1>5, <1>6, <2>1 DEF PlaceOK
<1>8. LinesRead = handled /\ LinesRead' = handled + 1
  <2>1. s <= total + 1 /\ s + z + 1 <= total + 1
    BY <1>2, <1>6
  <2>2. LineEndsAt(lines', handled') = s + z + 1
    BY <1>2
  <2>. QED
    BY <2>1, <2>2 DEF LinesRead, s
<1>9. SubSeq(buffer, 1, LineEnd - 1)[1].line = handled + 1 /\ Len(SubSeq(buffer, 1, LineEnd - 1)) = z
  <2>1. LineEnd - 1 = z /\ z \in Nat /\ z # 0 /\ z <= Len(buffer) /\ 1 \in Nat /\ 1 # 0
    BY <1>2
  <2>2. /\ Len(SubSeq(buffer, 1, z)) = IF 1 <= z THEN z - 1 + 1 ELSE 0
        /\ \A i \in 1..Len(SubSeq(buffer, 1, z)) : SubSeq(buffer, 1, z)[i] = buffer[1 + i - 1]
    BY <1>1, <2>1, Cut
  <2>3. Len(SubSeq(buffer, 1, z)) = z
    BY <2>1, <2>2
  <2>4. SubSeq(buffer, 1, z)[1] = buffer[1]
    <3>1. 1 \in 1..Len(SubSeq(buffer, 1, z))
      BY <2>1, <2>3
    <3>2. SubSeq(buffer, 1, z)[1] = buffer[1 + 1 - 1]
      BY <2>2, <3>1
    <3>3. 1 + 1 - 1 = 1
      OBVIOUS
    <3>. QED
      BY <3>2, <3>3
  <2>5. buffer[1] = [line |-> handled + 1, part |-> 1]
    <3>1. 1 \in 1..Len(buffer) /\ 1 <= z
      BY <1>2
    <3>. QED
      BY <1>2, <3>1
  <2>6. buffer[1].line = handled + 1
    BY <2>5
  <2>. QED
    BY <2>1, <2>3, <2>4, <2>6
<1>10. Whole(SubSeq(buffer, 1, LineEnd - 1))
  BY <1>9 DEF Whole, z
<1>. QED
  BY <1>2, <1>7, <1>8, <1>9, <1>10

\* The last line may have been cut.
LEMMA LastPlace ==
  ASSUME TransportAssumption, LinesOK, PlaceOK, ~HasLine, buffer # <<>>, sent, wire = <<>>,
         buffer' = <<>>, handled' = handled + 1, UNCHANGED <<lines, wire, sent, total>>
  PROVE  /\ PlaceOK' /\ LinesRead = handled /\ LinesRead' = IF Whole(buffer) THEN handled + 1 ELSE handled
         /\ handled + 1 \in DOMAIN lines /\ buffer[1].line = handled + 1
<1> DEFINE W == Written(lines, Len(lines))
           s == LineEndsAt(lines, handled)
           z == lines[handled + 1].size
<1>1. total \in Nat
  BY HeldIs
<1>2. /\ handled + 1 \in DOMAIN lines /\ handled \in Nat /\ z \in 1..2 /\ s \in Nat
      /\ LineEndsAt(lines, handled + 1) = s + z + 1
      /\ Len(buffer) \in Nat /\ Len(buffer) # 0 /\ s + Len(buffer) = total
      /\ \A i \in 1..Len(buffer) : i <= z => buffer[i] = [line |-> handled + 1, part |-> i]
      /\ ~(z < Len(buffer))
  BY HoldsNext
<1>3. /\ wire = SubSeq(W, total + 1, total + Len(wire)) /\ Len(wire) \in Nat /\ total + Len(wire) <= Len(W)
      /\ total \in 0..MaxTotal /\ sent \in BOOLEAN
  BY DEF PlaceOK
<1>4. Len(lines) \in Nat /\ DOMAIN lines = 1..Len(lines)
  BY LinesSized
<1> HIDE DEF W, s, z
<1>5. total < s + z + 1 /\ handled + 1 # 0
  BY <1>2
<1>6. SubSeq(W, (s + z + 1) + 1, total) = <<>>
  <2>1. (s + z + 1) + 1 \in Int /\ total \in Int /\ total < (s + z + 1) + 1
    BY <1>1, <1>2, <1>5
  <2>. QED
    BY <2>1, SubSeqEmpty
<1>7. PlaceOK'
  <2>1. Written(lines', Len(lines')) = W /\ LineEndsAt(lines', handled') = s + z + 1 /\ handled' \in 0..Len(lines')
    BY <1>2, <1>4 DEF W
  <2>. QED
    BY <1>3, <1>5, <1>6, <2>1 DEF PlaceOK
<1>8. buffer[1].line = handled + 1
  <2>1. 1 \in 1..Len(buffer) /\ 1 <= z
    BY <1>2
  <2>2. buffer[1] = [line |-> handled + 1, part |-> 1]
    BY <1>2, <2>1
  <2>. QED
    BY <2>2
<1>9. Whole(buffer) <=> Len(buffer) = z
  BY <1>8 DEF Whole, z
<1>10. LinesRead = handled /\ LinesRead' = IF Len(buffer) = z THEN handled + 1 ELSE handled
  <2>1. s <= total + 1 /\ (s + z + 1 <= total + 1 <=> Len(buffer) = z) /\ (handled + 1) - 1 = handled
    BY <1>2
  <2>2. LineEndsAt(lines', handled') = s + z + 1 /\ handled' = handled + 1 /\ total' = total
    BY <1>2
  <2>3. LinesRead' = IF s + z + 1 <= total + 1 THEN handled + 1 ELSE (handled + 1) - 1
    BY <2>2 DEF LinesRead
  <2>4. LinesRead = handled
    BY <2>1 DEF LinesRead, s
  <2>. QED
    BY <2>1, <2>3, <2>4
<1>. QED
  BY <1>2, <1>7, <1>8, <1>9, <1>10

-----------------------------------------------------------------------------
(* What the transport knows *)

\* A line adds to the calls that are known.
LEMMA AccumulatedIs ==
  ASSUME NEW entries
  PROVE  Accumulated(entries) = From(dialect, parts, entries)
<1>1. \A old, e : Extended(old, e) = Joined(dialect, old, e)
  BY DEF Extended, Joined, IdOf
<1> HIDE DEF Joined
<1>. QED
  BY <1>1 DEF Accumulated, From, Put, KeyOf, PartialOf, Known

\* The calls the server told of are typed.
LEMMA AsMeantTyped == MeantOK => PartsTyped(AsMeant)
BY DEF MeantOK, AsMeant, PartsTyped, Entry

\* A line that is written is one of the lines.
LEMMA LinesLonger ==
  ASSUME LinesOK, NEW l \in LineType, lines' = Append(lines, l)
  PROVE  /\ lines' \in Seq(LineType) /\ Len(lines') = Len(lines) + 1
         /\ DOMAIN lines = 1..Len(lines) /\ DOMAIN lines' = 1..Len(lines) + 1 /\ Len(lines) \in Nat
         /\ lines'[Len(lines) + 1] = l /\ \A i \in 1..Len(lines) : lines'[i] = lines[i]
BY DEF LinesOK

\* The server writes a line, and what it means by it.
LEMMA WriteKeeps ==
  ASSUME StreamInv, NEW kind \in Kinds, NEW entries \in Seq(EntryType), Write(kind, entries), MeantOK',
         Wrote("finish") => kind \in {"other", "DONE"},
         kind = "text" => ~Wrote("text"),
         AsMeant' = IF kind = "calls" THEN From(dialect, AsMeant, entries) ELSE AsMeant
  PROVE  StreamInv'
<1> DEFINE N == Len(lines)
           size == IF kind = "calls" THEN 2 ELSE 1
           l == Line(kind, size, entries)
<1>1. /\ ~sent /\ outcome = "none" /\ lines' = Append(lines, l)
      /\ wire' = wire \o Append(Cells(N + 1, size), Newline)
      /\ UNCHANGED <<dialect, sent, buffer, total, handled, parts, text, finished, outcome, turn>>
  BY DEF Write, reader
<1>2. l \in LineType /\ l.kind = kind /\ l.size = size /\ l.entries = entries
  BY DEF Line, LineType
<1>3. LinesOK /\ MeantOK /\ PlaceOK /\ PartsOK /\ TextOK /\ FinishedOK
  BY DEF StreamInv
<1> HIDE DEF l, size
<1>4. PlaceOK' /\ LinesRead = 0 /\ LinesRead' = 0
  BY <1>1, <1>2, <1>3, WritePlace
<1>5. /\ lines' \in Seq(LineType) /\ Len(lines') = N + 1
      /\ DOMAIN lines = 1..N /\ DOMAIN lines' = 1..N + 1 /\ N \in Nat
      /\ lines'[N + 1] = l /\ \A i \in 1..N : lines'[i] = lines[i]
  BY <1>1, <1>2, <1>3, LinesLonger
<1> HIDE DEF N
<1>6. \A i \in 1..N + 1 : i = N + 1 \/ i \in 1..N
  BY <1>5
<1>7. LinesOK'
  <2>1. ASSUME NEW i \in 1..N + 1, NEW j \in 1..N + 1, lines'[i].kind = "finish", i < j
        PROVE  lines'[j].kind \in {"other", "DONE"}
    <3>1. i \in 1..N /\ lines[i].kind = "finish"
      BY <1>5, <2>1
    <3>2. Wrote("finish")
      BY <1>5, <3>1 DEF Wrote
    <3>3. CASE j = N + 1
      BY <1>2, <1>5, <3>2, <3>3
    <3>4. CASE j \in 1..N
      BY <1>3, <1>5, <2>1, <3>1, <3>4 DEF LinesOK
    <3>. QED
      BY <1>6, <3>3, <3>4
  <2>2. ASSUME NEW i \in 1..N + 1, NEW j \in 1..N + 1, lines'[i].kind = "text", lines'[j].kind = "text"
        PROVE  i = j
    <3>1. ASSUME NEW k \in 1..N, lines'[k].kind = "text"
          PROVE  kind # "text"
      BY <1>5, <3>1 DEF Wrote
    <3>2. lines'[N + 1].kind = kind
      BY <1>2, <1>5
    <3>3. CASE i \in 1..N /\ j \in 1..N
      BY <1>3, <1>5, <2>2, <3>3 DEF LinesOK
    <3>4. CASE i \in 1..N /\ j = N + 1
      BY <2>2, <3>1, <3>2, <3>4
    <3>5. CASE i = N + 1 /\ j \in 1..N
      BY <2>2, <3>1, <3>2, <3>5
    <3>. QED
      BY <1>6, <3>3, <3>4, <3>5
  <2>3. dialect' \in Dialects
    BY <1>1, <1>3 DEF LinesOK
  <2>. QED
    BY <1>5, <2>1, <2>2, <2>3 DEF LinesOK
<1>8. PartsOK'
  <2>1. PICK P : KnownAfter(P) /\ parts = P[0]
    BY <1>3, <1>4 DEF PartsOK
  <2>2. PICK Q : Q[N + 1] = AsMeant' /\ \A i \in 0..N : Q[i] = P[i]
    <3> DEFINE R == [i \in 0..N + 1 |-> IF i = N + 1 THEN AsMeant' ELSE P[i]]
    <3>1. R[N + 1] = AsMeant' /\ \A i \in 0..N : R[i] = P[i]
      BY <1>5
    <3> HIDE DEF R
    <3>. QED
      BY <3>1
  <2>3. /\ P[0] = <<>>
        /\ \A i \in 1..N : P[i] = IF lines[i].kind = "calls" THEN From(dialect, P[i - 1], lines[i].entries) ELSE P[i - 1]
        /\ P[N] = AsMeant
        /\ \A i \in 0..N : PartsTyped(P[i])
        /\ \A i \in 1..N : lines[i].kind = "finish" => \A j \in i..N : P[j] = AsMeant
    BY <1>5, <2>1 DEF KnownAfter, N
  <2>4. Q[0] = <<>>
    BY <1>5, <2>2, <2>3
  <2>5. ASSUME NEW i \in 1..N + 1
        PROVE  Q[i] = IF lines'[i].kind = "calls" THEN From(dialect', Q[i - 1], lines'[i].entries) ELSE Q[i - 1]
    <3>1. CASE i = N + 1
      <4>1. Q[i - 1] = AsMeant
        <5>1. i - 1 = N /\ N \in 0..N
          BY <1>5, <3>1
        <5>. QED
          BY <2>2, <2>3, <5>1
      <4>2. lines'[i] = l /\ Q[i] = AsMeant' /\ dialect' = dialect
        BY <1>1, <1>5, <2>2, <3>1
      <4>. QED
        BY <1>2, <4>1, <4>2
    <3>2. CASE i \in 1..N
      <4>1. i \in 0..N /\ i - 1 \in 0..N
        BY <1>5, <3>2
      <4>2. Q[i] = P[i] /\ Q[i - 1] = P[i - 1] /\ lines'[i] = lines[i] /\ dialect' = dialect
        BY <1>1, <1>5, <2>2, <3>2, <4>1
      <4>. QED
        BY <2>3, <3>2, <4>2
    <3>. QED
      BY <1>6, <3>1, <3>2
  <2>6. ASSUME NEW i \in 0..N + 1
        PROVE  PartsTyped(Q[i])
    <3>1. PartsTyped(AsMeant')
      BY AsMeantTyped DEF MeantOK, AsMeant, PartsTyped, Entry
    <3>2. i = N + 1 \/ i \in 0..N
      BY <1>5
    <3>. QED
      BY <2>2, <2>3, <3>1, <3>2
  <2>7. ASSUME NEW i \in 1..N + 1, lines'[i].kind = "finish", NEW j \in i..N + 1
        PROVE  Q[j] = AsMeant'
    <3>1. CASE j = N + 1
      BY <2>2, <3>1
    <3>2. CASE j # N + 1
      <4>1. i \in 1..N /\ j \in i..N /\ j \in 0..N
        BY <1>5, <3>2
      <4>2. lines[i].kind = "finish"
        BY <1>5, <2>7, <4>1
      <4>3. Wrote("finish")
        BY <1>5, <4>1, <4>2 DEF Wrote
      <4>4. AsMeant' = AsMeant
        BY <4>3
      <4>. QED
        BY <2>2, <2>3, <4>1, <4>2, <4>4
    <3>. QED
      BY <3>1, <3>2
  <2>8. KnownAfter(Q)'
    <3>1. Q[Len(lines')] = AsMeant'
      BY <1>5, <2>2
    <3>. QED
      BY <1>5, <2>4, <2>5, <2>6, <2>7, <3>1 DEF KnownAfter
  <2>9. parts' = Q[LinesRead']
    BY <1>1, <1>4, <2>1, <2>3, <2>4
  <2>. QED
    BY <2>8, <2>9 DEF PartsOK
<1>9. TextOK'
  <2>1. text \in Seq(1..N) /\ IsInjective(text) /\ ToSet(text) = {}
    <3>1. {i \in 1..0 : lines[i].kind = "text"} = {}
      OBVIOUS
    <3>. QED
      BY <1>3, <1>4, <1>5, <3>1 DEF TextOK
  <2>2. text \in Seq(1..N + 1)
    <3>1. 1..N \subseteq 1..N + 1
      BY <1>5
    <3> DEFINE A == 1..N
               B == 1..N + 1
    <3>2. text \in Seq(A) /\ A \subseteq B
      BY <2>1, <3>1
    <3> HIDE DEF A, B
    <3>3. text \in Seq(B)
      BY <3>2
    <3>. QED
      BY <3>3 DEF B
  <2>3. {i \in 1..0 : lines'[i].kind = "text"} = {}
    OBVIOUS
  <2>. QED
    BY <1>1, <1>4, <1>5, <2>1, <2>2, <2>3 DEF TextOK
<1>10. FinishedOK'
  BY <1>1, <1>3, <1>4 DEF FinishedOK
<1>11. TurnOK'
  BY <1>1 DEF TurnOK, Delivered
<1>. QED
  BY <1>4, <1>7, <1>8, <1>9, <1>10, <1>11 DEF StreamInv

-----------------------------------------------------------------------------
(* The server *)

\* Two fragments, one after the other
LEMMA TwoTexts ==
  ASSUME NEW S, NEW f \in S, NEW g \in S
  PROVE  <<f>> \o <<g>> = <<f, g>>
<1> DEFINE a == <<f>>
           b == <<g>>
           c == <<f, g>>
<1>1. /\ a \in Seq(S) /\ b \in Seq(S) /\ c \in Seq(S) /\ Len(a) = 1 /\ Len(b) = 1 /\ Len(c) = 2
      /\ a[1] = f /\ b[1] = g /\ c[1] = f /\ c[2] = g
  OBVIOUS
<1> HIDE DEF a, b, c
<1>2. a \o b \in Seq(S) /\ Len(a \o b) = 2 /\ (a \o b)[1] = f /\ (a \o b)[2] = g
  BY <1>1
<1> DEFINE d == a \o b
<1>3. \A i \in 1..Len(d) : i = 1 \/ i = 2
  BY <1>2
<1> HIDE DEF d
<1>4. \A i \in 1..Len(d) : d[i] = c[i]
  BY <1>1, <1>2, <1>3 DEF d
<1>5. d = c
  <2>1. d \in Seq(S) /\ Len(d) = Len(c)
    BY <1>1, <1>2 DEF d
  <2>. QED
    BY <1>1, <1>4, <2>1, SeqEqual
<1>. QED
  BY <1>5 DEF a, b, c, d

\* A call in two fragments
LEMMA FragmentsAre ==
  ASSUME NEW c \in Nat
  PROVE  LET f1 == [call |-> c, n |-> 1]
             f2 == [call |-> c, n |-> 2] IN
         /\ Fragments(c) = <<f1, f2>> /\ SubSeq(Fragments(c), 1, 1) = <<f1>>
         /\ f1 \in [call : Nat, n : Nat] /\ f2 \in [call : Nat, n : Nat]
         /\ Fragments(c) \in Seq([call : Nat, n : Nat]) /\ <<f1>> \in Seq([call : Nat, n : Nat])
<1> DEFINE f1 == [call |-> c, n |-> 1]
           f2 == [call |-> c, n |-> 2]
           F == [call : Nat, n : Nat]
<1>1. f1 \in F /\ f2 \in F
  OBVIOUS
<1>2. Fragments(c) = <<f1, f2>>
  BY DEF Fragments
<1> HIDE DEF f1, f2, F
<1>3. <<f1, f2>> \in Seq(F) /\ <<f1>> \in Seq(F)
  BY <1>1
<1>4. SubSeq(<<f1, f2>>, 1, 1) = <<f1>>
  <2> DEFINE q == <<f1, f2>>
             p == SubSeq(q, 1, 1)
  <2>1. q \in Seq(F) /\ Len(q) = 2 /\ q[1] = f1
    BY <1>1
  <2> HIDE DEF q
  <2>2. p \in Seq(F) /\ Len(p) = 1 /\ \A i \in 1..Len(p) : p[i] = q[1 + i - 1]
    <3>1. 1 \in Nat /\ 1 # 0 /\ 1 <= Len(q)
      BY <2>1
    <3>2. Len(p) = IF 1 <= 1 THEN 1 - 1 + 1 ELSE 0
      BY <2>1, <3>1, Cut
    <3>. QED
      BY <2>1, <3>1, <3>2, Cut
  <2> HIDE DEF p
  <2>3. p[1] = f1
    <3>1. p[1] = q[1 + 1 - 1] /\ 1 + 1 - 1 = 1
      BY <2>2
    <3>. QED
      BY <2>1, <3>1
  <2>4. p = <<f1>>
    BY <2>2, <2>3
  <2>. QED
    BY <2>4 DEF p, q
<1>. QED
  BY <1>1, <1>2, <1>3, <1>4 DEF f1, f2, F

\* What the fragments of a call are so far are arguments.
LEMMA ArgsTyped ==
  ASSUME NEW c \in Nat
  PROVE  ArgsSoFar(c) \subseteq ArgText
<1>1. <<>> \in Seq([call : Nat, n : Nat])
  OBVIOUS
<1>. QED
  BY <1>1, FragmentsAre DEF ArgsSoFar, ArgText

\* What an entry adds, field by field.
LEMMA JoinedIs ==
  ASSUME NEW d, NEW old, NEW e, NEW k, NEW i, NEW n, NEW a,
         old = [key |-> k, id |-> i, name |-> n, args |-> a]
  PROVE  Joined(d, old, e) =
           [key |-> k,
            id |-> IF e.id = None \/ (d = "ollama" /\ i # None) THEN i ELSE e.id,
            name |-> IF e.name # None THEN e.name ELSE n,
            args |-> ArgsOf(old, e)]
<1> DEFINE x == IF e.id = None \/ (d = "ollama" /\ old.id # None) THEN old.id ELSE e.id
           y == IF e.name # None THEN e.name ELSE old.name
           z == ArgsOf(old, e)
           r == [old EXCEPT !.id = x, !.name = y, !.args = z]
<1>1. Joined(d, old, e) = r
  BY DEF Joined
<1>2. old.id = i /\ old.name = n
  OBVIOUS
<1>3. r = [key |-> k, id |-> x, name |-> y, args |-> z]
  <2> HIDE DEF x, y, z
  <2>1. DOMAIN r = {"key", "id", "name", "args"}
    OBVIOUS
  <2>2. r.key = k /\ r.id = x /\ r.name = y /\ r.args = z
    OBVIOUS
  <2>3. r = [f \in DOMAIN r |-> r[f]]
    OBVIOUS
  <2> HIDE DEF r
  <2>4. r = [key |-> r.key, id |-> r.id, name |-> r.name, args |-> r.args]
    BY <2>1, <2>3
  <2>. QED
    BY <2>2, <2>4
<1>. QED
  BY <1>1, <1>2, <1>3

\* A call that was not known is known as the entry says.
LEMMA JoinedNew ==
  ASSUME TransportAssumption, NEW d, NEW key, NEW id, NEW name \in Nat, NEW args \in ArgText
  PROVE  Joined(d, New, Entry(key, id, name, args)) = Entry(None, id, name, args)
<1> DEFINE e == Entry(key, id, name, args)
<1>1. New = [key |-> None, id |-> None, name |-> None, args |-> <<>>] /\ e = [key |-> key, id |-> id, name |-> name, args |-> args]
  BY DEF New, Entry
<1>2. ArgsOf(New, e) = args
  <2>1. Mapping # <<>>
    <3>1. <<>> \in Seq([call : Nat, n : Nat])
      OBVIOUS
    <3>. QED
      BY <3>1 DEF TransportAssumption
  <2>2. e.args = args /\ New.args = <<>>
    BY <1>1
  <2>3. args # Mapping => <<>> \o args = args
    BY DEF ArgText
  <2>. QED
    BY <2>1, <2>2, <2>3 DEF ArgsOf
<1>3. name # None
  BY DEF TransportAssumption
<1>5. e.id = id /\ e.name = name
  BY <1>1
<1> HIDE DEF e
<1>4. Joined(d, New, e) = [key |-> None, id |-> id, name |-> name, args |-> args]
  <2>1. Joined(d, New, e) =
          [key |-> None,
           id |-> IF e.id = None \/ (d = "ollama" /\ None # None) THEN None ELSE e.id,
           name |-> IF e.name # None THEN e.name ELSE None,
           args |-> ArgsOf(New, e)]
    BY <1>1, JoinedIs
  <2>2. (IF e.id = None \/ (d = "ollama" /\ None # None) THEN None ELSE e.id) = id
    BY <1>5
  <2>3. (IF e.name # None THEN e.name ELSE None) = name
    BY <1>3, <1>5
  <2>. QED
    BY <1>2, <2>1, <2>2, <2>3
<1>. QED
  BY <1>4 DEF e, Entry

\* The empty line, and those that are none of a call
LEMMA FinishesKeeps ==
  ASSUME StreamInv, Finishes
  PROVE  StreamInv'
<1>1. <<>> \in Seq(EntryType)
  OBVIOUS
<1>2. MeantOK /\ meant' = meant
  BY DEF StreamInv, Finishes
<1>3. ASSUME NEW kind, Write(kind, <<>>)
      PROVE  MeantOK' /\ AsMeant' = AsMeant
  BY <1>2, <1>3 DEF MeantOK, AsMeant, Write
<1>4. CASE ~Wrote("finish") /\ Write("finish", <<>>)
  <2>1. "finish" \in Kinds
    BY DEF Kinds
  <2>. QED
    BY <1>1, <1>3, <1>4, <2>1, WriteKeeps
<1>5. CASE dialect = "openai" /\ Wrote("finish") /\ ~Wrote("DONE") /\ \E kind \in {"other", "DONE"} : ~Wrote(kind) /\ Write(kind, <<>>)
  <2>1. PICK kind \in {"other", "DONE"} : Write(kind, <<>>)
    BY <1>5
  <2>2. kind \in Kinds /\ kind # "text" /\ kind # "calls"
    BY DEF Kinds
  <2>. QED
    BY <1>1, <1>3, <2>1, <2>2, WriteKeeps
<1>. QED
  BY <1>4, <1>5 DEF Finishes

\* The server writes text, noise or an error.
LEMMA WritesOtherKeeps ==
  ASSUME StreamInv, WritesOther
  PROVE  StreamInv'
<1>1. <<>> \in Seq(EntryType)
  OBVIOUS
<1>2. MeantOK /\ meant' = meant /\ ~Wrote("finish")
  BY DEF StreamInv, WritesOther
<1>3. PICK kind \in {"text", "bad", "other"} : ~Wrote(kind) /\ Write(kind, <<>>)
  BY DEF WritesOther
<1>4. MeantOK' /\ AsMeant' = AsMeant
  BY <1>2, <1>3 DEF MeantOK, AsMeant, Write
<1>5. kind \in Kinds /\ kind # "calls"
  BY DEF Kinds
<1>. QED
  BY <1>1, <1>2, <1>3, <1>4, <1>5, WriteKeeps

\* A call begins.
LEMMA BeginsCallKeeps ==
  ASSUME TransportAssumption, StreamInv, BeginsCall
  PROVE  StreamInv'
<1>1. ~Wrote("finish") /\ LinesOK /\ MeantOK
  BY DEF BeginsCall, StreamInv
<1>2. PICK c \in 1..MaxCalls, id \in {<<"a">>, None} :
        \E args \in {<<>>, SubSeq(Fragments(c), 1, 1), Mapping} :
          /\ NextCall(c)
          /\ meant' = [k \in DOMAIN meant \cup {c} |-> IF k = c THEN Meant(id, args) ELSE meant[k]]
          /\ Write("calls", <<Entry(c, id, c, args)>>)
  BY DEF BeginsCall
<1>3. PICK args \in {<<>>, SubSeq(Fragments(c), 1, 1), Mapping} :
        /\ NextCall(c)
        /\ meant' = [k \in DOMAIN meant \cup {c} |-> IF k = c THEN Meant(id, args) ELSE meant[k]]
        /\ Write("calls", <<Entry(c, id, c, args)>>)
  BY <1>2
<1> DEFINE e == Entry(c, id, c, args)
<1>4. c \in Nat /\ c \in Calls /\ c # None
  BY DEF TransportAssumption, Calls
<1>5. args \in ArgsSoFar(c) /\ args \in ArgText
  <2>1. args \in ArgsSoFar(c)
    BY DEF ArgsSoFar
  <2>. QED
    BY <1>4, <2>1, ArgsTyped
<1>6. id \in Ids \cup {None}
  BY DEF Ids
<1>7. e \in EntryType /\ <<e>> \in Seq(EntryType)
  <2>1. e \in EntryType
    BY <1>4, <1>5, <1>6 DEF Entry, EntryType
  <2> HIDE DEF e
  <2>. QED
    BY <2>1
<1>8. c \notin DOMAIN meant /\ (dialect = "openai" \/ Cardinality(DOMAIN meant) = c - 1) /\ dialect' = dialect
  BY <1>3 DEF NextCall, Write
<1>9. MeantOK'
  <2>1. DOMAIN meant' = DOMAIN meant \cup {c}
    BY <1>3
  <2>2. meant'[c] = Meant(id, args) /\ \A k \in DOMAIN meant : meant'[k] = meant[k]
    BY <1>3, <1>8
  <2>3. Meant(id, args) \in [id : Ids \cup {None}, args : ArgText] /\ Meant(id, args).args \in ArgsSoFar(c)
    BY <1>5, <1>6 DEF Meant
  <2>4. meant' = [k \in DOMAIN meant' |-> meant'[k]]
    BY <1>3
  <2>5. ASSUME dialect = "ollama"
        PROVE  DOMAIN meant' = 1..Cardinality(DOMAIN meant')
    <3>1. DOMAIN meant = 1..c - 1
      BY <1>1, <1>8, <2>5 DEF MeantOK
    <3>2. DOMAIN meant' = 1..c
      BY <1>4, <2>1, <3>1
    <3>3. Cardinality(1..c) = c
      BY <1>4, UpTo
    <3>. QED
      BY <3>2, <3>3
  <2>6. \A k \in DOMAIN meant' : meant'[k] \in [id : Ids \cup {None}, args : ArgText] /\ meant'[k].args \in ArgsSoFar(k)
    BY <1>1, <2>1, <2>2, <2>3 DEF MeantOK
  <2>7. DOMAIN meant' \subseteq Calls
    BY <1>1, <1>4, <2>1 DEF MeantOK
  <2>. QED
    BY <1>8, <2>4, <2>5, <2>6, <2>7 DEF MeantOK
<1>10. AsMeant' = From(dialect, AsMeant, <<e>>)
  <2> DEFINE n == Cardinality(DOMAIN AsMeant)
             key == IF dialect = "ollama" THEN (IF e.name # None \/ n = 0 THEN n + 1 ELSE n) ELSE BuilderOf(e, 1)
             x == Joined(dialect, IF key \in DOMAIN AsMeant THEN AsMeant[key] ELSE New, e)
             R == [k \in DOMAIN AsMeant \cup {key} |-> IF k = key THEN x ELSE AsMeant[k]]
  <2>1. DOMAIN AsMeant = DOMAIN meant /\ \A k \in DOMAIN meant : AsMeant[k] = Entry(None, meant[k].id, k, meant[k].args)
    BY DEF AsMeant
  <2>2. Len(<<e>>) = 1 /\ <<e>>[1] = e
    OBVIOUS
  <2>3. From(dialect, AsMeant, <<e>>) = R
    <3> HIDE DEF e
    <3>. QED
      BY <2>2 DEF From
  <2>4. e.name = c /\ e.key = c
    BY DEF Entry
  <2>5. key = c
    <3>1. CASE dialect = "ollama"
      <4>1. n = c - 1
        BY <1>8, <2>1, <3>1
      <4>. QED
        BY <1>4, <2>4, <3>1, <4>1
    <3>2. CASE dialect # "ollama"
      BY <1>4, <2>4, <3>2 DEF BuilderOf
    <3>. QED
      BY <3>1, <3>2
  <2>6. x = Entry(None, id, c, args)
    <3>1. x = Joined(dialect, New, e)
      BY <1>8, <2>1, <2>5
    <3>. QED
      BY <1>4, <1>5, <3>1, JoinedNew
  <2> HIDE DEF x, key, n
  <2>7. R = [k \in DOMAIN meant \cup {c} |-> IF k = c THEN Entry(None, id, c, args) ELSE AsMeant[k]]
    BY <2>1, <2>5, <2>6
  <2>8. DOMAIN meant' = DOMAIN meant \cup {c}
    BY <1>3
  <2>9. ASSUME NEW k \in DOMAIN meant \cup {c}
        PROVE  Entry(None, meant'[k].id, k, meant'[k].args) = IF k = c THEN Entry(None, id, c, args) ELSE AsMeant[k]
    <3>1. CASE k = c
      <4>1. meant'[k] = Meant(id, args)
        BY <1>3, <3>1
      <4>2. meant'[k].id = id /\ meant'[k].args = args
        BY <4>1 DEF Meant
      <4>. QED
        BY <3>1, <4>2
    <3>2. CASE k # c
      <4>1. meant'[k] = meant[k] /\ k \in DOMAIN meant
        BY <1>3, <3>2
      <4>. QED
        BY <2>1, <3>2, <4>1
    <3>. QED
      BY <3>1, <3>2
  <2>10. AsMeant' = [k \in DOMAIN meant \cup {c} |-> Entry(None, meant'[k].id, k, meant'[k].args)]
    BY <2>8 DEF AsMeant
  <2>. QED
    BY <2>3, <2>7, <2>9, <2>10
<1>11. "calls" \in Kinds
  BY DEF Kinds
<1> HIDE DEF e
<1>. QED
  BY <1>1, <1>3, <1>7, <1>9, <1>10, <1>11, WriteKeeps DEF e

\* The arguments of a call go on.
LEMMA ContinuesCallKeeps ==
  ASSUME TransportAssumption, StreamInv, ContinuesCall
  PROVE  StreamInv'
<1>1. ~Wrote("finish") /\ LinesOK /\ MeantOK
  BY DEF ContinuesCall, StreamInv
<1>2. PICK c \in DOMAIN meant :
        /\ dialect = "ollama" => c = Cardinality(DOMAIN meant)
        /\ meant[c].args # Mapping /\ Len(meant[c].args) < 2
        /\ LET next == <<Fragments(c)[Len(meant[c].args) + 1]>> IN
             /\ meant' = [meant EXCEPT ![c].args = @ \o next]
             /\ \E id \in {None, meant[c].id} : Write("calls", <<Entry(c, id, None, next)>>)
  BY DEF ContinuesCall
<1> DEFINE old == meant[c].args
           next == <<Fragments(c)[Len(old) + 1]>>
<1>3. PICK id \in {None, meant[c].id} : Write("calls", <<Entry(c, id, None, next)>>)
  BY <1>2
<1> DEFINE e == Entry(c, id, None, next)
<1>4. c \in Nat /\ c \in Calls /\ c # None /\ DOMAIN meant \subseteq Calls
  BY <1>1 DEF TransportAssumption, Calls, MeantOK
<1>5. meant[c] \in [id : Ids \cup {None}, args : ArgText] /\ old \in ArgsSoFar(c)
  BY <1>1 DEF MeantOK
<1>6. /\ next \in ArgText /\ old \o next \in ArgText /\ old \o next \in ArgsSoFar(c)
      /\ Mapping # next /\ Mapping # old
  <2> DEFINE f1 == [call |-> c, n |-> 1]
             f2 == [call |-> c, n |-> 2]
             F == [call : Nat, n : Nat]
  <2>1. /\ Fragments(c) = <<f1, f2>> /\ SubSeq(Fragments(c), 1, 1) = <<f1>> /\ f1 \in F /\ f2 \in F
        /\ Fragments(c) \in Seq(F) /\ <<f1>> \in Seq(F)
    BY <1>4, FragmentsAre
  <2>2. old \in {<<>>, <<f1>>, <<f1, f2>>} /\ Len(old) < 2
    BY <1>2, <1>5, <2>1 DEF ArgsSoFar
  <2> HIDE DEF f1, f2, F, old
  <2>3. CASE old = <<>>
    <3>1. next = <<f1>> /\ old \o next = <<f1>>
      BY <2>1, <2>3
    <3>. QED
      BY <1>2, <2>1, <3>1 DEF ArgText, ArgsSoFar, TransportAssumption, F, old
  <2>4. CASE old = <<f1>>
    <3>1. Len(old) = 1
      BY <2>4
    <3>2. next = <<f2>>
      BY <2>1, <3>1
    <3>3. <<f2>> \in Seq(F)
      BY <2>1
    <3>4. old \o next = <<f1, f2>>
      <4>2. <<f1>> \o <<f2>> = <<f1, f2>>
        BY <2>1, TwoTexts
      <4>. QED
        BY <2>4, <3>2, <4>2
    <3>. QED
      BY <1>2, <2>1, <3>2, <3>3, <3>4 DEF ArgText, ArgsSoFar, TransportAssumption, F, old
  <2>5. old # <<f1, f2>>
    <3>1. Len(<<f1, f2>>) = 2 /\ ~(2 < 2)
      OBVIOUS
    <3>. QED
      BY <2>2, <3>1
  <2>. QED
    BY <2>2, <2>3, <2>4, <2>5
<1>7. id \in Ids \cup {None}
  BY <1>5
<1> HIDE DEF next, old
<1>8. e \in EntryType /\ <<e>> \in Seq(EntryType)
  <2>1. e \in EntryType
    BY <1>4, <1>6, <1>7 DEF Entry, EntryType
  <2> HIDE DEF e
  <2>. QED
    BY <2>1
<1>9. /\ meant' = [meant EXCEPT ![c].args = @ \o next] /\ dialect' = dialect
      /\ dialect = "ollama" => c = Cardinality(DOMAIN meant)
  BY <1>2, <1>3 DEF Write, next, old
<1>10. /\ DOMAIN meant' = DOMAIN meant
       /\ meant'[c].id = meant[c].id /\ meant'[c].args = old \o next
       /\ meant'[c] \in [id : Ids \cup {None}, args : ArgText]
       /\ \A k \in DOMAIN meant : k # c => meant'[k] = meant[k]
       /\ meant' = [k \in DOMAIN meant' |-> meant'[k]]
  <2>1. DOMAIN meant' = DOMAIN meant /\ meant' = [k \in DOMAIN meant' |-> meant'[k]]
    BY <1>9
  <2>2. meant'[c] = [meant[c] EXCEPT !.args = @ \o next] /\ \A k \in DOMAIN meant : k # c => meant'[k] = meant[k]
    BY <1>9
  <2>3. meant'[c] = [meant[c] EXCEPT !.args = old \o next]
    BY <2>2 DEF old
  <2>. QED
    BY <1>5, <1>6, <2>1, <2>2, <2>3
<1>11. MeantOK'
  <2>1. \A k \in DOMAIN meant' : meant'[k] \in [id : Ids \cup {None}, args : ArgText] /\ meant'[k].args \in ArgsSoFar(k)
    BY <1>1, <1>6, <1>10 DEF MeantOK
  <2>. QED
    BY <1>1, <1>9, <1>10, <2>1 DEF MeantOK
<1>12. AsMeant' = From(dialect, AsMeant, <<e>>)
  <2> DEFINE n == Cardinality(DOMAIN AsMeant)
             key == IF dialect = "ollama" THEN (IF e.name # None \/ n = 0 THEN n + 1 ELSE n) ELSE BuilderOf(e, 1)
             x == Joined(dialect, IF key \in DOMAIN AsMeant THEN AsMeant[key] ELSE New, e)
             R == [k \in DOMAIN AsMeant \cup {key} |-> IF k = key THEN x ELSE AsMeant[k]]
  <2>1. DOMAIN AsMeant = DOMAIN meant /\ \A k \in DOMAIN meant : AsMeant[k] = Entry(None, meant[k].id, k, meant[k].args)
    BY DEF AsMeant
  <2>2. Len(<<e>>) = 1 /\ <<e>>[1] = e
    OBVIOUS
  <2>3. From(dialect, AsMeant, <<e>>) = R
    <3> HIDE DEF e
    <3>. QED
      BY <2>2 DEF From
  <2>4. e.name = None /\ e.key = c /\ e.id = id /\ e.args = next
    BY DEF Entry
  <2>5. key = c
    <3>1. CASE dialect = "ollama"
      <4>1. n = c /\ c # 0
        <5>1. DOMAIN meant = 1..c
          BY <1>1, <1>9, <3>1 DEF MeantOK
        <5>2. c \in 1..c
          BY <5>1
        <5>. QED
          BY <1>4, <1>9, <2>1, <3>1, <5>2
      <4>. QED
        BY <1>4, <2>4, <3>1, <4>1
    <3>2. CASE dialect # "ollama"
      BY <1>4, <2>4, <3>2 DEF BuilderOf
    <3>. QED
      BY <3>1, <3>2
  <2>6. x = Entry(None, meant[c].id, c, old \o next)
    <3>1. x = Joined(dialect, AsMeant[c], e)
      BY <2>1, <2>5
    <3>2. AsMeant[c] = [key |-> None, id |-> meant[c].id, name |-> c, args |-> old]
      BY <2>1 DEF Entry, old
    <3>3. ArgsOf(AsMeant[c], e) = old \o next
      BY <1>6, <2>4, <3>2 DEF ArgsOf
    <3>4. (IF e.id = None \/ (dialect = "ollama" /\ AsMeant[c].id # None) THEN AsMeant[c].id ELSE e.id) = meant[c].id
      BY <1>3, <2>4, <3>2
    <3>6. AsMeant[c].id = meant[c].id
      BY <3>2
    <3> HIDE DEF e
    <3>5. Joined(dialect, AsMeant[c], e) = [key |-> None, id |-> meant[c].id, name |-> c, args |-> old \o next]
      <4>1. Joined(dialect, AsMeant[c], e) =
              [key |-> None,
               id |-> IF e.id = None \/ (dialect = "ollama" /\ meant[c].id # None) THEN meant[c].id ELSE e.id,
               name |-> IF e.name # None THEN e.name ELSE c,
               args |-> ArgsOf(AsMeant[c], e)]
        BY <3>2, JoinedIs
      <4>2. (IF e.id = None \/ (dialect = "ollama" /\ meant[c].id # None) THEN meant[c].id ELSE e.id) = meant[c].id
        BY <3>4, <3>6
      <4>. QED
        BY <2>4, <3>3, <4>1, <4>2
    <3>. QED
      BY <3>1, <3>5 DEF Entry
  <2> HIDE DEF x, key, n
  <2>7. R = [k \in DOMAIN meant |-> IF k = c THEN Entry(None, meant[c].id, c, old \o next) ELSE AsMeant[k]]
    <3>1. DOMAIN AsMeant \cup {key} = DOMAIN meant
      BY <2>1, <2>5
    <3>. QED
      BY <2>5, <2>6, <3>1
  <2>9. ASSUME NEW k \in DOMAIN meant
        PROVE  Entry(None, meant'[k].id, k, meant'[k].args) = IF k = c THEN Entry(None, meant[c].id, c, old \o next) ELSE AsMeant[k]
    BY <1>10, <2>1
  <2>10. AsMeant' = [k \in DOMAIN meant |-> Entry(None, meant'[k].id, k, meant'[k].args)]
    BY <1>10 DEF AsMeant
  <2>. QED
    BY <2>3, <2>7, <2>9, <2>10
<1>13. "calls" \in Kinds
  BY DEF Kinds
<1>14. Write("calls", <<e>>)
  BY <1>3
<1> HIDE DEF e
<1>. QED
  BY <1>1, <1>8, <1>11, <1>12, <1>13, <1>14, WriteKeeps

\* All calls of a turn are told of at once.
LEMMA WritesCallsKeeps ==
  ASSUME TransportAssumption, StreamInv, WritesCalls
  PROVE  StreamInv'
<1>1. ~Wrote("finish") /\ LinesOK /\ MeantOK /\ meant = <<>>
  BY DEF WritesCalls, StreamInv
<1>2. PICK ids \in [1..AtOnce -> Ids \cup {None}] :
        /\ meant' = [c \in 1..AtOnce |-> Meant(ids[c], Fragments(c))]
        /\ Write("calls", [c \in 1..AtOnce |-> Entry(None, ids[c], c, Fragments(c))])
  BY DEF WritesCalls
<1> DEFINE es == [c \in 1..AtOnce |-> Entry(None, ids[c], c, Fragments(c))]
<1>3. AtOnce \in Nat /\ \A c \in 1..AtOnce : c \in Nat /\ c \in Calls /\ c # None
  BY DEF TransportAssumption, Calls
<1>4. \A c \in 1..AtOnce : Fragments(c) \in ArgsSoFar(c) /\ Fragments(c) \in ArgText
  <2>1. \A c \in 1..AtOnce : Fragments(c) \in ArgsSoFar(c)
    BY DEF ArgsSoFar
  <2>. QED
    BY <1>3, <2>1, ArgsTyped
<1>5. es \in Seq(EntryType) /\ Len(es) = AtOnce /\ \A c \in 1..AtOnce : es[c] = Entry(None, ids[c], c, Fragments(c))
  <2>1. \A c \in 1..AtOnce : Entry(None, ids[c], c, Fragments(c)) \in EntryType
    BY <1>3, <1>4 DEF Entry, EntryType
  <2>2. es \in [1..AtOnce -> EntryType] /\ \A c \in 1..AtOnce : es[c] = Entry(None, ids[c], c, Fragments(c))
    BY <2>1
  <2> HIDE DEF es
  <2>. QED
    BY <1>3, <2>2
<1>6. MeantOK'
  <2>1. DOMAIN meant' = 1..AtOnce /\ meant' = [k \in DOMAIN meant' |-> meant'[k]] /\ \A c \in 1..AtOnce : meant'[c] = Meant(ids[c], Fragments(c))
    BY <1>2
  <2>2. \A c \in 1..AtOnce : Meant(ids[c], Fragments(c)) \in [id : Ids \cup {None}, args : ArgText] /\ Meant(ids[c], Fragments(c)).args = Fragments(c)
    BY <1>4 DEF Meant
  <2>3. DOMAIN meant' \subseteq Calls
    BY <1>3, <2>1
  <2>4. Cardinality(1..AtOnce) = AtOnce
    BY <1>3, UpTo
  <2>5. \A c \in DOMAIN meant' : meant'[c] \in [id : Ids \cup {None}, args : ArgText] /\ meant'[c].args \in ArgsSoFar(c)
    BY <1>4, <2>1, <2>2
  <2>. QED
    BY <2>1, <2>3, <2>4, <2>5 DEF MeantOK
<1>7. AsMeant' = [c \in 1..AtOnce |-> Entry(None, ids[c], c, Fragments(c))]
  <2>1. DOMAIN meant' = 1..AtOnce /\ \A c \in 1..AtOnce : meant'[c].id = ids[c] /\ meant'[c].args = Fragments(c)
    BY <1>2 DEF Meant
  <2>2. AsMeant' = [c \in 1..AtOnce |-> Entry(None, meant'[c].id, c, meant'[c].args)]
    BY <2>1 DEF AsMeant
  <2>. QED
    BY <2>1, <2>2
<1>8. \A c \in 1..AtOnce : Joined(dialect, New, es[c]) = Entry(None, ids[c], c, Fragments(c))
  <2>1. ASSUME NEW c \in 1..AtOnce
        PROVE  Joined(dialect, New, Entry(None, ids[c], c, Fragments(c))) = Entry(None, ids[c], c, Fragments(c))
    BY <1>3, <1>4, JoinedNew
  <2>. QED
    BY <1>5, <2>1
<1>9. DOMAIN AsMeant = {}
  BY <1>1 DEF AsMeant
<1> HIDE DEF es
<1>10. AsMeant' = From(dialect, AsMeant, es)
  <2>1. CASE AtOnce = 1
    <3> DEFINE n == Cardinality(DOMAIN AsMeant)
               e == es[1]
               key == IF dialect = "ollama" THEN (IF e.name # None \/ n = 0 THEN n + 1 ELSE n) ELSE BuilderOf(e, 1)
               R == [k \in DOMAIN AsMeant \cup {key} |->
                       IF k = key THEN Joined(dialect, IF key \in DOMAIN AsMeant THEN AsMeant[key] ELSE New, e) ELSE AsMeant[k]]
    <3>1. From(dialect, AsMeant, es) = R
      BY <1>5, <2>1 DEF From
    <3>2. n = 0
      BY <1>9, FS_EmptySet
    <3>3. key = 1
      <4>1. e.key = None
        BY <1>5, <2>1 DEF Entry
      <4>. QED
        BY <3>2, <4>1 DEF BuilderOf
    <3> HIDE DEF n, key
    <3>4. R = [k \in 1..AtOnce |-> Entry(None, ids[k], k, Fragments(k))]
      <4>1. DOMAIN AsMeant \cup {key} = {1} /\ 1..AtOnce = {1} /\ key \notin DOMAIN AsMeant
        BY <1>9, <2>1, <3>3
      <4>2. R = [k \in {1} |-> Joined(dialect, New, es[1])]
        BY <1>9, <3>3, <4>1
      <4>3. Joined(dialect, New, es[1]) = Entry(None, ids[1], 1, Fragments(1))
        BY <1>8, <4>1
      <4>4. R = [k \in {1} |-> Entry(None, ids[1], 1, Fragments(1))]
        BY <4>2, <4>3
      <4>. QED
        BY <4>1, <4>4
    <3>. QED
      BY <1>7, <3>1, <3>4
  <2>2. CASE AtOnce # 1
    <3>1. From(dialect, AsMeant, es) = [k \in DOMAIN es |-> Joined(dialect, New, es[k])]
      BY <1>5, <2>2 DEF From
    <3>2. DOMAIN es = 1..AtOnce
      BY <1>5
    <3>. QED
      BY <1>7, <1>8, <3>1, <3>2
  <2>. QED
    BY <2>1, <2>2
<1>11. "calls" \in Kinds
  BY DEF Kinds
<1>12. Write("calls", es)
  BY <1>2 DEF es
<1>. QED
  BY <1>1, <1>5, <1>6, <1>10, <1>11, <1>12, WriteKeeps

-----------------------------------------------------------------------------
(* The client *)

\* The lines read are lines.
LEMMA LinesReadIs ==
  ASSUME LinesOK, PlaceOK
  PROVE  LinesRead \in 0..Len(lines)
<1>1. handled \in 0..Len(lines) /\ total \in Nat /\ Len(lines) \in Nat
  BY HeldIs, LinesSized DEF PlaceOK
<1>2. LineEndsAt(lines, 0) = 0
  BY WrittenNext DEF LineEndsAt
<1>3. handled = 0 => LinesRead = 0
  BY <1>1, <1>2 DEF LinesRead
<1>4. LinesRead = handled \/ LinesRead = handled - 1
  BY DEF LinesRead
<1>. QED
  BY <1>1, <1>3, <1>4

\* What a line does to what is known.
LEMMA HandleDoes ==
  ASSUME outcome = "none", NEW cells, cells[1].line = handled + 1, Handle(cells)
  PROVE  LET kind == IF Whole(cells) THEN lines[handled + 1].kind ELSE "other" IN
         /\ handled' = handled + 1
         /\ parts' = IF kind = "calls" THEN From(dialect, parts, lines[handled + 1].entries) ELSE parts
         /\ text' = IF kind = "text" THEN Append(text, handled + 1) ELSE text
         /\ finished' = IF kind = "finish" THEN TRUE ELSE finished
         /\ outcome' \in {"none", "error", "delivered"}
         /\ outcome' = "delivered" =>
              finished /\ turn' = [calls |-> Finalized, text |-> text] /\ UNCHANGED <<parts, text, finished>>
<1> DEFINE i == handled + 1
<1>1. handled' = handled + 1
  BY DEF Handle
<1>2. CASE ~Whole(cells) /\ CutLine
  BY <1>1, <1>2 DEF CutLine, Fails, GoesOn
<1>3. CASE Whole(cells) /\ lines[i].kind # "DONE" /\ ChunkLine(i)
  <2>1. Accumulated(lines[i].entries) = From(dialect, parts, lines[i].entries)
    BY AccumulatedIs
  <2>. QED
    BY <1>1, <1>3, <2>1 DEF ChunkLine, Fails, GoesOn
<1>4. CASE Whole(cells) /\ lines[i].kind = "DONE" /\ EndOfTurn /\ UNCHANGED <<parts, text, finished>>
  BY <1>1, <1>4 DEF EndOfTurn, Fails, Complete
<1>. QED
  BY <1>2, <1>3, <1>4 DEF Handle

\* A line that is handled leaves what is known as it should be.
LEMMA HandleKeeps ==
  ASSUME StreamInv, outcome = "none", NEW cells, cells[1].line = handled + 1, handled + 1 \in DOMAIN lines, Handle(cells),
         LinesRead = handled, LinesRead' = IF Whole(cells) THEN handled + 1 ELSE handled,
         UNCHANGED <<dialect, lines, meant>>
  PROVE  LinesOK' /\ MeantOK' /\ PartsOK' /\ TextOK' /\ FinishedOK' /\ TurnOK'
<1> DEFINE i == handled + 1
           kind == IF Whole(cells) THEN lines[i].kind ELSE "other"
<1>1. LinesOK /\ MeantOK /\ PlaceOK /\ PartsOK /\ TextOK /\ FinishedOK
  BY DEF StreamInv
<1>2. /\ handled' = i
      /\ parts' = IF kind = "calls" THEN From(dialect, parts, lines[i].entries) ELSE parts
      /\ text' = IF kind = "text" THEN Append(text, i) ELSE text
      /\ finished' = IF kind = "finish" THEN TRUE ELSE finished
      /\ outcome' = "delivered" =>
           finished /\ turn' = [calls |-> Finalized, text |-> text] /\ UNCHANGED <<parts, text, finished>>
  BY HandleDoes
<1>3. handled \in Nat /\ i \in Nat /\ i \in 1..Len(lines) /\ DOMAIN lines = 1..Len(lines) /\ Len(lines) \in Nat /\ i - 1 = handled
  BY <1>1, LinesSized DEF PlaceOK
<1>4. kind = "other" \/ (Whole(cells) /\ kind = lines[i].kind)
  OBVIOUS
<1>5. ~Whole(cells) => kind = "other"
  OBVIOUS
<1>6. LinesOK' /\ MeantOK'
  BY <1>1 DEF LinesOK, MeantOK
<1>7. PartsOK'
  <2>1. PICK P : KnownAfter(P) /\ parts = P[handled]
    BY <1>1 DEF PartsOK
  <2>2. KnownAfter(P)'
    BY <2>1 DEF KnownAfter, AsMeant
  <2>3. P[i] = IF lines[i].kind = "calls" THEN From(dialect, P[handled], lines[i].entries) ELSE P[handled]
    BY <1>3, <2>1 DEF KnownAfter
  <2>4. parts' = P[LinesRead']
    <3>1. CASE Whole(cells)
      <4>1. kind = lines[i].kind /\ LinesRead' = i
        BY <3>1
      <4>. QED
        BY <1>2, <2>1, <2>3, <4>1
    <3>2. CASE ~Whole(cells)
      <4>1. kind = "other" /\ LinesRead' = handled
        BY <3>2
      <4>. QED
        BY <1>2, <2>1, <4>1
    <3>. QED
      BY <3>1, <3>2
  <2>. QED
    BY <2>2, <2>4 DEF PartsOK
<1>8. /\ text \in Seq(DOMAIN lines) /\ IsInjective(text)
      /\ ToSet(text) = {k \in 1..handled : lines[k].kind = "text"}
  BY <1>1 DEF TextOK
<1>9. 1..i = 1..handled \cup {i}
  BY <1>3
<1>10. TextOK'
  <2>1. CASE Whole(cells) /\ lines[i].kind = "text"
    <3>1. text' = Append(text, i) /\ LinesRead' = i /\ lines' = lines
      BY <1>2, <2>1
    <3>2. \A n \in 1..Len(text) : text[n] # i
      <4>1. i \notin ToSet(text)
        BY <1>3, <1>8
      <4>. QED
        BY <1>8, <4>1 DEF ToSet
    <3> DEFINE v == Append(text, i)
    <3>3. /\ v \in Seq(DOMAIN lines) /\ DOMAIN v = 1..Len(text) + 1 /\ v[Len(text) + 1] = i
          /\ DOMAIN text = 1..Len(text) /\ Len(text) \in Nat
          /\ \A n \in 1..Len(text) : v[n] = text[n]
      BY <1>8
    <3> HIDE DEF v, i
    <3>4. \A n \in 1..Len(text) + 1 : n = Len(text) + 1 \/ n \in 1..Len(text)
      BY <3>3
    <3>5. IsInjective(v)
      BY <1>8, <3>2, <3>3, <3>4 DEF IsInjective
    <3>6. ToSet(v) = ToSet(text) \cup {i}
      <4>1. \A x \in ToSet(v) : x \in ToSet(text) \cup {i}
        BY <3>3, <3>4 DEF ToSet
      <4>2. i \in ToSet(v)
        <5>1. Len(text) + 1 \in DOMAIN v
          BY <3>3
        <5>. QED
          BY <3>3, <5>1 DEF ToSet
      <4>3. \A x \in ToSet(text) : x \in ToSet(v)
        <5>1. \A n \in 1..Len(text) : n \in DOMAIN v
          BY <3>3
        <5>. QED
          BY <3>3, <5>1 DEF ToSet
      <4>. QED
        BY <4>1, <4>2, <4>3
    <3>7. ToSet(v) = {k \in 1..i : lines[k].kind = "text"}
      BY <1>8, <1>9, <2>1, <3>6 DEF i
    <3>. QED
      BY <3>1, <3>3, <3>5, <3>7 DEF TextOK, v, i
  <2>2. CASE ~(Whole(cells) /\ lines[i].kind = "text")
    <3>1. text' = text
      BY <1>2, <2>2
    <3>2. {k \in 1..LinesRead' : lines[k].kind = "text"} = {k \in 1..handled : lines[k].kind = "text"}
      <4>1. CASE Whole(cells)
        <5>1. LinesRead' = i /\ lines[i].kind # "text"
          BY <2>2, <4>1
        <5>. QED
          BY <1>9, <5>1
      <4>2. CASE ~Whole(cells)
        BY <4>2
      <4>. QED
        BY <4>1, <4>2
    <3>. QED
      BY <1>8, <3>1, <3>2 DEF TextOK
  <2>. QED
    BY <2>1, <2>2
<1>11. FinishedOK'
  <2>1. finished \in BOOLEAN /\ (finished <=> \E k \in 1..handled : lines[k].kind = "finish")
    BY <1>1 DEF FinishedOK
  <2>2. finished' <=> \E k \in 1..LinesRead' : lines[k].kind = "finish"
    <3>1. CASE Whole(cells)
      <4>1. LinesRead' = i /\ kind = lines[i].kind
        BY <3>1
      <4> HIDE DEF kind
      <4>. QED
        BY <1>2, <1>9, <2>1, <4>1
    <3>2. CASE ~Whole(cells)
      <4>1. LinesRead' = handled /\ finished' = finished
        BY <1>2, <3>2
      <4>. QED
        BY <2>1, <4>1
    <3>. QED
      BY <3>1, <3>2
  <2>3. finished' \in BOOLEAN
    BY <1>2, <2>1
  <2>. QED
    BY <2>2, <2>3 DEF FinishedOK
<1>12. TurnOK'
  <2>1. ASSUME outcome' = "delivered"
        PROVE  finished' /\ turn' = [calls |-> Finalized', text |-> text']
    <3>1. UNCHANGED <<parts, text, finished>> /\ finished /\ turn' = [calls |-> Finalized, text |-> text]
      BY <1>2, <2>1
    <3>2. Finalized' = Finalized
      BY <3>1 DEF Finalized
    <3>. QED
      BY <3>1, <3>2
  <2>. QED
    BY <2>1 DEF TurnOK, Delivered
<1>. QED
  BY <1>6, <1>7, <1>10, <1>11, <1>12

\* What a step that touches neither lines nor what is known leaves.
LEMMA KnownStands ==
  ASSUME StreamInv, UNCHANGED <<dialect, lines, meant, parts, text, finished>>, LinesRead' = LinesRead
  PROVE  LinesOK' /\ MeantOK' /\ PartsOK' /\ TextOK' /\ FinishedOK' /\ Finalized' = Finalized
<1>1. LinesOK /\ MeantOK /\ PartsOK /\ TextOK /\ FinishedOK
  BY DEF StreamInv
<1>2. LinesOK' /\ MeantOK'
  BY <1>1 DEF LinesOK, MeantOK
<1>3. PartsOK'
  <2>1. PICK P : KnownAfter(P) /\ parts = P[LinesRead]
    BY <1>1 DEF PartsOK
  <2>2. KnownAfter(P)'
    BY <2>1 DEF KnownAfter, AsMeant
  <2>. QED
    BY <2>1, <2>2 DEF PartsOK
<1>4. TextOK' /\ FinishedOK'
  BY <1>1 DEF TextOK, FinishedOK
<1>5. Finalized' = Finalized
  BY DEF Finalized
<1>. QED
  BY <1>2, <1>3, <1>4, <1>5

\* The stream is sent, or a part of it.
LEMMA SendsKeeps ==
  ASSUME StreamInv, Sends
  PROVE  StreamInv'
<1>1. UNCHANGED <<dialect, lines, meant, parts, text, finished, outcome, turn>> /\ outcome = "none"
  BY DEF Sends, server, reader
<1>2. PlaceOK' /\ LinesRead' = LinesRead
  BY SendsPlace DEF StreamInv
<1>3. TurnOK'
  BY <1>1 DEF TurnOK, Delivered
<1>. QED
  BY <1>1, <1>2, <1>3, KnownStands DEF StreamInv

\* A chunk is read, or is too much.
LEMMA ReadChunkKeeps ==
  ASSUME TransportAssumption, StreamInv, ReadChunk
  PROVE  StreamInv'
<1>1. UNCHANGED <<dialect, lines, meant, handled, parts, text, finished, sent>> /\ outcome = "none" /\ sent
  BY DEF ReadChunk, server
<1>2. PICK n \in 1..Len(wire) :
        \/ TooMuch(n) /\ Fails /\ UNCHANGED <<wire, buffer, total>>
        \/ /\ ~TooMuch(n)
           /\ wire' = SubSeq(wire, n + 1, Len(wire)) /\ buffer' = buffer \o SubSeq(wire, 1, n) /\ total' = total + n
           /\ GoesOn
  BY DEF ReadChunk
<1>3. PlaceOK' /\ LinesRead' = LinesRead
  <2>1. LinesOK /\ PlaceOK
    BY DEF StreamInv
  <2>2. CASE UNCHANGED <<wire, buffer, total>>
    BY <1>1, <2>1, <2>2 DEF PlaceOK, LinesRead
  <2>3. CASE ~TooMuch(n) /\ wire' = SubSeq(wire, n + 1, Len(wire)) /\ buffer' = buffer \o SubSeq(wire, 1, n) /\ total' = total + n
    BY <1>1, <2>1, <2>3, ReadPlace
  <2>. QED
    BY <1>2, <2>2, <2>3
<1>4. TurnOK'
  <2>1. outcome' # "delivered"
    BY <1>1, <1>2 DEF Fails, GoesOn
  <2>. QED
    BY <2>1 DEF TurnOK, Delivered
<1>. QED
  BY <1>1, <1>3, <1>4, KnownStands DEF StreamInv

\* The place is left, and the turn is not delivered, or it is finished.
LEMMA EndsKeep ==
  ASSUME StreamInv, UNCHANGED <<dialect, server, wire, sent, reader>>,
         Fails \/ EndOfTurn
  PROVE  StreamInv'
<1>1. UNCHANGED <<dialect, lines, meant, parts, text, finished, handled, total, buffer, wire, sent>>
  BY DEF server, reader
<1>2. PlaceOK' /\ LinesRead' = LinesRead
  BY <1>1 DEF PlaceOK, LinesRead, StreamInv
<1>3. LinesOK' /\ MeantOK' /\ PartsOK' /\ TextOK' /\ FinishedOK' /\ Finalized' = Finalized
  BY <1>1, <1>2, KnownStands
<1>4. TurnOK'
  BY <1>1, <1>3 DEF TurnOK, Delivered, Fails, EndOfTurn, Complete
<1>. QED
  BY <1>2, <1>3, <1>4 DEF StreamInv

\* A line is handled.
LEMMA HandleLineKeeps ==
  ASSUME TransportAssumption, StreamInv, HandleLine
  PROVE  StreamInv'
<1> DEFINE cells == SubSeq(buffer, 1, LineEnd - 1)
<1>1. /\ outcome = "none" /\ HasLine /\ buffer' = Rest /\ Handle(cells)
      /\ UNCHANGED <<dialect, lines, meant, wire, sent, total>>
  BY DEF HandleLine, server
<1>2. handled' = handled + 1 /\ LinesOK /\ PlaceOK
  BY <1>1 DEF Handle, StreamInv
<1>3. /\ PlaceOK' /\ LinesRead = handled /\ LinesRead' = handled + 1
      /\ handled + 1 \in DOMAIN lines /\ cells[1].line = handled + 1 /\ Whole(cells)
  BY <1>1, <1>2, HandlePlace
<1> HIDE DEF cells
<1>4. LinesOK' /\ MeantOK' /\ PartsOK' /\ TextOK' /\ FinishedOK' /\ TurnOK'
  BY <1>1, <1>3, HandleKeeps
<1>. QED
  BY <1>3, <1>4 DEF StreamInv

\* The last line is handled, which may have been cut.
LEMMA LastLineKeeps ==
  ASSUME TransportAssumption, StreamInv, LastLine
  PROVE  StreamInv'
<1>1. /\ outcome = "none" /\ ~HasLine /\ buffer # <<>> /\ sent /\ wire = <<>> /\ buffer' = <<>> /\ Handle(buffer)
      /\ UNCHANGED <<dialect, lines, meant, wire, sent, total>>
  BY DEF LastLine, server
<1>2. handled' = handled + 1 /\ LinesOK /\ PlaceOK
  BY <1>1 DEF Handle, StreamInv
<1>3. /\ PlaceOK' /\ LinesRead = handled /\ LinesRead' = IF Whole(buffer) THEN handled + 1 ELSE handled
      /\ handled + 1 \in DOMAIN lines /\ buffer[1].line = handled + 1
  BY <1>1, <1>2, LastPlace
<1>4. LinesOK' /\ MeantOK' /\ PartsOK' /\ TextOK' /\ FinishedOK' /\ TurnOK'
  BY <1>1, <1>3, HandleKeeps
<1>. QED
  BY <1>3, <1>4 DEF StreamInv

\* StreamInv is a matter of the variables alone.
LEMMA StreamStutter ==
  ASSUME StreamInv, UNCHANGED streamVars
  PROVE  StreamInv'
<1>1. UNCHANGED <<dialect, lines, meant, parts, text, finished, handled, total, buffer, wire, sent, outcome, turn>>
  BY DEF streamVars, server, reader
<1>2. PlaceOK' /\ LinesRead' = LinesRead
  BY <1>1 DEF PlaceOK, LinesRead, StreamInv
<1>3. LinesOK' /\ MeantOK' /\ PartsOK' /\ TextOK' /\ FinishedOK' /\ Finalized' = Finalized
  BY <1>1, <1>2, KnownStands
<1>4. TurnOK'
  BY <1>1, <1>3 DEF TurnOK, Delivered, StreamInv
<1>. QED
  BY <1>2, <1>3, <1>4 DEF StreamInv

\* Every step keeps StreamInv.
LEMMA StreamNextKeeps ==
  ASSUME TransportAssumption, StreamInv, StreamNext
  PROVE  StreamInv'
<1>1. CASE Server
  BY <1>1, FinishesKeeps, WritesOtherKeeps, BeginsCallKeeps, ContinuesCallKeeps, WritesCallsKeeps DEF Server
<1>2. CASE Sends
  BY <1>2, SendsKeeps
<1>3. CASE ReadChunk
  BY <1>3, ReadChunkKeeps
<1>4. CASE LineTooLong \/ StreamEnds \/ RequestFails
  BY <1>4, EndsKeep DEF LineTooLong, StreamEnds, RequestFails
<1>5. CASE HandleLine
  BY <1>5, HandleLineKeeps
<1>6. CASE LastLine
  BY <1>6, LastLineKeeps
<1>7. CASE Done
  BY <1>7, StreamStutter DEF Done
<1>. QED
  BY <1>1, <1>2, <1>3, <1>4, <1>5, <1>6, <1>7 DEF StreamNext, Client

\* Before anything is written StreamInv holds.
LEMMA StreamInitEstablishes ==
  ASSUME TransportAssumption, StreamInit
  PROVE  StreamInv
<1>1. /\ dialect \in Dialects /\ lines = <<>> /\ meant = <<>> /\ wire = <<>> /\ sent = FALSE /\ buffer = <<>>
      /\ total = 0 /\ handled = 0 /\ parts = <<>> /\ text = <<>> /\ finished = FALSE /\ outcome = "none"
  BY DEF StreamInit
<1>2. Len(lines) = 0 /\ DOMAIN lines = {} /\ lines \in Seq(LineType) /\ DOMAIN meant = {}
  BY <1>1
<1>3. Written(lines, 0) = <<>> /\ LineEndsAt(lines, 0) = 0
  BY WrittenNext DEF LineEndsAt
<1>4. LinesOK
  BY <1>1, <1>2 DEF LinesOK
<1>5. MeantOK
  <2>1. meant = [c \in DOMAIN meant |-> meant[c]]
    BY <1>1
  <2>2. Cardinality({}) = 0 /\ 1..0 = {}
    BY FS_EmptySet
  <2>. QED
    BY <1>2, <2>1, <2>2 DEF MeantOK
<1>6. PlaceOK
  <2>1. SubSeq(<<>>, 0 + 1, 0 + 0) = <<>> /\ SubSeq(<<>>, 0 + 1, 0) = <<>>
    <3>1. 0 + 1 \in Int /\ 0 + 0 \in Int /\ 0 \in Int /\ 0 + 0 < 0 + 1 /\ 0 < 0 + 1
      OBVIOUS
    <3>. QED
      BY <3>1, SubSeqEmpty
  <2>2. MaxTotal \in Nat
    BY DEF TransportAssumption
  <2>3. Written(lines, Len(lines)) = <<>> /\ LineEndsAt(lines, handled) = 0
    BY <1>1, <1>2, <1>3
  <2>4. total \in 0..MaxTotal /\ handled \in 0..Len(lines) /\ sent \in BOOLEAN
    <3>1. 0 \in 0..MaxTotal
      BY <2>2
    <3>2. 0 \in 0..Len(lines)
      <4>1. 0 \in 0..0
        OBVIOUS
      <4>. QED
        BY <1>2, <4>1, Zenon
    <3>3. FALSE \in BOOLEAN
      OBVIOUS
    <3>. QED
      BY <1>1, <3>1, <3>2, <3>3, Zenon
  <2>5. Len(wire) = 0 /\ Len(Written(lines, Len(lines))) = 0
    BY <1>1, <2>3
  <2>6. wire = SubSeq(Written(lines, Len(lines)), total + 1, total + Len(wire))
    BY <1>1, <2>1, <2>3, <2>5
  <2>7. buffer = SubSeq(Written(lines, Len(lines)), LineEndsAt(lines, handled) + 1, total)
    BY <1>1, <2>1, <2>3
  <2>8. Len(wire) \in Nat /\ total + Len(wire) <= Len(Written(lines, Len(lines)))
    BY <1>1, <2>5
  <2>9. wire = Written(lines, Len(lines)) /\ LineEndsAt(lines, handled) <= total
    BY <1>1, <2>3
  <2>. QED
    BY <1>1, <2>4, <2>6, <2>7, <2>8, <2>9 DEF PlaceOK
<1>7. LinesRead = 0
  BY <1>1, <1>3 DEF LinesRead
<1>8. PartsOK
  <2> DEFINE P == [i \in 0..0 |-> <<>>]
  <2>1. P[0] = <<>>
    OBVIOUS
  <2>2. AsMeant = <<>>
    BY <1>1 DEF AsMeant
  <2>3. PartsTyped(<<>>)
    BY DEF PartsTyped
  <2> HIDE DEF P
  <2>4. KnownAfter(P)
    BY <1>2, <2>1, <2>2, <2>3 DEF KnownAfter
  <2>. QED
    BY <1>1, <1>7, <2>1, <2>4 DEF PartsOK
<1>9. TextOK
  <2>1. ToSet(text) = {} /\ IsInjective(text)
    BY <1>1 DEF ToSet, IsInjective
  <2>. QED
    BY <1>1, <1>7, <2>1 DEF TextOK
<1>10. FinishedOK
  <2>1. 1..LinesRead = {}
    BY <1>7
  <2>. QED
    BY <1>1, <2>1 DEF FinishedOK
<1>11. TurnOK
  BY <1>1 DEF TurnOK, Delivered
<1>. QED
  BY <1>4, <1>5, <1>6, <1>8, <1>9, <1>10, <1>11 DEF StreamInv

\* StreamInv is an invariant.
THEOREM StreamInvariant == StreamSpec => []StreamInv
<1>1. StreamInit => StreamInv
  BY TransportAssumption, StreamInitEstablishes
<1>2. StreamInv /\ [StreamNext]_streamVars => StreamInv'
  BY TransportAssumption, StreamNextKeeps, StreamStutter
<1>. QED
  BY <1>1, <1>2, PTL DEF StreamSpec

\* When the line that ends the turn has been read the calls are what they were meant to be.
LEMMA FinishedIsWhole ==
  ASSUME StreamInv, finished
  PROVE  /\ parts = AsMeant
         /\ \E i \in 1..LinesRead : i \in DOMAIN lines /\ lines[i].kind = "finish"
<1>1. LinesOK /\ PlaceOK /\ PartsOK /\ FinishedOK
  BY DEF StreamInv
<1>2. LinesRead \in 0..Len(lines) /\ Len(lines) \in Nat /\ DOMAIN lines = 1..Len(lines)
  BY <1>1, LinesReadIs, LinesSized
<1>3. PICK i \in 1..LinesRead : lines[i].kind = "finish"
  BY <1>1 DEF FinishedOK
<1>4. i \in DOMAIN lines /\ LinesRead \in i..Len(lines)
  BY <1>2
<1>5. PICK P : KnownAfter(P) /\ parts = P[LinesRead]
  BY <1>1 DEF PartsOK
<1>6. P[LinesRead] = AsMeant
  BY <1>3, <1>4, <1>5 DEF KnownAfter
<1>. QED
  BY <1>3, <1>4, <1>5, <1>6

\* The calls that are handed on are those that were meant, in order.
LEMMA FinalizedIs ==
  ASSUME TransportAssumption, StreamInv, finished
  PROVE  LET keys == InOrder(meant)
             given == [n \in DOMAIN keys |-> meant[keys[n]].id] IN
         /\ DOMAIN keys = 1..Len(given) /\ Len(given) \in Nat /\ Len(given) <= MaxCalls + AtOnce
         /\ given \in Seq(Ids \cup {None})
         /\ Finalized = [n \in DOMAIN keys |-> [id |-> UniqueIds(given)[n], name |-> keys[n], args |-> Parsed(meant[keys[n]].args)]]
<1> DEFINE keys == InOrder(meant)
           given == [n \in DOMAIN keys |-> meant[keys[n]].id]
           N == Cardinality(DOMAIN meant)
<1>1. parts = AsMeant /\ MeantOK
  BY FinishedIsWhole DEF StreamInv
<1>2. DOMAIN meant \subseteq Calls /\ \A c \in DOMAIN meant : meant[c].id \in Ids \cup {None}
  BY <1>1 DEF MeantOK
<1>3. MaxCalls + AtOnce \in Nat /\ Calls = 1..MaxCalls + AtOnce
  BY DEF TransportAssumption, Calls
<1>4. IsFiniteSet(Calls) /\ Cardinality(Calls) = MaxCalls + AtOnce
  BY <1>3, UpTo
<1>5. IsFiniteSet(DOMAIN meant) /\ N <= MaxCalls + AtOnce
  BY <1>2, <1>4, FS_Subset
<1>6. DOMAIN meant \in SUBSET Nat
  BY <1>2, <1>3
<1>7. DOMAIN keys = 1..N /\ N \in Nat /\ \A n \in 1..N : keys[n] \in DOMAIN meant
  BY <1>5, <1>6, KeysInOrder
<1>8. DOMAIN parts = DOMAIN meant /\ \A c \in DOMAIN meant : parts[c] = Entry(None, meant[c].id, c, meant[c].args)
  BY <1>1 DEF AsMeant
<1>9. InOrder(parts) = keys
  BY <1>8 DEF InOrder
<1> HIDE DEF keys
<1>10. given \in [1..N -> Ids \cup {None}]
  BY <1>2, <1>7
<1>11. given \in Seq(Ids \cup {None}) /\ Len(given) = N
  BY <1>7, <1>10
<1>12. ASSUME NEW n \in DOMAIN keys
       PROVE  parts[keys[n]].id = meant[keys[n]].id /\ parts[keys[n]].name = keys[n] /\ parts[keys[n]].args = meant[keys[n]].args
  BY <1>7, <1>8 DEF Entry
<1>13. [n \in DOMAIN keys |-> parts[keys[n]].id] = given
  BY <1>12
<1>14. Finalized = [n \in DOMAIN keys |-> [id |-> UniqueIds(given)[n], name |-> parts[keys[n]].name, args |-> Parsed(parts[keys[n]].args)]]
  BY <1>9, <1>13 DEF Finalized
<1>15. Finalized = [n \in DOMAIN keys |-> [id |-> UniqueIds(given)[n], name |-> keys[n], args |-> Parsed(meant[keys[n]].args)]]
  BY <1>12, <1>14
<1>. QED
  BY <1>5, <1>7, <1>11, <1>15 DEF keys

\* What StreamInv says is enough.
LEMMA StreamInvIsSound ==
  ASSUME TransportAssumption, StreamInv
  PROVE  TurnSound
<1>1. LinesOK /\ MeantOK /\ PlaceOK /\ PartsOK /\ TextOK /\ FinishedOK /\ TurnOK
  BY DEF StreamInv
<1>2. LinesRead \in 0..Len(lines) /\ Len(lines) \in Nat /\ DOMAIN lines = 1..Len(lines)
  BY <1>1, LinesReadIs, LinesSized
<1>3. StreamTypeOK
  <2>1. PICK P : KnownAfter(P) /\ parts = P[LinesRead]
    BY <1>1 DEF PartsOK
  <2>2. PartsTyped(parts)
    BY <1>2, <2>1 DEF KnownAfter
  <2>3. Cell = CellOf(Len(lines))
    BY <1>2 DEF Cell, CellOf
  <2>4. buffer \in Seq(Cell) /\ wire \in Seq(Cell)
    BY <1>1, <2>3, HeldIs
  <2>5. \A i \in DOMAIN lines : lines[i].kind \in Kinds
    <3>1. \A i \in DOMAIN lines : lines[i] \in LineType
      BY <1>1 DEF LinesOK
    <3>. QED
      BY <3>1 DEF LineType
  <2>6. dialect \in Dialects /\ DOMAIN meant \subseteq Calls /\ text \in Seq(DOMAIN lines)
    BY <1>1 DEF LinesOK, MeantOK, TextOK
  <2>7. sent \in BOOLEAN /\ finished \in BOOLEAN /\ total \in 0..MaxTotal /\ handled \in 0..Len(lines)
    BY <1>1 DEF PlaceOK, FinishedOK
  <2>. QED
    BY <2>2, <2>4, <2>5, <2>6, <2>7 DEF StreamTypeOK, PartsTyped, Kinds
<1>4. LinesKept
  BY <1>1 DEF LinesKept, PlaceOK, Written, LineEndsAt
<1> DEFINE keys == InOrder(meant)
           given == [n \in DOMAIN keys |-> meant[keys[n]].id]
<1>5. ASSUME Delivered
      PROVE  /\ finished /\ turn.text = text /\ given \in Seq(Ids \cup {None}) /\ Len(given) <= MaxCalls + AtOnce
             /\ DOMAIN keys = 1..Len(given)
             /\ turn.calls = [n \in DOMAIN keys |-> [id |-> UniqueIds(given)[n], name |-> keys[n], args |-> Parsed(meant[keys[n]].args)]]
  <2>1. finished /\ turn = [calls |-> Finalized, text |-> text]
    BY <1>1, <1>5 DEF TurnOK
  <2>. QED
    BY <2>1, FinalizedIs
<1>6. TurnWhole
  <2> SUFFICES ASSUME Delivered
               PROVE  /\ Wrote("finish")
                      /\ [n \in DOMAIN turn.calls |-> [name |-> turn.calls[n].name, args |-> turn.calls[n].args]]
                         = [n \in DOMAIN keys |-> [name |-> keys[n], args |-> Parsed(meant[keys[n]].args)]]
                      /\ ToSet(turn.text) = {i \in DOMAIN lines : lines[i].kind = "text"}
                      /\ IsInjective(turn.text)
    BY DEF TurnWhole
  <2>1. PICK i \in 1..LinesRead : i \in DOMAIN lines /\ lines[i].kind = "finish"
    BY <1>5, FinishedIsWhole
  <2>2. Wrote("finish")
    BY <2>1 DEF Wrote
  <2>3. ASSUME NEW j \in DOMAIN lines, lines[j].kind = "text"
        PROVE  j \in 1..LinesRead
    <3>1. ~(i < j)
      BY <1>1, <2>1, <2>3 DEF LinesOK
    <3>. QED
      BY <1>2, <2>1, <3>1
  <2>4. ToSet(text) = {j \in DOMAIN lines : lines[j].kind = "text"}
    <3>1. ToSet(text) = {j \in 1..LinesRead : lines[j].kind = "text"}
      BY <1>1 DEF TextOK
    <3>2. 1..LinesRead \subseteq DOMAIN lines
      BY <1>2
    <3>. QED
      BY <2>3, <3>1, <3>2
  <2>5. IsInjective(text)
    BY <1>1 DEF TextOK
  <2> HIDE DEF keys
  <2>6. [n \in DOMAIN turn.calls |-> [name |-> turn.calls[n].name, args |-> turn.calls[n].args]]
        = [n \in DOMAIN keys |-> [name |-> keys[n], args |-> Parsed(meant[keys[n]].args)]]
    <3>1. turn.calls = [n \in DOMAIN keys |-> [id |-> UniqueIds(given)[n], name |-> keys[n], args |-> Parsed(meant[keys[n]].args)]]
      BY <1>5
    <3> HIDE DEF given
    <3>2. /\ DOMAIN turn.calls = DOMAIN keys
          /\ \A n \in DOMAIN keys : turn.calls[n].name = keys[n] /\ turn.calls[n].args = Parsed(meant[keys[n]].args)
      BY <3>1
    <3>. QED
      BY <3>2
  <2>. QED
    BY <1>5, <2>2, <2>4, <2>5, <2>6
<1>7. IdsUnique
  <2> SUFFICES ASSUME Delivered
               PROVE  /\ \A m, n \in DOMAIN turn.calls : turn.calls[m].id = turn.calls[n].id => m = n
                      /\ IsInjective(given) => \A n \in DOMAIN given : given[n] \in {None, turn.calls[n].id}
    BY DEF IdsUnique
  <2>1. /\ given \in Seq(Ids \cup {None}) /\ Len(given) <= MaxCalls + AtOnce /\ DOMAIN keys = 1..Len(given)
        /\ turn.calls = [n \in DOMAIN keys |-> [id |-> UniqueIds(given)[n], name |-> keys[n], args |-> Parsed(meant[keys[n]].args)]]
    BY <1>5
  <2>2. DOMAIN given = DOMAIN keys
    OBVIOUS
  <2> HIDE DEF given, keys
  <2>3. /\ \A m, n \in 1..Len(given) : UniqueIds(given)[m] = UniqueIds(given)[n] => m = n
        /\ IsInjective(given) => \A n \in 1..Len(given) : given[n] \in {None, UniqueIds(given)[n]}
    BY <2>1, UniqueIdsAre
  <2>4. DOMAIN turn.calls = 1..Len(given) /\ \A n \in 1..Len(given) : turn.calls[n].id = UniqueIds(given)[n]
    BY <2>1
  <2>. QED
    BY <2>1, <2>2, <2>3, <2>4
<1>. QED
  BY <1>3, <1>4, <1>6, <1>7 DEF TurnSound

\* TurnSound: however the stream was cut, a turn that is handed on is the server's, whole, with ids that
\* differ, and no part of a line is skipped, handled twice or joined to another.
THEOREM TurnsComeWhole == StreamSpec => []TurnSound
<1>1. StreamInv => TurnSound
  BY TransportAssumption, StreamInvIsSound
<1>. QED
  BY <1>1, StreamInvariant, PTL

-----------------------------------------------------------------------------
(* Locks *)

USE DEF Proc, vars, rows, process, history


\* Taking a lock keeps the types.
LEMMA HoldsTyped ==
  ASSUME TypeOK, NEW p \in Proc, NEW s \in Session, Holds(p, s)
  PROVE  /\ owner' \in [Session -> Proc \cup {Nobody}]
         /\ age' \in [Session -> 0..TTL + 1]
         /\ taken' \in [Proc -> BOOLEAN]
<1>1. owner' \in [Session -> Proc \cup {Nobody}]
  BY DEF TypeOK, Holds
<1>2. age' \in [Session -> 0..TTL + 1]
  BY LockAssumption DEF TypeOK, Holds, LockAssumption
<1>3. taken' \in [Proc -> BOOLEAN]
  BY DEF TypeOK, Holds
<1>. QED
  BY <1>1, <1>2, <1>3

\* The end of a process keeps the types of what belongs to it.
LEMMA EndsTyped ==
  ASSUME TypeOK, NEW p \in Proc, Ends(p)
  PROVE  /\ pc' \in [Proc -> {"new", "idle", "turn", "checked", "tool", "dead"}]
         /\ current' \in [Proc -> Session \cup {Nobody}]
         /\ locked' \in [Proc -> Session \cup {Nobody}]
         /\ lost' \in [Proc -> BOOLEAN]
         /\ since' \in [Proc -> 0..TTL + 1]
         /\ copy' \in [Proc -> [Session -> {"none", "current", "behind"}]]
         /\ taken' \in [Proc -> BOOLEAN]
<1>. USE DEF TypeOK, Ends
<1>1. pc' \in [Proc -> {"new", "idle", "turn", "checked", "tool", "dead"}]
  OBVIOUS
<1>2. current' \in [Proc -> Session \cup {Nobody}]
  OBVIOUS
<1>3. locked' \in [Proc -> Session \cup {Nobody}]
  OBVIOUS
<1>4. lost' \in [Proc -> BOOLEAN]
  OBVIOUS
<1>5. since' \in [Proc -> 0..TTL + 1]
  BY LockAssumption DEF LockAssumption
<1>6. copy' \in [Proc -> [Session -> {"none", "current", "behind"}]]
  OBVIOUS
<1>7. taken' \in [Proc -> BOOLEAN]
  OBVIOUS
<1>. QED
  BY <1>1, <1>2, <1>3, <1>4, <1>5, <1>6, <1>7

\* The end of a run, with its lock released, keeps the types.
LEMMA CliEndsTyped ==
  ASSUME TypeOK, NEW p \in Proc, CliEnds(p)
  PROVE  TypeOK'
<1>. USE DEF CliEnds
<1>1. owner' \in [Session -> Proc \cup {Nobody}]
  BY DEF TypeOK, Releases
<1>2. row' = row /\ age' = age /\ erased' = erased /\ Ends(p)
  OBVIOUS
<1>. QED
  BY <1>1, <1>2, EndsTyped DEF TypeOK

\* The end of a turn keeps the types.
LEMMA TurnEndsTyped ==
  ASSUME TypeOK, NEW p \in Proc, TurnEnds(p)
  PROVE  TypeOK'
<1>1. CASE p \in Cli
  BY <1>1, CliEndsTyped DEF TurnEnds
<1>2. CASE p \notin Cli
  <2>1. pc' \in [Proc -> {"new", "idle", "turn", "checked", "tool", "dead"}]
    BY <1>2 DEF TurnEnds, TypeOK
  <2>2. since' \in [Proc -> 0..TTL + 1]
    BY <1>2, LockAssumption DEF TurnEnds, TypeOK, LockAssumption
  <2>3. taken' \in [Proc -> BOOLEAN]
    BY <1>2 DEF TurnEnds, TypeOK
  <2>. QED
    BY <1>2, <2>1, <2>2, <2>3 DEF TurnEnds, TypeOK
<1>. QED
  BY <1>1, <1>2

\* Loading a conversation keeps the type of the cached copies.
LEMMA LoadedTyped ==
  ASSUME TypeOK, NEW p \in Proc, NEW s \in Session, Loaded(p, s)
  PROVE  copy' \in [Proc -> [Session -> {"none", "current", "behind"}]]
  BY DEF TypeOK, Loaded

\* The inductive invariant is kept by the admission of a run.
LEMMA CliStartKeeps ==
  ASSUME IndInv, NEW p \in Cli, NEW s \in Session, CliStart(p, s)
  PROVE  IndInv'
<1>1. TypeOK'
  <2>. USE DEF IndInv, TypeOK, CliStart
  <2>1. CASE row[s] = "unused" \/ CanAcquire(p, s)
    <3>1. row' \in [Session -> {"unused", "saved", "deleted"}]
      BY <2>1
    <3>2. pc' \in [Proc -> {"new", "idle", "turn", "checked", "tool", "dead"}]
      BY <2>1
    <3>3. current' \in [Proc -> Session \cup {Nobody}]
      BY <2>1
    <3>4. locked' \in [Proc -> Session \cup {Nobody}]
      BY <2>1
    <3>. QED
      BY <2>1, <3>1, <3>2, <3>3, <3>4, HoldsTyped
  <2>2. CASE ~(row[s] = "unused" \/ CanAcquire(p, s))
    BY <2>2, EndsTyped
  <2>. QED
    BY <2>1, <2>2
<1>. USE LockAssumption DEF LockAssumption, IndInv, CliStart, Holds, Ends
<1>2. LocksReal'
  BY DEF TypeOK, LocksReal, CanAcquire, CanRefresh, Started
<1>3. LockedIsCurrent'
  BY DEF TypeOK, LockedIsCurrent, Started, InTurn
<1>4. HoldersHold'
  BY DEF TypeOK, HoldersHold, LocksReal, LockedIsCurrent, CanAcquire, CanRefresh, Live, Started
<1>5. TurnsHold'
  BY DEF TypeOK, TurnsHold, HoldersHold, LockedIsCurrent, CanAcquire, CanRefresh, InTurn, Started
<1>6. WriteOwned'
  BY DEF TypeOK, WriteOwned, LocksReal, LockedIsCurrent, CanAcquire, CanRefresh, Live, Started, InTurn
<1>. QED
  BY <1>1, <1>2, <1>3, <1>4, <1>5, <1>6

\* The inductive invariant is kept by a run's verify and start.
LEMMA CliRunKeeps ==
  ASSUME IndInv, NEW p \in Cli, CliRun(p)
  PROVE  IndInv'
<1>1. TypeOK'
  <2>. USE DEF IndInv, CliRun
  <2>1. CASE CanRefresh(p, locked[p])
    <3>1. locked[p] \in Session
      BY DEF LockedIsCurrent, Started
    <3>2. copy' \in [Proc -> [Session -> {"none", "current", "behind"}]]
      BY <2>1, <3>1, LoadedTyped
    <3>3. age' \in [Session -> 0..TTL + 1]
      BY <2>1, <3>1, LockAssumption DEF TypeOK, LockAssumption
    <3>4. pc' \in [Proc -> {"new", "idle", "turn", "checked", "tool", "dead"}]
      BY <2>1 DEF TypeOK
    <3>. QED
      BY <2>1, <3>2, <3>3, <3>4 DEF TypeOK
  <2>2. CASE ~CanRefresh(p, locked[p])
    BY <2>2, CliEndsTyped
  <2>. QED
    BY <2>1, <2>2
<1>. USE LockAssumption DEF LockAssumption, IndInv, CliRun, CliEnds, Ends, Releases, Loaded
<1>2. LocksReal'
  BY DEF TypeOK, LocksReal, CanAcquire, CanRefresh, Started
<1>3. LockedIsCurrent'
  BY DEF TypeOK, LockedIsCurrent, Started, InTurn
<1>4. HoldersHold'
  BY DEF TypeOK, HoldersHold, LocksReal, LockedIsCurrent, CanAcquire, CanRefresh, Live, Started
<1>5. TurnsHold'
  BY DEF TypeOK, TurnsHold, HoldersHold, LockedIsCurrent, CanAcquire, CanRefresh, InTurn, Started
<1>6. WriteOwned'
  BY DEF TypeOK, WriteOwned, LocksReal, LockedIsCurrent, CanAcquire, CanRefresh, Live, Started, InTurn
<1>. QED
  BY <1>1, <1>2, <1>3, <1>4, <1>5, <1>6

\* The inductive invariant is kept by a run's heartbeat.
LEMMA CliHeartbeatKeeps ==
  ASSUME IndInv, NEW p \in Cli, CliHeartbeat(p)
  PROVE  IndInv'
<1>1. TypeOK'
  <2>. USE DEF IndInv, CliHeartbeat
  <2>1. locked[p] \in Session
    BY DEF LockedIsCurrent
  <2>. QED
    BY <2>1, HoldsTyped DEF TypeOK
<1>. USE LockAssumption DEF LockAssumption, IndInv, CliHeartbeat, Holds
<1>2. LocksReal'
  BY DEF TypeOK, LocksReal, CanAcquire, CanRefresh, Started
<1>3. LockedIsCurrent'
  BY DEF TypeOK, LockedIsCurrent, Started, InTurn
<1>4. HoldersHold'
  BY DEF TypeOK, HoldersHold, LocksReal, LockedIsCurrent, CanAcquire, CanRefresh, Live, Started
<1>5. TurnsHold'
  BY DEF TypeOK, TurnsHold, HoldersHold, LockedIsCurrent, CanAcquire, CanRefresh, InTurn, Started
<1>6. WriteOwned'
  BY DEF TypeOK, WriteOwned, LocksReal, LockedIsCurrent, CanAcquire, CanRefresh, Live, Started, InTurn
<1>. QED
  BY <1>1, <1>2, <1>3, <1>4, <1>5, <1>6

\* The inductive invariant is kept by a window that opens without a session.
LEMMA TuiStartKeeps ==
  ASSUME IndInv, NEW p \in Tui, TuiStart(p)
  PROVE  IndInv'
<1>. USE LockAssumption DEF LockAssumption, IndInv, TuiStart
<1>1. TypeOK'
  BY DEF TypeOK, LockedIsCurrent, Started, InTurn
<1>2. LocksReal'
  BY DEF TypeOK, LocksReal, CanAcquire, CanRefresh, Started
<1>3. LockedIsCurrent'
  BY DEF TypeOK, LockedIsCurrent, Started, InTurn
<1>4. HoldersHold'
  BY DEF TypeOK, HoldersHold, LocksReal, LockedIsCurrent, CanAcquire, CanRefresh, Live, Started
<1>5. TurnsHold'
  BY DEF TypeOK, TurnsHold, HoldersHold, LockedIsCurrent, CanAcquire, CanRefresh, InTurn, Started
<1>6. WriteOwned'
  BY DEF TypeOK, WriteOwned, LocksReal, LockedIsCurrent, CanAcquire, CanRefresh, Live, Started, InTurn
<1>. QED
  BY <1>1, <1>2, <1>3, <1>4, <1>5, <1>6

\* The inductive invariant is kept by a window that opens on a session.
LEMMA TuiOpenKeeps ==
  ASSUME IndInv, NEW p \in Tui, NEW s \in Session, TuiOpen(p, s)
  PROVE  IndInv'
<1>1. TypeOK'
  BY HoldsTyped DEF IndInv, TypeOK, TuiOpen
<1>. USE LockAssumption DEF LockAssumption, IndInv, TuiOpen, Holds
<1>2. LocksReal'
  BY DEF TypeOK, LocksReal, CanAcquire, CanRefresh, Started
<1>3. LockedIsCurrent'
  BY DEF TypeOK, LockedIsCurrent, Started, InTurn
<1>4. HoldersHold'
  BY DEF TypeOK, HoldersHold, LocksReal, LockedIsCurrent, CanAcquire, CanRefresh, Live, Started
<1>5. TurnsHold'
  BY DEF TypeOK, TurnsHold, HoldersHold, LockedIsCurrent, CanAcquire, CanRefresh, InTurn, Started
<1>6. WriteOwned'
  BY DEF TypeOK, WriteOwned, LocksReal, LockedIsCurrent, CanAcquire, CanRefresh, Live, Started, InTurn
<1>. QED
  BY <1>1, <1>2, <1>3, <1>4, <1>5, <1>6

\* The inductive invariant is kept by /resume.
LEMMA TuiResumeKeeps ==
  ASSUME IndInv, NEW p \in Tui, NEW s \in Session, TuiResume(p, s)
  PROVE  IndInv'
<1>. USE LockAssumption DEF LockAssumption, IndInv, TuiResume, SwitchLock
<1>1. TypeOK'
  BY DEF TypeOK, LockedIsCurrent, Started, InTurn
<1>2. LocksReal'
  BY DEF TypeOK, LocksReal, CanAcquire, CanRefresh, Started
<1>3. LockedIsCurrent'
  BY DEF TypeOK, LockedIsCurrent, Started, InTurn
<1>4. HoldersHold'
  BY DEF TypeOK, HoldersHold, LocksReal, LockedIsCurrent, CanAcquire, CanRefresh, Live, Started
<1>5. TurnsHold'
  BY DEF TypeOK, TurnsHold, HoldersHold, LockedIsCurrent, CanAcquire, CanRefresh, InTurn, Started
<1>6. WriteOwned'
  BY DEF TypeOK, WriteOwned, LocksReal, LockedIsCurrent, CanAcquire, CanRefresh, Live, Started, InTurn
<1>. QED
  BY <1>1, <1>2, <1>3, <1>4, <1>5, <1>6

\* The inductive invariant is kept by /new.
LEMMA TuiNewKeeps ==
  ASSUME IndInv, NEW p \in Tui, NEW s \in Session, TuiNew(p, s)
  PROVE  IndInv'
<1>. USE LockAssumption DEF LockAssumption, IndInv, TuiNew, SwitchLock
<1>1. TypeOK'
  BY DEF TypeOK, LockedIsCurrent, Started, InTurn
<1>2. LocksReal'
  BY DEF TypeOK, LocksReal, CanAcquire, CanRefresh, Started
<1>3. LockedIsCurrent'
  BY DEF TypeOK, LockedIsCurrent, Started, InTurn
<1>4. HoldersHold'
  BY DEF TypeOK, HoldersHold, LocksReal, LockedIsCurrent, CanAcquire, CanRefresh, Live, Started
<1>5. TurnsHold'
  BY DEF TypeOK, TurnsHold, HoldersHold, LockedIsCurrent, CanAcquire, CanRefresh, InTurn, Started
<1>6. WriteOwned'
  BY DEF TypeOK, WriteOwned, LocksReal, LockedIsCurrent, CanAcquire, CanRefresh, Live, Started, InTurn
<1>. QED
  BY <1>1, <1>2, <1>3, <1>4, <1>5, <1>6

\* The inductive invariant is kept by the first turn of a lazy session.
LEMMA TuiFirstTurnKeeps ==
  ASSUME IndInv, NEW p \in Tui, NEW s \in Session, TuiFirstTurn(p, s)
  PROVE  IndInv'
<1>. USE LockAssumption DEF LockAssumption, IndInv, TuiFirstTurn, SwitchLock, Loaded
<1>1. TypeOK'
  BY DEF TypeOK, LockedIsCurrent, Started, InTurn
<1>2. LocksReal'
  BY DEF TypeOK, LocksReal, CanAcquire, CanRefresh, Started
<1>3. LockedIsCurrent'
  BY DEF TypeOK, LockedIsCurrent, Started, InTurn
<1>4. HoldersHold'
  BY DEF TypeOK, HoldersHold, LocksReal, LockedIsCurrent, CanAcquire, CanRefresh, Live, Started
<1>5. TurnsHold'
  BY DEF TypeOK, TurnsHold, HoldersHold, LockedIsCurrent, CanAcquire, CanRefresh, InTurn, Started
<1>6. WriteOwned'
  BY DEF TypeOK, WriteOwned, LocksReal, LockedIsCurrent, CanAcquire, CanRefresh, Live, Started, InTurn
<1>. QED
  BY <1>1, <1>2, <1>3, <1>4, <1>5, <1>6

\* The inductive invariant is kept by a turn under the cached lock.
LEMMA TuiTurnHeldKeeps ==
  ASSUME IndInv, NEW p \in Tui, TuiTurnHeld(p)
  PROVE  IndInv'
<1>1. TypeOK'
  <2>. USE DEF IndInv, TuiTurnHeld
  <2>1. CASE CanRefresh(p, current[p])
    <3>1. current[p] \in Session
      BY DEF TypeOK
    <3>2. copy' \in [Proc -> [Session -> {"none", "current", "behind"}]]
      BY <2>1, <3>1, LoadedTyped DEF BeginTurn
    <3>3. age' \in [Session -> 0..TTL + 1]
      BY <2>1, <3>1, LockAssumption DEF TypeOK, LockAssumption
    <3>4. pc' \in [Proc -> {"new", "idle", "turn", "checked", "tool", "dead"}]
      BY <2>1 DEF TypeOK, BeginTurn
    <3>. QED
      BY <2>1, <3>2, <3>3, <3>4 DEF TypeOK
  <2>2. CASE ~CanRefresh(p, current[p])
    BY <2>2 DEF TypeOK
  <2>. QED
    BY <2>1, <2>2
<1>. USE LockAssumption DEF LockAssumption, IndInv, TuiTurnHeld, BeginTurn, Loaded
<1>2. LocksReal'
  BY DEF TypeOK, LocksReal, CanAcquire, CanRefresh, Started
<1>3. LockedIsCurrent'
  BY DEF TypeOK, LockedIsCurrent, Started, InTurn
<1>4. HoldersHold'
  BY DEF TypeOK, HoldersHold, LocksReal, LockedIsCurrent, CanAcquire, CanRefresh, Live, Started
<1>5. TurnsHold'
  BY DEF TypeOK, TurnsHold, HoldersHold, LockedIsCurrent, CanAcquire, CanRefresh, InTurn, Started
<1>6. WriteOwned'
  BY DEF TypeOK, WriteOwned, LocksReal, LockedIsCurrent, CanAcquire, CanRefresh, Live, Started, InTurn
<1>. QED
  BY <1>1, <1>2, <1>3, <1>4, <1>5, <1>6

\* The inductive invariant is kept by a turn that takes the lock first.
LEMMA TuiTurnUnheldKeeps ==
  ASSUME IndInv, NEW p \in Tui, TuiTurnUnheld(p)
  PROVE  IndInv'
<1>. USE LockAssumption DEF LockAssumption, IndInv, TuiTurnUnheld, SwitchLock, BeginTurn, Loaded
<1>1. TypeOK'
  BY DEF TypeOK, LockedIsCurrent, Started, InTurn
<1>2. LocksReal'
  BY DEF TypeOK, LocksReal, CanAcquire, CanRefresh, Started
<1>3. LockedIsCurrent'
  BY DEF TypeOK, LockedIsCurrent, Started, InTurn
<1>4. HoldersHold'
  BY DEF TypeOK, HoldersHold, LocksReal, LockedIsCurrent, CanAcquire, CanRefresh, Live, Started
<1>5. TurnsHold'
  BY DEF TypeOK, TurnsHold, HoldersHold, LockedIsCurrent, CanAcquire, CanRefresh, InTurn, Started
<1>6. WriteOwned'
  BY DEF TypeOK, WriteOwned, LocksReal, LockedIsCurrent, CanAcquire, CanRefresh, Live, Started, InTurn
<1>. QED
  BY <1>1, <1>2, <1>3, <1>4, <1>5, <1>6

\* The inductive invariant is kept by a window's heartbeat.
LEMMA TuiHeartbeatKeeps ==
  ASSUME IndInv, NEW p \in Tui, TuiHeartbeat(p)
  PROVE  IndInv'
<1>1. TypeOK'
  <2>. USE DEF IndInv, TuiHeartbeat
  <2>1. locked[p] \in Session
    BY DEF TypeOK
  <2>. QED
    BY <2>1, HoldsTyped, LockAssumption DEF TypeOK, LockAssumption
<1>. USE LockAssumption DEF LockAssumption, IndInv, TuiHeartbeat, Holds
<1>2. LocksReal'
  BY DEF TypeOK, LocksReal, CanAcquire, CanRefresh, Started
<1>3. LockedIsCurrent'
  BY DEF TypeOK, LockedIsCurrent, Started, InTurn
<1>4. HoldersHold'
  <2>1. SUFFICES ASSUME ~stalls, NEW q \in Started, locked'[q] # Nobody
                 PROVE  owner'[locked'[q]] = q /\ age'[locked'[q]] <= TTL
    BY DEF HoldersHold, Started
  <2>2. locked[q] # Nobody /\ locked[q] = locked'[q]
    BY <2>1 DEF TypeOK, Started
  <2>3. owner[locked[q]] = q /\ age[locked[q]] <= TTL
    BY <2>1, <2>2 DEF HoldersHold
  <2>4. q \in Proc /\ locked[q] \in Session
    BY <2>2 DEF TypeOK, Started
  <2>5. owner[locked[p]] = p
    BY <2>1 DEF HoldersHold, Started
  <2>6. locked[p] \in Session /\ owner' = [owner EXCEPT ![locked[p]] = p]
                           /\ age' = [age EXCEPT ![locked[p]] = 0]
    BY <2>5 DEF TypeOK, CanRefresh
  <2>. QED
    BY <2>2, <2>3, <2>4, <2>5, <2>6 DEF TypeOK
<1>5. TurnsHold'
  BY DEF TypeOK, TurnsHold, HoldersHold, LockedIsCurrent, CanAcquire, CanRefresh, InTurn, Started
<1>6. WriteOwned'
  BY DEF TypeOK, WriteOwned, LocksReal, LockedIsCurrent, CanAcquire, CanRefresh, Live, Started, InTurn
<1>. QED
  BY <1>1, <1>2, <1>3, <1>4, <1>5, <1>6

\* The inductive invariant is kept by the end of a window.
LEMMA TuiExitKeeps ==
  ASSUME IndInv, NEW p \in Tui, TuiExit(p)
  PROVE  IndInv'
<1>. USE LockAssumption DEF LockAssumption, IndInv, TuiExit, Ends
<1>1. TypeOK'
  BY DEF TypeOK, LockedIsCurrent, Started, InTurn
<1>2. LocksReal'
  BY DEF TypeOK, LocksReal, CanAcquire, CanRefresh, Started
<1>3. LockedIsCurrent'
  BY DEF TypeOK, LockedIsCurrent, Started, InTurn
<1>4. HoldersHold'
  BY DEF TypeOK, HoldersHold, LocksReal, LockedIsCurrent, CanAcquire, CanRefresh, Live, Started
<1>5. TurnsHold'
  BY DEF TypeOK, TurnsHold, HoldersHold, LockedIsCurrent, CanAcquire, CanRefresh, InTurn, Started
<1>6. WriteOwned'
  BY DEF TypeOK, WriteOwned, LocksReal, LockedIsCurrent, CanAcquire, CanRefresh, Live, Started, InTurn
<1>. QED
  BY <1>1, <1>2, <1>3, <1>4, <1>5, <1>6

\* The inductive invariant is kept by a guard check that succeeds.
LEMMA CheckKeeps ==
  ASSUME IndInv, NEW p \in Proc, Check(p)
  PROVE  IndInv'
<1>. USE LockAssumption DEF LockAssumption, IndInv, Check, Owns
<1>1. TypeOK'
  BY DEF TypeOK, LockedIsCurrent, Started, InTurn
<1>2. LocksReal'
  BY DEF TypeOK, LocksReal, CanAcquire, CanRefresh, Started
<1>3. LockedIsCurrent'
  BY DEF TypeOK, LockedIsCurrent, Started, InTurn
<1>4. HoldersHold'
  BY DEF TypeOK, HoldersHold, LocksReal, LockedIsCurrent, CanAcquire, CanRefresh, Live, Started
<1>5. TurnsHold'
  BY DEF TypeOK, TurnsHold, HoldersHold, LockedIsCurrent, CanAcquire, CanRefresh, InTurn, Started
<1>6. WriteOwned'
  BY DEF TypeOK, WriteOwned, LocksReal, LockedIsCurrent, CanAcquire, CanRefresh, Live, Started, InTurn
<1>. QED
  BY <1>1, <1>2, <1>3, <1>4, <1>5, <1>6

\* The inductive invariant is kept by a guard check that fails.
LEMMA CheckFailsKeeps ==
  ASSUME IndInv, NEW p \in Proc, CheckFails(p)
  PROVE  IndInv'
<1>1. TypeOK'
  BY TurnEndsTyped DEF IndInv, CheckFails
<1>. USE LockAssumption DEF LockAssumption, IndInv, CheckFails, TurnEnds, CliEnds, Ends, Releases
<1>2. LocksReal'
  BY DEF TypeOK, LocksReal, CanAcquire, CanRefresh, Started
<1>3. LockedIsCurrent'
  BY DEF TypeOK, LockedIsCurrent, Started, InTurn
<1>4. HoldersHold'
  BY DEF TypeOK, HoldersHold, LocksReal, LockedIsCurrent, CanAcquire, CanRefresh, Live, Started
<1>5. TurnsHold'
  BY DEF TypeOK, TurnsHold, HoldersHold, LockedIsCurrent, CanAcquire, CanRefresh, InTurn, Started
<1>6. WriteOwned'
  BY DEF TypeOK, WriteOwned, LocksReal, LockedIsCurrent, CanAcquire, CanRefresh, Live, Started, InTurn
<1>. QED
  BY <1>1, <1>2, <1>3, <1>4, <1>5, <1>6

\* The inductive invariant is kept by _append.
LEMMA AppendKeeps ==
  ASSUME IndInv, NEW p \in Proc, AppendMessage(p)
  PROVE  IndInv'
<1>. USE LockAssumption DEF LockAssumption, IndInv, AppendMessage, Stored
<1>1. TypeOK'
  BY DEF TypeOK, LockedIsCurrent, Started, InTurn
<1>2. LocksReal'
  BY DEF TypeOK, LocksReal, CanAcquire, CanRefresh, Started
<1>3. LockedIsCurrent'
  BY DEF TypeOK, LockedIsCurrent, Started, InTurn
<1>4. HoldersHold'
  BY DEF TypeOK, HoldersHold, LocksReal, LockedIsCurrent, CanAcquire, CanRefresh, Live, Started
<1>5. TurnsHold'
  BY DEF TypeOK, TurnsHold, HoldersHold, LockedIsCurrent, CanAcquire, CanRefresh, InTurn, Started
<1>6. WriteOwned'
  BY DEF TypeOK, WriteOwned, LocksReal, LockedIsCurrent, CanAcquire, CanRefresh, Live, Started, InTurn
<1>. QED
  BY <1>1, <1>2, <1>3, <1>4, <1>5, <1>6

\* The inductive invariant is kept by the start of a tool.
LEMMA DispatchKeeps ==
  ASSUME IndInv, NEW p \in Proc, Dispatch(p)
  PROVE  IndInv'
<1>. USE LockAssumption DEF LockAssumption, IndInv, Dispatch
<1>1. TypeOK'
  BY DEF TypeOK, LockedIsCurrent, Started, InTurn
<1>2. LocksReal'
  BY DEF TypeOK, LocksReal, CanAcquire, CanRefresh, Started
<1>3. LockedIsCurrent'
  BY DEF TypeOK, LockedIsCurrent, Started, InTurn
<1>4. HoldersHold'
  BY DEF TypeOK, HoldersHold, LocksReal, LockedIsCurrent, CanAcquire, CanRefresh, Live, Started
<1>5. TurnsHold'
  BY DEF TypeOK, TurnsHold, HoldersHold, LockedIsCurrent, CanAcquire, CanRefresh, InTurn, Started
<1>6. WriteOwned'
  BY DEF TypeOK, WriteOwned, LocksReal, LockedIsCurrent, CanAcquire, CanRefresh, Live, Started, InTurn
<1>. QED
  BY <1>1, <1>2, <1>3, <1>4, <1>5, <1>6

\* The inductive invariant is kept by the end of a tool.
LEMMA ToolDoneKeeps ==
  ASSUME IndInv, NEW p \in Proc, ToolDone(p)
  PROVE  IndInv'
<1>. USE LockAssumption DEF LockAssumption, IndInv, ToolDone
<1>1. TypeOK'
  BY DEF TypeOK, LockedIsCurrent, Started, InTurn
<1>2. LocksReal'
  BY DEF TypeOK, LocksReal, CanAcquire, CanRefresh, Started
<1>3. LockedIsCurrent'
  BY DEF TypeOK, LockedIsCurrent, Started, InTurn
<1>4. HoldersHold'
  BY DEF TypeOK, HoldersHold, LocksReal, LockedIsCurrent, CanAcquire, CanRefresh, Live, Started
<1>5. TurnsHold'
  BY DEF TypeOK, TurnsHold, HoldersHold, LockedIsCurrent, CanAcquire, CanRefresh, InTurn, Started
<1>6. WriteOwned'
  BY DEF TypeOK, WriteOwned, LocksReal, LockedIsCurrent, CanAcquire, CanRefresh, Live, Started, InTurn
<1>. QED
  BY <1>1, <1>2, <1>3, <1>4, <1>5, <1>6

\* The inductive invariant is kept by a compaction.
LEMMA CompactKeeps ==
  ASSUME IndInv, NEW p \in Proc, Compact(p)
  PROVE  IndInv'
<1>. USE LockAssumption DEF LockAssumption, IndInv, Compact
<1>1. TypeOK'
  BY DEF TypeOK, LockedIsCurrent, Started, InTurn
<1>2. LocksReal'
  BY DEF TypeOK, LocksReal, CanAcquire, CanRefresh, Started
<1>3. LockedIsCurrent'
  BY DEF TypeOK, LockedIsCurrent, Started, InTurn
<1>4. HoldersHold'
  BY DEF TypeOK, HoldersHold, LocksReal, LockedIsCurrent, CanAcquire, CanRefresh, Live, Started
<1>5. TurnsHold'
  BY DEF TypeOK, TurnsHold, HoldersHold, LockedIsCurrent, CanAcquire, CanRefresh, InTurn, Started
<1>6. WriteOwned'
  BY DEF TypeOK, WriteOwned, LocksReal, LockedIsCurrent, CanAcquire, CanRefresh, Live, Started, InTurn
<1>. QED
  BY <1>1, <1>2, <1>3, <1>4, <1>5, <1>6

\* The inductive invariant is kept by the end of a turn.
LEMMA FinishKeeps ==
  ASSUME IndInv, NEW p \in Proc, Finish(p)
  PROVE  IndInv'
<1>1. TypeOK'
  BY TurnEndsTyped DEF IndInv, Finish
<1>. USE LockAssumption DEF LockAssumption, IndInv, Finish, TurnEnds, CliEnds, Ends, Releases
<1>2. LocksReal'
  BY DEF TypeOK, LocksReal, CanAcquire, CanRefresh, Started
<1>3. LockedIsCurrent'
  BY DEF TypeOK, LockedIsCurrent, Started, InTurn
<1>4. HoldersHold'
  BY DEF TypeOK, HoldersHold, LocksReal, LockedIsCurrent, CanAcquire, CanRefresh, Live, Started
<1>5. TurnsHold'
  BY DEF TypeOK, TurnsHold, HoldersHold, LockedIsCurrent, CanAcquire, CanRefresh, InTurn, Started
<1>6. WriteOwned'
  BY DEF TypeOK, WriteOwned, LocksReal, LockedIsCurrent, CanAcquire, CanRefresh, Live, Started, InTurn
<1>. QED
  BY <1>1, <1>2, <1>3, <1>4, <1>5, <1>6

\* The inductive invariant is kept by a crash.
LEMMA CrashKeeps ==
  ASSUME IndInv, NEW p \in Proc, Crash(p)
  PROVE  IndInv'
<1>. USE LockAssumption DEF LockAssumption, IndInv, Crash, Ends
<1>1. TypeOK'
  BY DEF TypeOK, LockedIsCurrent, Started, InTurn
<1>2. LocksReal'
  BY DEF TypeOK, LocksReal, CanAcquire, CanRefresh, Started
<1>3. LockedIsCurrent'
  BY DEF TypeOK, LockedIsCurrent, Started, InTurn
<1>4. HoldersHold'
  BY DEF TypeOK, HoldersHold, LocksReal, LockedIsCurrent, CanAcquire, CanRefresh, Live, Started
<1>5. TurnsHold'
  BY DEF TypeOK, TurnsHold, HoldersHold, LockedIsCurrent, CanAcquire, CanRefresh, InTurn, Started
<1>6. WriteOwned'
  BY DEF TypeOK, WriteOwned, LocksReal, LockedIsCurrent, CanAcquire, CanRefresh, Live, Started, InTurn
<1>. QED
  BY <1>1, <1>2, <1>3, <1>4, <1>5, <1>6

\* The inductive invariant is kept by delete_session.
LEMMA DeleteKeeps ==
  ASSUME IndInv, NEW s \in Session, NEW p \in Proc, Delete(s, p)
  PROVE  IndInv'
<1>. USE LockAssumption DEF LockAssumption, IndInv, Delete
<1>1. TypeOK'
  BY DEF TypeOK, LockedIsCurrent, Started, InTurn
<1>2. LocksReal'
  BY DEF TypeOK, LocksReal, CanAcquire, CanRefresh, Started
<1>3. LockedIsCurrent'
  BY DEF TypeOK, LockedIsCurrent, Started, InTurn
<1>4. HoldersHold'
  BY DEF TypeOK, HoldersHold, LocksReal, LockedIsCurrent, CanAcquire, CanRefresh, Live, Started
<1>5. TurnsHold'
  BY DEF TypeOK, TurnsHold, HoldersHold, LockedIsCurrent, CanAcquire, CanRefresh, InTurn, Started
<1>6. WriteOwned'
  BY DEF TypeOK, WriteOwned, LocksReal, LockedIsCurrent, CanAcquire, CanRefresh, Live, Started, InTurn
<1>. QED
  BY <1>1, <1>2, <1>3, <1>4, <1>5, <1>6

\* The inductive invariant is kept by the passing of time.
LEMMA TickKeeps ==
  ASSUME IndInv, Tick
  PROVE  IndInv'
<1>. USE LockAssumption DEF LockAssumption, IndInv, Tick, Older, Timely
<1>1. TypeOK'
  BY DEF TypeOK, LockedIsCurrent, Started, InTurn
<1>2. LocksReal'
  BY DEF TypeOK, LocksReal, CanAcquire, CanRefresh, Started
<1>3. LockedIsCurrent'
  BY DEF TypeOK, LockedIsCurrent, Started, InTurn
<1>4. HoldersHold'
  BY DEF TypeOK, HoldersHold, LocksReal, LockedIsCurrent, CanAcquire, CanRefresh, Live, Started
<1>5. TurnsHold'
  BY DEF TypeOK, TurnsHold, HoldersHold, LockedIsCurrent, CanAcquire, CanRefresh, InTurn, Started
<1>6. WriteOwned'
  BY DEF TypeOK, WriteOwned, LocksReal, LockedIsCurrent, CanAcquire, CanRefresh, Live, Started, InTurn
<1>. QED
  BY <1>1, <1>2, <1>3, <1>4, <1>5, <1>6

\* The initial state satisfies the inductive invariant.
LEMMA InitEstablishes == LockAssumption /\ Init => IndInv
  BY DEF LockAssumption, Init, IndInv, TypeOK, LocksReal, LockedIsCurrent, HoldersHold, TurnsHold,
         WriteOwned, Started, InTurn

\* A step that changes nothing keeps it.
LEMMA StutterKeeps == IndInv /\ UNCHANGED vars => IndInv'
  BY DEF IndInv, TypeOK, LocksReal, LockedIsCurrent, HoldersHold, TurnsHold, WriteOwned, Started, InTurn

\* Every step of a run, a window, a turn, the clock and a deletion keeps it.
LEMMA NextKeeps == IndInv /\ Next => IndInv'
<1>. SUFFICES ASSUME IndInv, Next PROVE IndInv'
  OBVIOUS
<1>1. ASSUME NEW p \in Cli, CliStep(p) PROVE IndInv'
  BY <1>1, CliStartKeeps, CliRunKeeps, CliHeartbeatKeeps DEF CliStep
<1>2. ASSUME NEW p \in Tui, TuiStep(p) PROVE IndInv'
  BY <1>2, TuiStartKeeps, TuiTurnHeldKeeps, TuiTurnUnheldKeeps, TuiHeartbeatKeeps, TuiExitKeeps,
     TuiOpenKeeps, TuiResumeKeeps, TuiNewKeeps, TuiFirstTurnKeeps DEF TuiStep
<1>3. ASSUME NEW p \in Proc, TurnStep(p) PROVE IndInv'
  BY <1>3, CheckKeeps, CheckFailsKeeps, AppendKeeps, DispatchKeeps, ToolDoneKeeps, CompactKeeps,
     FinishKeeps DEF TurnStep
<1>4. ASSUME NEW p \in Proc, Crash(p) \/ \E s \in Session : Delete(s, p) PROVE IndInv'
  BY <1>4, CrashKeeps, DeleteKeeps
<1>. QED
  BY <1>1, <1>2, <1>3, <1>4, TickKeeps DEF Next

\* The inductive invariant holds in every reachable state.
THEOREM Inductive == Spec => []IndInv
<1>1. IndInv /\ [Next]_vars => IndInv'
  BY NextKeeps, StutterKeeps
<1>. QED
  BY LockAssumption, InitEstablishes, <1>1, PTL DEF Spec

\* However many processes share the sessions and however long they stall: what is
\* written or started within the lock's life after the guard said yes is written or
\* started under the process's own lock (_require_owner, refresh_lock).
THEOREM GuardedWritesOwned == Spec => []WriteOwned
<1>1. IndInv => WriteOwned
  BY DEF IndInv
<1>. QED
  BY Inductive, <1>1, PTL

\* While no process stalls for longer than a lock lives, at most one process runs a
\* turn on a conversation (acquire_lock, _lock_live, the heartbeats).
THEOREM AtMostOneRunner == Spec => []OneRunner
<1>1. ASSUME IndInv, ~stalls, NEW p \in InTurn PROVE owner[current[p]] = p
  <2>1. p \in Started /\ locked[p] = current[p] /\ current[p] \in Session
    BY <1>1 DEF IndInv, TurnsHold, LockedIsCurrent, InTurn, Started
  <2>2. locked[p] # Nobody
    BY <2>1, LockAssumption DEF LockAssumption
  <2>. QED
    BY <1>1, <2>1, <2>2 DEF IndInv, HoldersHold
<1>2. IndInv => OneRunner
  BY <1>1 DEF OneRunner
<1>. QED
  BY Inductive, <1>2, PTL

\* Only a deletion removes a session, and a live lock refuses it; the lock of a running
\* front end that holds its session is live when nobody stalls.
LEMMA DeleteStep ==
  ASSUME IndInv, [Next]_vars
  PROVE  stalls \/ \A s \in Session : row[s] = "saved" /\ row'[s] = "deleted" =>
           \A p \in Started : locked[p] # s
<1>. SUFFICES ASSUME ~stalls, NEW s \in Session, row[s] = "saved", row'[s] = "deleted",
                     NEW p \in Started, locked[p] = s
              PROVE  FALSE
  OBVIOUS
<1>1. \E q \in Proc : \E x \in Session : Delete(x, q)
  <2>1. CASE \E q \in Cli : CliStep(q)
    BY <2>1 DEF CliStep, CliStart, CliRun, CliEnds, CliHeartbeat, Ends, IndInv, TypeOK
  <2>2. CASE \E q \in Tui : TuiStep(q)
    BY <2>2 DEF TuiStep, TuiStart, TuiTurnHeld, TuiTurnUnheld, TuiHeartbeat, TuiExit, TuiOpen,
       TuiResume, TuiNew, TuiFirstTurn, IndInv, TypeOK
  <2>3. CASE \E q \in Proc : TurnStep(q)
    BY <2>3 DEF TurnStep, Check, CheckFails, AppendMessage, Dispatch, ToolDone, Compact, Finish,
       TurnEnds, CliEnds, IndInv, TypeOK
  <2>4. CASE \E q \in Proc : Crash(q)
    BY <2>4 DEF Crash, IndInv, TypeOK
  <2>5. CASE Tick \/ UNCHANGED vars
    BY <2>5 DEF Tick, IndInv, TypeOK
  <2>. QED
    BY <2>1, <2>2, <2>3, <2>4, <2>5 DEF Next
<1>2. PICK q \in Proc : ~Live(s, q)
  BY <1>1 DEF Delete, IndInv, TypeOK
<1>3. owner[s] = p /\ age[s] <= TTL
  BY LockAssumption DEF IndInv, HoldersHold, LockAssumption
<1>. QED
  BY <1>2, <1>3, LockAssumption DEF Live, Started, LockAssumption

\* DeleteSparesActive: "a session held by a live Nedster cannot be deleted"
\* (delete_session), for every number of sessions and processes.
THEOREM DeletionSparesActive == Spec => DeleteSparesActive
<1>1. IndInv /\ [Next]_vars =>
        (stalls \/ \A s \in Session : row[s] = "saved" /\ row'[s] = "deleted" =>
           \A p \in Started : locked[p] # s)
  BY DeleteStep
<1>. QED
  BY <1>1, Inductive, PTL DEF Spec, DeleteSparesActive
=============================================================================
