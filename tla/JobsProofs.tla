------------------------------ MODULE JobsProofs ------------------------------
(***************************************************************************)
(* Proofs about Jobs, for any number of processes, any output and any      *)
(* interleaving of the processes with the monitor, the reader and a        *)
(* cancel: when a result is there nothing tracked is left (NothingLeft),   *)
(* and the result tells the command's own story (EndTold).                 *)
(***************************************************************************)
EXTENDS Jobs, FiniteSetTheorems, SequenceTheorems, TLAPS

Thread == {"monitor", "cancel"}

\* processes are numbered as they come, none before the job is started
BornOK ==
  /\ \E n \in 0..Children + 1 : born = 0..n - 1
  /\ monitor = "start" => born = {}
  /\ born = {} => /\ monitor \in {"start", "done"} /\ cancel = "none"
                  /\ code = None /\ exit = None /\ sent = 0 /\ container = "none" /\ ~signalled
  /\ container # "none" => backend = "docker"

\* what was tracked and still lives is known
TreeOK ==
  /\ seen \subseteq born /\ known \subseteq seen
  /\ alive \cap seen \subseteq known

\* one thread kills at a time
LockOK == \A t \in Thread : killLock = t <=> Me(t) \in Killing \ {"lock"}

\* nothing that the threads ever saw lives
Cleared == alive \cap (seen \cup group \cup {Root}) = {}

\* what a killing has come to; only the monitor's second one is alone with the tree
KillOK ==
  /\ second => Root \in born \ alive
  /\ monitor \in {"join", "finalize"} => second
  /\ \A t \in Thread : Me(t) \in {"known", "forget", "root"} => alive \cap group = {}
  /\ second /\ monitor \in {"forget", "root"} => alive \cap known = {}
  /\ monitor \in {"join", "finalize", "done"} => Cleared

\* a kill is noted before it is done, and the first process's end is read once
StatusOK ==
  /\ cancel # "none" => reason # None
  /\ monitor \in Killing \cup {"reap"} /\ ~second => reason # None
  /\ signalled => reason # None
  /\ Root \in born \ alive => exit # None
  /\ code # None => code = exit /\ Root \in born \ alive
  /\ second \/ monitor = "reap" => code # None
  /\ result # None => monitor = "done"
  /\ monitor = "done" => result # None
  /\ cancel = "returned" => result # None
  /\ result # None =>
       /\ result.status \in {"ok", "failed"} => ~signalled /\ code = exit
       /\ result.status \in {"timeout", "cancelled"} => born # {}
  /\ reader = "eof" => monitor # "start" /\ holders = {} /\ total = sent

\* the numbers after a up to b
Span(a, b) == [i \in 1..b - a |-> a + i]
HeadEnd(n) == Smaller(HeadBytes, n)
TailStart(n) == IF n > HeadBytes + TailBytes THEN n - TailBytes ELSE HeadEnd(n)

\* what is not kept, and where the part of the tail that is shown begins
Gap(n) == TailStart(n) - HeadEnd(n)
ShownStart(n) == IF Gap(n) = 0 THEN TailStart(n) ELSE TailStart(n) + MarkerBytes

\* somebody lives, or has lived, that no thread ever saw
Stranger == \E p \in born : p \notin seen \cup group

\* head and tail are the ends of what was fed, and what the result lacks came from a stranger
OutputOK ==
  /\ head = Span(0, HeadEnd(total)) /\ tail = Span(TailStart(total), total)
  /\ monitor = "finalize" => reader = "eof" \/ Stranger
  /\ result # None =>
       /\ result.head = Span(0, HeadEnd(result.total))
       /\ result.tail = Span(ShownStart(result.total), result.total)
       /\ result.omitted = Gap(result.total)
       /\ result.total < sent => Stranger

JInv == TypeOK /\ BornOK /\ TreeOK /\ LockOK /\ KillOK /\ StatusOK /\ OutputOK

-----------------------------------------------------------------------------
(* Operators *)

\* A span is a sequence of the numbers it names.
LEMMA SpanSeq ==
  ASSUME NEW a \in Nat, NEW b \in Nat, a <= b
  PROVE  /\ Span(a, b) \in Seq(Nat) /\ Len(Span(a, b)) = b - a
         /\ \A i \in 1..b - a : Span(a, b)[i] = a + i
         /\ \A n \in Nat : b <= n => Span(a, b) \in Seq(1..n)
<1>1. b - a \in Nat
  OBVIOUS
<1>2. \A i \in 1..b - a : a + i \in Nat /\ a + i >= 1 /\ a + i <= b
  OBVIOUS
<1>3. Span(a, b) \in [1..b - a -> Nat]
  BY <1>2 DEF Span
<1>4. \A n \in Nat : b <= n => Span(a, b) \in [1..b - a -> 1..n]
  BY <1>2 DEF Span
<1>5. ASSUME NEW S, Span(a, b) \in [1..b - a -> S]
      PROVE  Span(a, b) \in Seq(S) /\ Len(Span(a, b)) = b - a
  <2>. DEFINE s == Span(a, b)
  <2>. HIDE DEF s
  <2>1. s \in [1..b - a -> S]
    BY <1>5 DEF s
  <2>2. s \in UNION {[1..n -> S] : n \in Nat}
    BY <1>1, <2>1
  <2>3. s \in Seq(S)
    BY <2>2, SeqDef
  <2>4. Len(s) \in Nat /\ DOMAIN s = 1..Len(s) /\ DOMAIN s = 1..b - a
    BY <2>1, <2>3, LenProperties
  <2>. QED
    BY <1>1, <2>3, <2>4 DEF s
<1>6. \A i \in 1..b - a : Span(a, b)[i] = a + i
  BY DEF Span
<1>. QED
  BY <1>3, <1>4, <1>5, <1>6

\* Spans that meet are one.
LEMMA SpanJoin ==
  ASSUME NEW a \in Nat, NEW b \in Nat, NEW c \in Nat, a <= b, b <= c
  PROVE  Span(a, b) \o Span(b, c) = Span(a, c)
<1>. DEFINE s == Span(a, b)
            t == Span(b, c)
            u == Span(a, c)
<1>1. /\ s \in Seq(Nat) /\ Len(s) = b - a /\ \A i \in 1..b - a : s[i] = a + i
      /\ t \in Seq(Nat) /\ Len(t) = c - b /\ \A i \in 1..c - b : t[i] = b + i
  BY SpanSeq
<1>2. u \in Seq(Nat) /\ Len(u) = c - a /\ \A i \in 1..c - a : u[i] = a + i
  <2>1. a <= c
    OBVIOUS
  <2>. QED
    BY <2>1, SpanSeq
<1>. HIDE DEF s, t, u
<1>3. /\ s \o t \in Seq(Nat) /\ Len(s \o t) = c - a
      /\ \A i \in 1..c - a : (s \o t)[i] = IF i <= b - a THEN s[i] ELSE t[i - (b - a)]
  <2>1. /\ s \o t \in Seq(Nat) /\ Len(s \o t) = Len(s) + Len(t)
        /\ \A i \in 1..Len(s) + Len(t) : (s \o t)[i] = IF i <= Len(s) THEN s[i] ELSE t[i - Len(s)]
    BY <1>1, ConcatProperties
  <2>2. Len(s) + Len(t) = c - a
    BY <1>1
  <2>. QED
    BY <1>1, <2>1, <2>2
<1>4. ASSUME NEW i \in 1..c - a
      PROVE  (s \o t)[i] = u[i]
  <2>1. CASE i <= b - a
    BY <1>1, <1>2, <1>3, <2>1
  <2>2. CASE ~(i <= b - a)
    <3>1. i - (b - a) \in 1..c - b /\ b + (i - (b - a)) = a + i
      BY <2>2
    <3>. QED
      BY <1>1, <1>2, <1>3, <2>2, <3>1
  <2>. QED
    BY <2>1, <2>2
<1>5. s \o t = u
  BY <1>2, <1>3, <1>4, SeqEqual
<1>. QED
  BY <1>5 DEF s, t, u

\* the part of s from place k to place e; the provers know it by SpanPart
Part(s, k, e) == SubSeq(s, k, e)

\* A part of a span is a span.
LEMMA SpanPart ==
  ASSUME NEW a \in Nat, NEW b \in Nat, NEW k \in Nat, NEW e \in Nat, NEW c \in Nat, NEW d \in Nat,
         a <= b, k >= 1, k <= e + 1, e <= b - a, c = a + k - 1, d = a + e
  PROVE  Part(Span(a, b), k, e) = Span(c, d)
<1>. DEFINE s == Span(a, b)
            t == SubSeq(s, k, e)
            u == Span(c, d)
<1>1. s \in Seq(Nat) /\ Len(s) = b - a /\ \A i \in 1..b - a : s[i] = a + i
  BY SpanSeq
<1>2. u \in Seq(Nat) /\ Len(u) = d - c /\ \A i \in 1..d - c : u[i] = c + i
  <2>1. c <= d
    OBVIOUS
  <2>. QED
    BY <2>1, SpanSeq
<1>. HIDE DEF s, u
<1>3. /\ t \in Seq(Nat) /\ Len(t) = d - c
      /\ \A i \in 1..d - c : t[i] = s[k + i - 1]
  <2>1. k \in Int /\ e \in Int /\ \A i \in k..e : s[i] \in Nat
    BY <1>1
  <2>2. /\ t \in Seq(Nat) /\ Len(t) = IF k <= e THEN e - k + 1 ELSE 0
        /\ \A i \in 1..e - k + 1 : t[i] = s[k + i - 1]
    BY <2>1, SubSeqProperties
  <2>3. e - k + 1 = d - c /\ (~(k <= e) => d - c = 0)
    OBVIOUS
  <2>. HIDE DEF t
  <2>. QED
    BY <2>2, <2>3
<1>4. \A i \in 1..d - c : t[i] = u[i]
  BY <1>1, <1>2, <1>3
<1>. HIDE DEF t
<1>5. t = u
  BY <1>2, <1>3, <1>4, SeqEqual
<1>. QED
  BY <1>5 DEF s, t, u, Part

\* A span from a number to itself is empty.
LEMMA EmptySpan ==
  ASSUME NEW c \in Nat
  PROVE  Span(c, c) = << >>
<1>1. Span(c, c) \in Seq(Nat) /\ Len(Span(c, c)) = 0
  <2>1. c <= c /\ c - c = 0
    OBVIOUS
  <2>. QED
    BY <2>1, SpanSeq
<1>. QED
  BY <1>1, EmptySeq

\* An empty span adds nothing.
LEMMA SpanEmpty ==
  ASSUME NEW a \in Nat, NEW b \in Nat, NEW c \in Nat, a <= b
  PROVE  Span(a, b) \o Span(c, c) = Span(a, b) /\ Span(c, c) \o Span(a, b) = Span(a, b)
<1>1. Span(a, b) \in Seq(Nat)
  BY SpanSeq
<1>. QED
  BY <1>1, EmptySpan, ConcatEmptySeq

\* BoundedOutput keeps the first HEAD_BYTES and the last TAIL_BYTES of what it is fed, however the
\* bytes come in chunks.
LEMMA FedSpan ==
  ASSUME NEW m \in Nat, NEW n \in Nat, m <= n
  PROVE  Fed(Span(0, HeadEnd(m)), Span(TailStart(m), m), Span(m, n))
           = [head |-> Span(0, HeadEnd(n)), tail |-> Span(TailStart(n), n)]
<1>. DEFINE h == Span(0, HeadEnd(m))
            t == Span(TailStart(m), m)
            chunk == Span(m, n)
            room == Smaller(HeadBytes - HeadEnd(m), n - m)
            first == IF room > 0 THEN m + room ELSE TailStart(m)
            rest == t \o Part(chunk, room + 1, Len(chunk))
<1>1. /\ HeadBytes \in Nat /\ TailBytes \in Nat
      /\ HeadEnd(m) \in 0..m /\ HeadEnd(n) \in 0..n /\ HeadEnd(m) <= HeadBytes
      /\ TailStart(m) \in 0..m /\ TailStart(n) \in 0..n
  BY JobAssumption DEF HeadEnd, TailStart, Smaller
<1>2. room \in 0..n - m /\ room <= HeadBytes - HeadEnd(m) /\ first \in 0..n
  BY <1>1 DEF Smaller
<1>3. /\ room > 0 => HeadEnd(m) = m /\ TailStart(m) = m /\ m + room = HeadEnd(n)
      /\ room = 0 => HeadEnd(n) = HeadEnd(m)
  BY <1>1 DEF Smaller, HeadEnd, TailStart
<1>4. Len(h) = HeadEnd(m) /\ Len(chunk) = n - m
  BY <1>1, SpanSeq
<1>5. Part(chunk, 1, room) = Span(m, m + room)
  <2>1. /\ 1 \in Nat /\ 1 >= 1 /\ 1 <= room + 1 /\ room \in Nat /\ room <= n - m
        /\ m = m + 1 - 1 /\ m + room \in Nat
    BY <1>2
  <2>. HIDE DEF room
  <2>. QED
    BY <2>1, SpanPart
<1>6. Part(chunk, room + 1, Len(chunk)) = Span(m + room, n)
  <2>1. /\ room + 1 \in Nat /\ n - m \in Nat /\ room + 1 <= (n - m) + 1 /\ room + 1 >= 1
        /\ n - m <= n - m /\ n = m + (n - m) /\ m + room = m + (room + 1) - 1 /\ m + room \in Nat
    BY <1>2
  <2>. HIDE DEF room
  <2>2. Part(chunk, room + 1, n - m) = Span(m + room, n)
    BY <2>1, SpanPart
  <2>. QED
    BY <1>4, <2>1, <2>2
<1>7. h \o Span(m, m + room) = Span(0, HeadEnd(n))
  <2>1. CASE room > 0
    <3>1. HeadEnd(m) = m /\ m + room = HeadEnd(n) /\ m + room \in Nat /\ 0 <= m /\ m <= m + room
      BY <1>2, <1>3, <2>1
    <3>. HIDE DEF room
    <3>2. Span(0, m) \o Span(m, m + room) = Span(0, m + room)
      BY <3>1, SpanJoin
    <3>. QED
      BY <3>1, <3>2
  <2>2. CASE room = 0
    <3>1. HeadEnd(m) \in Nat /\ 0 <= HeadEnd(m) /\ m + room = m /\ HeadEnd(n) = HeadEnd(m)
      BY <1>1, <1>3, <2>2
    <3>. HIDE DEF room
    <3>2. h \o Span(m, m) = h
      BY <3>1, SpanEmpty
    <3>. QED
      BY <3>1, <3>2
  <2>. QED
    BY <1>2, <2>1, <2>2
<1>8. rest = Span(first, n)
  <2>1. CASE room > 0
    <3>1. /\ TailStart(m) = m /\ first = m + room /\ m + room \in Nat /\ m + room <= n
      BY <1>2, <1>3, <2>1
    <3>. HIDE DEF room, first
    <3>2. Span(m, m) \o Span(m + room, n) = Span(m + room, n)
      BY <3>1, SpanEmpty
    <3>. QED
      BY <1>6, <3>1, <3>2
  <2>2. CASE room = 0
    <3>1. TailStart(m) \in Nat /\ TailStart(m) <= m /\ m + room = m /\ first = TailStart(m)
      BY <1>1, <2>2
    <3>. HIDE DEF room, first
    <3>2. Span(TailStart(m), m) \o Span(m, n) = Span(TailStart(m), n)
      BY <3>1, SpanJoin
    <3>. QED
      BY <1>6, <3>1, <3>2
  <2>. QED
    BY <1>2, <2>1, <2>2
<1>. DEFINE kept == Smaller(TailBytes, n - first)
<1>9. first + (n - first - kept) = TailStart(n) /\ kept \in 0..n - first
  BY <1>1, <1>2, <1>3 DEF Smaller, HeadEnd, TailStart
<1>10. Part(rest, 1 + Len(rest) - Smaller(TailBytes, Len(rest)), Len(rest)) = Span(TailStart(n), n)
  <2>. HIDE DEF room, rest, kept, first
  <2>1. first \in Nat /\ first <= n
    BY <1>2
  <2>2. Len(rest) = n - first
    BY <1>8, <2>1, SpanSeq
  <2>3. /\ 1 + (n - first) - kept \in Nat /\ n - first \in Nat
        /\ 1 + (n - first) - kept <= (n - first) + 1 /\ 1 + (n - first) - kept >= 1
        /\ n - first <= n - first /\ n = first + (n - first) /\ TailStart(n) \in Nat
        /\ TailStart(n) = first + (1 + (n - first) - kept) - 1
    BY <1>1, <1>9, <2>1
  <2>4. Part(Span(first, n), 1 + (n - first) - kept, n - first) = Span(TailStart(n), n)
    BY <1>1, <2>1, <2>3, SpanPart
  <2>. QED
    BY <1>8, <2>2, <2>4 DEF kept
<1>. QED
  BY <1>4, <1>5, <1>7, <1>10 DEF Fed, Part

-----------------------------------------------------------------------------
(* Steps *)

\* What a step of the job is.
LEMMA Steps ==
  ASSUME [Next]_vars
  PROVE  \/ \E p \in Process : Leave(p) \/ CloseOutput(p) \/ Write(p)
         \/ \E p \in Process : Exit(p)
         \/ \E p \in Process : Fork(p)
         \/ Ask \/ Daemon \/ Expire \/ Cancel \/ Return
         \/ Spawn \/ SpawnFails \/ Look \/ Wait \/ Reap \/ Join \/ Finalize
         \/ Feed \/ EndOfFile
         \/ \E t \in Thread : KillStart(t) \/ OnCancel(t) \/ KillTrack(t) \/ Terminate(t)
         \/ \E t \in Thread : Grace(t) \/ KillKnown(t) \/ KillRoot(t)
         \/ \E t \in Thread : Forget(t)
         \/ UNCHANGED vars
BY DEF Next, Commands, Monitor, Reader, Canceller, Kill, Over, Thread

\* The tracked processes are processes, and what dies keeps the tree's shape.
LEMMA TreeShape ==
  ASSUME TypeOK
  PROVE  /\ Root \in Process /\ Tracked \subseteq known \cup alive
         /\ \A S : Die(S) => /\ alive' \subseteq alive /\ holders' \subseteq holders \cap alive'
                             /\ alive' = alive \ S
                             /\ parent' \in [Process -> Process \cup {None}]
<1>1. Children \in Nat
  BY JobAssumption
<1>2. Root \in Process
  BY <1>1 DEF Root, Process
<1>. QED
  BY <1>2 DEF TypeOK, Die, Tracked

\* The number of a new process is the next one.
LEMMA NextProcess ==
  ASSUME TypeOK, BornOK, born # Process
  PROVE  \E n \in Process : /\ born = 0..n - 1 /\ Cardinality(born) = n
                            /\ n \notin born /\ born \cup {n} = 0..n
<1>1. PICK n \in 0..Children + 1 : born = 0..n - 1
  BY DEF BornOK
<1>2. Children \in Nat
  BY JobAssumption
<1>3. n \in Process
  BY <1>1, <1>2 DEF Process
<1>4. Cardinality(born) = n
  <2>1. 0 \in Int /\ n - 1 \in Int /\ (0 <= n - 1 => (n - 1) - 0 + 1 = n) /\ (~(0 <= n - 1) => n = 0)
    BY <1>2
  <2>. QED
    BY <1>1, <2>1, FS_Interval, FS_EmptySet
<1>. QED
  BY <1>1, <1>3, <1>4, <1>2 DEF Process

\* What the text shows of the bytes that were kept.
LEMMA ShownSpan ==
  ASSUME JInv
  PROVE  /\ Omitted = Gap(total) /\ Gap(total) \in 0..total
         /\ Shown = Span(ShownStart(total), total) /\ ShownStart(total) \in 0..total
<1>1. PICK n \in Nat : n = total
  BY JobAssumption DEF JInv, TypeOK
<1>2. /\ HeadBytes \in Nat /\ TailBytes \in Nat /\ MarkerBytes \in Nat /\ MarkerBytes <= TailBytes
      /\ HeadEnd(n) \in 0..n /\ TailStart(n) \in 0..n /\ HeadEnd(n) <= TailStart(n)
      /\ Gap(n) \in 0..n /\ (Gap(n) # 0 => TailStart(n) = n - TailBytes)
  BY JobAssumption DEF HeadEnd, TailStart, Smaller, Gap
<1>3. ShownStart(n) \in 0..n
  BY <1>2 DEF ShownStart
<1>4. head = Span(0, HeadEnd(n)) /\ tail = Span(TailStart(n), n)
  BY <1>1 DEF JInv, OutputOK
<1>5. Len(head) = HeadEnd(n) /\ Len(tail) = n - TailStart(n)
  <2>1. PICK a \in Nat : a = HeadEnd(n)
    BY <1>2
  <2>2. PICK b \in Nat : b = TailStart(n)
    BY <1>2
  <2>3. 0 \in Nat /\ 0 <= a /\ a - 0 = a /\ b <= n
    BY <1>2, <2>1, <2>2
  <2>4. Len(Span(0, a)) = a - 0 /\ Len(Span(b, n)) = n - b
    BY <2>3, SpanSeq
  <2>. QED
    BY <1>4, <2>1, <2>2, <2>3, <2>4
<1>6. Omitted = Gap(n)
  BY <1>1, <1>2, <1>5 DEF Omitted, Gap
<1>7. Shown = Span(ShownStart(n), n)
  <2>1. CASE Gap(n) = 0
    BY <1>4, <1>6, <2>1 DEF Shown, ShownStart
  <2>2. CASE Gap(n) # 0
    <3>1. PICK a \in Nat : a = TailStart(n)
      BY <1>2
    <3>2. /\ a \in Nat /\ n \in Nat /\ MarkerBytes + 1 \in Nat /\ n - a \in Nat /\ a + MarkerBytes \in Nat
          /\ a <= n /\ MarkerBytes + 1 >= 1 /\ MarkerBytes + 1 <= (n - a) + 1 /\ n - a <= n - a
          /\ a + MarkerBytes = a + (MarkerBytes + 1) - 1 /\ n = a + (n - a)
      BY <1>2, <2>2, <3>1
    <3>3. Part(Span(a, n), MarkerBytes + 1, n - a) = Span(a + MarkerBytes, n)
      BY <3>2, SpanPart
    <3>. QED
      BY <1>4, <1>5, <1>6, <2>2, <3>1, <3>3 DEF Shown, ShownStart, Part
  <2>. QED
    BY <2>1, <2>2
<1>. QED
  BY <1>1, <1>2, <1>3, <1>6, <1>7

\* What is finalized is a result.
LEMMA FinalizeResult ==
  ASSUME JInv, Finalize
  PROVE  result' \in Results
<1>. TypeOK
  BY DEF JInv
<1>1. /\ MaxOutput \in Nat /\ total \in Nat /\ total <= MaxOutput /\ total \in 0..MaxOutput
      /\ HeadEnd(total) \in 0..total
  BY JobAssumption DEF TypeOK, HeadEnd, Smaller
<1>2. head \in Seq(1..MaxOutput)
  <2>1. HeadEnd(total) \in Nat /\ 0 <= HeadEnd(total) /\ HeadEnd(total) <= MaxOutput
    BY <1>1
  <2>. QED
    BY <1>1, <2>1, SpanSeq DEF JInv, OutputOK
<1>3. Shown \in Seq(1..MaxOutput) /\ Omitted \in 0..MaxOutput
  <2>1. ShownStart(total) \in Nat /\ ShownStart(total) <= total /\ Omitted \in 0..MaxOutput
    BY <1>1, ShownSpan
  <2>. QED
    BY <1>1, <2>1, ShownSpan, SpanSeq
<1>4. Status \in {"ok", "failed", "timeout", "cancelled"}
  BY DEF TypeOK, Status
<1>. QED
  BY <1>1, <1>2, <1>3, <1>4 DEF Finalize, Results

\* Every step keeps the types.
LEMMA TypeStep ==
  ASSUME JInv, [Next]_vars
  PROVE  TypeOK'
<1>. USE DEF processes, output, threads, history
<1>. TypeOK /\ Root \in Process /\ Tracked \subseteq known \cup alive
  BY TreeShape DEF JInv
<1>1. ASSUME NEW p \in Process, Leave(p) \/ CloseOutput(p) \/ Write(p)
      PROVE  TypeOK'
  <2>1. CASE Leave(p)
    BY <2>1 DEF TypeOK, Leave
  <2>2. CASE CloseOutput(p)
    BY <2>2 DEF TypeOK, CloseOutput
  <2>3. CASE Write(p)
    <3>1. sent' \in 0..MaxOutput /\ total \in 0..sent'
      BY <2>3, JobAssumption DEF TypeOK, Write
    <3>. QED
      BY <2>3, <3>1 DEF TypeOK, Write
  <2>. QED
    BY <1>1, <2>1, <2>2, <2>3
<1>2. ASSUME NEW p \in Process, Exit(p)
      PROVE  TypeOK'
  <2>1. /\ alive' \subseteq alive /\ holders' \subseteq alive' 
        /\ parent' \in [Process -> Process \cup {None}] /\ exit' \in {None, "zero", "other"}
    BY <1>2, TreeShape DEF Exit, TypeOK
  <2>. QED
    BY <1>2, <2>1 DEF TypeOK, Exit
<1>3. ASSUME NEW p \in Process, Fork(p)
      PROVE  TypeOK'
  <2>1. Cardinality(born) \in Process
    BY <1>3, NextProcess DEF JInv, Fork
  <2>. QED
    BY <1>3, <2>1 DEF TypeOK, Fork
<1>4. CASE Ask \/ Daemon \/ Expire \/ Cancel \/ Return
  <2>1. CASE Ask
    BY <2>1 DEF TypeOK, Ask
  <2>2. CASE Daemon
    <3>1. container' \in {"none", "asked", "running", "gone"}
      BY <2>2 DEF TypeOK, Daemon
    <3>. QED
      BY <2>2, <3>1 DEF TypeOK, Daemon
  <2>3. CASE Expire
    BY <2>3 DEF TypeOK, Expire
  <2>4. CASE Cancel
    BY <2>4 DEF TypeOK, Cancel, Noted, Killing
  <2>5. CASE Return
    BY <2>5 DEF TypeOK, Return
  <2>. QED
    BY <1>4, <2>1, <2>2, <2>3, <2>4, <2>5
<1>5. CASE Spawn
  BY <1>5 DEF TypeOK, Spawn
<1>6. CASE SpawnFails
  <2>1. << >> \in Seq(1..MaxOutput) /\ 0 \in 0..MaxOutput
    BY JobAssumption
  <2>. QED
    BY <1>6, <2>1 DEF TypeOK, SpawnFails, Results
<1>7. CASE Look
  BY <1>7 DEF TypeOK, Look, Track
<1>8. CASE Wait \/ Reap \/ Join
  <2>1. CASE Wait
    <3>1. /\ code' \in {None, "zero", "other"} /\ reason' \in {None, "timeout", "cancelled"}
          /\ second' \in BOOLEAN /\ monitor' \in {"lock", "loop"}
      BY <2>1 DEF TypeOK, Wait, Leftover
    <3>. QED
      BY <2>1, <3>1 DEF TypeOK, Wait, Killing
  <2>2. CASE Reap
    BY <2>2 DEF TypeOK, Reap, Killing
  <2>3. CASE Join
    BY <2>3 DEF TypeOK, Join
  <2>. QED
    BY <1>8, <2>1, <2>2, <2>3
<1>9. CASE Finalize
  BY <1>9, FinalizeResult DEF TypeOK, Finalize
<1>10. CASE Feed
  BY <1>10 DEF TypeOK, Feed
<1>11. CASE EndOfFile
  BY <1>11 DEF TypeOK, EndOfFile
<1>12. ASSUME NEW t \in Thread, KillStart(t) \/ OnCancel(t) \/ KillTrack(t) \/ Terminate(t)
       PROVE  TypeOK'
  <2>1. \A step \in {"track", "oncancel", "term", "known", "grace"} : Goes(t, step) =>
          /\ monitor' \in {"start", "loop", "wait", "reap", "join", "finalize", "done"} \cup Killing
          /\ cancel' \in {"none", "waiting", "returned"} \cup Killing
    BY DEF TypeOK, Goes, Killing
  <2>2. CASE KillStart(t)
    <3>1. killLock' \in {"monitor", "cancel", None} /\ signalled' \in BOOLEAN
      BY <2>2 DEF KillStart, TypeOK, Thread
    <3>. QED
      BY <2>1, <2>2, <3>1 DEF TypeOK, KillStart
  <2>3. CASE OnCancel(t)
    <3>1. container' \in {"none", "asked", "running", "gone"}
      BY <2>3 DEF OnCancel, TypeOK, Stopped
    <3>. QED
      BY <2>1, <2>3, <3>1 DEF TypeOK, OnCancel
  <2>4. CASE KillTrack(t)
    BY <2>1, <2>4 DEF TypeOK, KillTrack, Track
  <2>5. CASE Terminate(t)
    BY <2>1, <2>5 DEF TypeOK, Terminate
  <2>. QED
    BY <1>12, <2>2, <2>3, <2>4, <2>5
<1>13. ASSUME NEW t \in Thread, Grace(t) \/ KillKnown(t) \/ KillRoot(t)
       PROVE  TypeOK'
  <2>1. /\ alive' \subseteq alive /\ holders' \subseteq alive' 
        /\ parent' \in [Process -> Process \cup {None}]
    BY <1>13, TreeShape DEF Grace, KillKnown, KillRoot
  <2>2. exit' \in {None, "zero", "other"} /\ code' \in {None, "zero", "other"}
    BY <1>13 DEF Grace, KillKnown, KillRoot, TypeOK
  <2>. QED
    BY <1>13, <2>1, <2>2 DEF TypeOK, Thread, Grace, KillKnown, KillRoot, Goes, Killing
<1>14. ASSUME NEW t \in Thread, Forget(t)
       PROVE  TypeOK'
  BY <1>14 DEF TypeOK, Thread, Forget, Goes, Killing
<1>15. CASE UNCHANGED vars
  BY <1>15 DEF TypeOK, vars
<1>. QED
  BY <1>1, <1>2, <1>3, <1>4, <1>5, <1>6, <1>7, <1>8, <1>9, <1>10, <1>11, <1>12, <1>13, <1>14, <1>15, Steps

\* Every step keeps the numbering, and nothing happens to a job that has no process.
LEMMA BornStep ==
  ASSUME JInv, [Next]_vars
  PROVE  BornOK'
<1>. USE DEF processes, output, threads, history
<1>. TypeOK /\ BornOK /\ Root \in Process
  BY TreeShape DEF JInv
<1>0. born' = born => \E n \in 0..Children + 1 : born' = 0..n - 1
  BY DEF BornOK
<1>1. /\ UNCHANGED <<born, container, backend>>
      /\ \/ born # {} /\ (monitor' = "start" => monitor = "start")
         \/ UNCHANGED <<cancel, code, exit, sent, signalled>> /\ monitor' \in {monitor, "done"}
      => BornOK'
  BY <1>0 DEF BornOK
<1>2. ASSUME NEW p \in Process, Leave(p) \/ CloseOutput(p) \/ Write(p) \/ Exit(p)
      PROVE  BornOK'
  <2>1. UNCHANGED <<born, container, backend, monitor>> /\ born # {}
    BY <1>2 DEF TypeOK, Leave, CloseOutput, Write, Exit
  <2>. QED
    BY <1>1, <2>1
<1>3. ASSUME NEW p \in Process, Fork(p)
      PROVE  BornOK'
  <2>1. PICK n \in Process : Cardinality(born) = n /\ born \cup {n} = 0..n
    BY <1>3, NextProcess DEF Fork
  <2>2. born' = 0..(n + 1) - 1 /\ n + 1 \in 0..Children + 1 /\ born' # {} /\ born # {}
    BY <1>3, <2>1, JobAssumption DEF Fork, Process, TypeOK
  <2>. QED
    BY <1>3, <2>2 DEF BornOK, Fork
<1>4. CASE Ask \/ Daemon
  <2>1. Root \in born \/ container # "none"
    BY <1>4 DEF Ask, Daemon, TypeOK
  <2>. QED
    BY <1>4, <2>1 DEF BornOK, Ask, Daemon
<1>5. CASE Expire \/ Cancel \/ Return
  <2>1. UNCHANGED <<born, container, backend, monitor>>
    BY <1>5 DEF Expire, Cancel, Return
  <2>2. born # {}
    BY <1>5 DEF Expire, Cancel, Return, BornOK, JInv, StatusOK
  <2>. QED
    BY <1>1, <2>1, <2>2
<1>6. CASE Spawn
  <2>1. born' = 0..1 - 1 /\ 1 \in 0..Children + 1 /\ born' # {}
    BY <1>6, JobAssumption DEF Spawn, Root
  <2>. QED
    BY <1>6, <2>1 DEF BornOK, Spawn
<1>7. CASE SpawnFails
  BY <1>1, <1>7 DEF SpawnFails
<1>8. CASE Look \/ Wait \/ Reap \/ Join \/ Finalize
  <2>1. UNCHANGED <<born, container, backend>> /\ monitor' # "start" /\ born # {}
    BY <1>8 DEF Look, Wait, Reap, Join, Finalize, BornOK, Leftover
  <2>. QED
    BY <1>1, <2>1
<1>9. CASE Feed \/ EndOfFile
  BY <1>1, <1>9 DEF Feed, EndOfFile
<1>10. ASSUME NEW t \in Thread, KillStart(t) \/ KillTrack(t) \/ Terminate(t) \/ Grace(t) \/ KillKnown(t) \/ KillRoot(t) \/ Forget(t)
       PROVE  BornOK'
  <2>1. UNCHANGED <<born, container, backend>> /\ born # {} /\ (monitor' = "start" => monitor = "start")
    BY <1>10 DEF KillStart, KillTrack, Terminate, Grace, KillKnown, KillRoot, Forget, Goes, Me, BornOK, Thread
  <2>. QED
    BY <1>1, <2>1
<1>11. ASSUME NEW t \in Thread, OnCancel(t)
       PROVE  BornOK'
  <2>1. UNCHANGED <<born, backend>> /\ born # {} /\ (monitor' = "start" => monitor = "start")
        /\ (container' # "none" => container # "none")
    BY <1>11 DEF OnCancel, Stopped, Goes, Me, BornOK, Thread
  <2>. QED
    BY <2>1 DEF BornOK
<1>12. CASE UNCHANGED vars
  BY <1>1, <1>12 DEF vars
<1>. QED
  BY <1>2, <1>3, <1>4, <1>5, <1>6, <1>7, <1>8, <1>9, <1>10, <1>11, <1>12, Steps

\* Every step keeps what is known of the tree.
LEMMA TreeStep ==
  ASSUME JInv, [Next]_vars
  PROVE  TreeOK'
<1>. USE DEF processes, output, threads, history
<1>. TypeOK /\ BornOK /\ TreeOK /\ Tracked \subseteq known \cup alive
  BY TreeShape DEF JInv
<1>1. ASSUME UNCHANGED <<seen, known>>, born' = born, alive' \subseteq alive
      PROVE  TreeOK'
  BY <1>1 DEF TreeOK
<1>2. ASSUME NEW p \in Process, Leave(p) \/ CloseOutput(p) \/ Write(p) \/ Exit(p)
      PROVE  TreeOK'
  <2>1. UNCHANGED <<seen, known, born>> /\ alive' \subseteq alive
    BY <1>2 DEF Leave, CloseOutput, Write, Exit, Die
  <2>. QED
    BY <1>1, <2>1
<1>3. ASSUME NEW p \in Process, Fork(p)
      PROVE  TreeOK'
  <2>1. PICK n \in Process : Cardinality(born) = n /\ n \notin born
    BY <1>3, NextProcess DEF Fork
  <2>2. UNCHANGED <<seen, known>> /\ alive' = alive \cup {n} /\ born' = born \cup {n}
    BY <1>3, <2>1 DEF Fork
  <2>. QED
    BY <2>1, <2>2 DEF TreeOK
<1>4. CASE Ask \/ Daemon \/ Expire \/ Cancel \/ Return
  <2>1. UNCHANGED <<seen, known, born, alive>>
    BY <1>4 DEF Ask, Daemon, Expire, Cancel, Return
  <2>. QED
    BY <1>1, <2>1
<1>5. CASE Spawn
  <2>1. seen = {} /\ known = {} /\ UNCHANGED <<seen, known>>
    BY <1>5 DEF Spawn, BornOK, TreeOK
  <2>. QED
    BY <2>1 DEF TreeOK
<1>6. ASSUME Track, UNCHANGED <<alive, born>>
      PROVE  TreeOK'
  <2>1. known \subseteq Tracked /\ Tracked \subseteq born
    BY DEF Tracked, TreeOK, TypeOK
  <2>. QED
    BY <1>6, <2>1 DEF TreeOK, Track
<1>7. CASE Look
  BY <1>6, <1>7 DEF Look
<1>8. CASE SpawnFails \/ Wait \/ Reap \/ Join \/ Finalize \/ Feed \/ EndOfFile
  <2>1. UNCHANGED <<seen, known, born, alive>>
    BY <1>8 DEF SpawnFails, Wait, Reap, Join, Finalize, Feed, EndOfFile
  <2>. QED
    BY <1>1, <2>1
<1>9. ASSUME NEW t \in Thread, KillStart(t) \/ OnCancel(t) \/ Terminate(t) \/ Grace(t) \/ KillKnown(t) \/ KillRoot(t)
      PROVE  TreeOK'
  <2>1. UNCHANGED <<seen, known, born>> /\ alive' \subseteq alive
    BY <1>9 DEF KillStart, OnCancel, Terminate, Grace, KillKnown, KillRoot, Die
  <2>. QED
    BY <1>1, <2>1
<1>10. ASSUME NEW t \in Thread, KillTrack(t)
       PROVE  TreeOK'
  BY <1>6, <1>10 DEF KillTrack
<1>11. ASSUME NEW t \in Thread, Forget(t)
       PROVE  TreeOK'
  BY <1>11 DEF Forget, TreeOK
<1>12. CASE UNCHANGED vars
  BY <1>1, <1>12 DEF vars
<1>. QED
  BY <1>2, <1>3, <1>4, <1>5, <1>7, <1>8, <1>9, <1>10, <1>11, <1>12, Steps

\* Every step keeps the lock with the one thread that kills.
LEMMA LockStep ==
  ASSUME JInv, [Next]_vars
  PROVE  LockOK'
<1>. USE DEF processes, output, threads, history
<1>. LockOK /\ None \notin {"monitor", "cancel"}
  BY JobAssumption DEF JInv
<1>1. ASSUME UNCHANGED killLock,
             \/ monitor' = monitor
             \/ monitor \notin Killing \ {"lock"} /\ monitor' \notin Killing \ {"lock"}
             \/ monitor \in Killing \ {"lock"} /\ monitor' \in Killing \ {"lock"},
             \/ cancel' = cancel
             \/ cancel \notin Killing \ {"lock"} /\ cancel' \notin Killing \ {"lock"}
             \/ cancel \in Killing \ {"lock"} /\ cancel' \in Killing \ {"lock"}
      PROVE  LockOK'
  BY <1>1 DEF LockOK, Me, Thread
<1>2. ASSUME NEW p \in Process, Leave(p) \/ CloseOutput(p) \/ Write(p) \/ Exit(p) \/ Fork(p)
      PROVE  LockOK'
  BY <1>1, <1>2 DEF Leave, CloseOutput, Write, Exit, Fork
<1>3. CASE Ask \/ Daemon \/ Expire \/ Feed \/ EndOfFile \/ UNCHANGED vars
  BY <1>1, <1>3 DEF Ask, Daemon, Expire, Feed, EndOfFile, vars
<1>4. CASE Cancel \/ Return
  BY <1>1, <1>4 DEF Cancel, Return, Killing
<1>5. CASE Spawn \/ SpawnFails \/ Look \/ Wait \/ Reap \/ Join \/ Finalize
  BY <1>1, <1>5 DEF Spawn, SpawnFails, Look, Wait, Leftover, Reap, Join, Finalize, Killing
<1>6. ASSUME NEW t \in Thread, NEW step \in Killing \ {"lock"}, Me(t) \in Killing \ {"lock"}, Goes(t, step),
             UNCHANGED killLock
      PROVE  LockOK'
  BY <1>1, <1>6 DEF Goes, Me, Thread
<1>7. ASSUME NEW t \in Thread, OnCancel(t) \/ KillTrack(t) \/ Terminate(t) \/ Grace(t) \/ KillKnown(t) \/ Forget(t)
      PROVE  LockOK'
  <2>1. {"oncancel", "track", "term", "grace", "known", "forget", "root"} = Killing \ {"lock"}
    BY DEF Killing
  <2>. QED
    BY <1>6, <1>7, <2>1 DEF OnCancel, KillTrack, Terminate, Grace, KillKnown, Forget
<1>8. ASSUME NEW t \in Thread, KillStart(t)
      PROVE  LockOK'
  <2>1. \A u \in Thread : Me(u) \notin Killing \ {"lock"}
    BY <1>8 DEF KillStart, LockOK, Thread
  <2>. QED
    BY <1>8, <2>1 DEF KillStart, LockOK, Goes, Me, Thread, Killing
<1>9. ASSUME NEW t \in Thread, KillRoot(t)
      PROVE  LockOK'
  <2>1. killLock = t /\ \A u \in Thread : u # t => Me(u) \notin Killing \ {"lock"}
    BY <1>9 DEF KillRoot, LockOK, Killing
  <2>. QED
    BY <1>9, <2>1 DEF KillRoot, LockOK, Goes, Me, Thread, Killing
<1>. QED
  BY <1>2, <1>3, <1>4, <1>5, <1>7, <1>8, <1>9, Steps

\* Once nothing seen lives, tracking finds nothing more.
LEMMA ClearedTracks ==
  ASSUME TypeOK, TreeOK, Cleared
  PROVE  Tracked = known
<1>1. alive \cap ({Root} \cup known) = {}
  BY DEF TreeOK, Cleared
<1>. QED
  BY <1>1 DEF Tracked

\* The first process is the first.
LEMMA RootFirst ==
  ASSUME TypeOK, BornOK
  PROVE  /\ born # {} => Root \in born
         /\ monitor \notin {"start", "done"} \/ cancel # "none" => Root \in born
<1>1. PICK n \in 0..Children + 1 : born = 0..n - 1
  BY DEF BornOK
<1>2. born # {} => Root \in born
  BY <1>1, JobAssumption DEF Root
<1>. QED
  BY <1>2 DEF BornOK

\* Every step keeps what the killings have come to.
LEMMA KillStep ==
  ASSUME JInv, [Next]_vars
  PROVE  KillOK'
<1>. USE DEF processes, output, threads, history
<1>. TypeOK /\ BornOK /\ TreeOK /\ LockOK /\ KillOK /\ Root \in Process
  BY TreeShape DEF JInv
<1>1. ASSUME UNCHANGED <<seen, born, second, monitor, cancel>>, known' \subseteq known,
             alive' \subseteq alive, group' \subseteq group
      PROVE  KillOK'
  BY <1>1 DEF KillOK, Cleared, Me, Thread
<1>2. ASSUME NEW p \in Process, Leave(p) \/ CloseOutput(p) \/ Write(p) \/ Exit(p)
      PROVE  KillOK'
  BY <1>1, <1>2 DEF Leave, CloseOutput, Write, Exit, Die
<1>3. ASSUME NEW p \in Process, Fork(p)
      PROVE  KillOK'
  <2>1. PICK n \in Process : Cardinality(born) = n /\ n \notin born
    BY <1>3, NextProcess DEF Fork
  <2>2. /\ alive' = alive \cup {n} /\ born' = born \cup {n} /\ p \in alive
        /\ group' = group \cup {r \in {n} : p \in group}
        /\ UNCHANGED <<seen, known, second, monitor, cancel>>
    BY <1>3, <2>1 DEF Fork
  <2>3. Root \in born /\ n # Root /\ n \notin seen /\ n \notin known
    BY <2>1, <2>2, RootFirst DEF TreeOK, TypeOK
  <2>4. alive \cap group = {} => alive' \cap group' = {}
    BY <2>1, <2>2 DEF TypeOK
  <2>5. alive \cap known = {} => alive' \cap known' = {}
    BY <2>2, <2>3
  <2>6. Cleared => Cleared'
    BY <2>1, <2>2, <2>3 DEF Cleared, TypeOK
  <2>. QED
    BY <2>2, <2>3, <2>4, <2>5, <2>6 DEF KillOK, Me, Thread
<1>4. CASE Ask \/ Daemon \/ Expire \/ Feed \/ EndOfFile \/ UNCHANGED vars
  BY <1>1, <1>4 DEF Ask, Daemon, Expire, Feed, EndOfFile, vars
<1>5. ASSUME UNCHANGED <<alive, group, known, seen, born>>,
             second => second', second' /\ ~second => monitor' = "lock" /\ Root \in born \ alive,
             monitor' # monitor => monitor' \in {"loop", "lock"},
             cancel' # cancel => cancel' \in {"lock", "returned"}
      PROVE  KillOK'
  <2>1. \A t \in Thread : Me(t)' \in {"known", "forget", "root"} => Me(t) \in {"known", "forget", "root"}
    BY <1>5 DEF Me
  <2>. QED
    BY <1>5, <2>1 DEF KillOK, Cleared
<1>6. CASE Cancel \/ Return
  BY <1>5, <1>6 DEF Cancel, Return
<1>7. CASE Wait \/ Reap
  <2>1. Root \in born
    BY <1>7, RootFirst DEF Wait, Reap
  <2>. QED
    BY <1>5, <1>7, <2>1 DEF Wait, Leftover, Reap
<1>8. CASE Join \/ Finalize
  <2>1. \A t \in Thread : Me(t)' \in {"known", "forget", "root"} => Me(t) \in {"known", "forget", "root"}
    BY <1>8 DEF Me, Join, Finalize
  <2>. QED
    BY <1>8, <2>1 DEF Join, Finalize, KillOK, Cleared
<1>9. CASE SpawnFails
  <2>1. born = {} /\ cancel = "none" /\ alive = {}
    BY <1>9 DEF SpawnFails, BornOK, TypeOK
  <2>. QED
    BY <1>9, <2>1 DEF SpawnFails, KillOK, Cleared, Me, Thread
<1>10. CASE Spawn
  <2>1. born = {} /\ cancel = "none"
    BY <1>10 DEF Spawn, BornOK
  <2>2. ~second
    BY <2>1 DEF KillOK
  <2>. QED
    BY <1>10, <2>1, <2>2 DEF Spawn, KillOK, Me, Thread
<1>11. CASE Look
  <2>1. \A t \in Thread : Me(t)' \in {"known", "forget", "root"} => Me(t) \in {"known", "forget", "root"}
    BY <1>11 DEF Me, Look
  <2>. QED
    BY <1>11, <2>1 DEF Look, KillOK, Cleared
<1>12. ASSUME NEW t \in Thread, KillStart(t) \/ OnCancel(t) \/ Forget(t)
       PROVE  KillOK'
  <2>1. /\ UNCHANGED <<alive, group, seen, born, second>> /\ known' \subseteq known
        /\ Forget(t) => alive' \cap known' = alive \cap known
        /\ \A u \in Thread : Me(u)' \in {"known", "forget", "root"} => Me(u) \in {"known", "forget", "root"}
        /\ monitor' \in {"join", "finalize", "done"} => monitor' = monitor
        /\ monitor' \in {"forget", "root"} => monitor \in {"forget", "root"}
    BY <1>12 DEF KillStart, OnCancel, Forget, Goes, Me, Thread
  <2>. QED
    BY <2>1 DEF KillOK, Cleared
<1>13. ASSUME NEW t \in Thread, KillTrack(t)
       PROVE  KillOK'
  <2>1. Cleared => Tracked = known
    BY ClearedTracks
  <2>2. /\ UNCHANGED <<alive, group, born, second>> /\ known' = Tracked /\ seen' = seen \cup Tracked
        /\ \A u \in Thread : Me(u)' \in {"known", "forget", "root"} => Me(u) \in {"known", "forget", "root"}
        /\ monitor' \in {"join", "finalize", "done"} => monitor' = monitor
        /\ monitor' \notin {"forget", "root"}
    BY <1>13 DEF KillTrack, Track, Goes, Me, Thread, LockOK, Killing
  <2>3. Cleared => Cleared'
    BY <2>1, <2>2 DEF Cleared, TreeOK
  <2>. QED
    BY <2>2, <2>3 DEF KillOK
<1>14. ASSUME NEW t \in Thread, Terminate(t) \/ Grace(t)
       PROVE  KillOK'
  <2>1. /\ UNCHANGED <<group, known, seen, born, second>> /\ alive' \subseteq alive
        /\ \A u \in Thread : Me(u)' \in {"known", "forget", "root"} =>
             Me(u) \in {"known", "forget", "root"} \/ alive' \cap group' = {}
        /\ monitor' \in {"join", "finalize", "done"} => monitor' = monitor
        /\ monitor' \in {"forget", "root"} => monitor \in {"forget", "root"}
    BY <1>14 DEF Terminate, Grace, Die, GroupKill, Goes, Me, Thread
  <2>. QED
    BY <2>1 DEF KillOK, Cleared
<1>15. ASSUME NEW t \in Thread, KillKnown(t)
       PROVE  KillOK'
  <2>1. /\ UNCHANGED <<group, known, seen, born, second>> /\ alive' = alive \ known
        /\ \A u \in Thread : Me(u)' \in {"known", "forget", "root"} => Me(u) \in {"known", "forget", "root"}
        /\ monitor' \in {"join", "finalize", "done"} => monitor' = monitor
    BY <1>15 DEF KillKnown, Die, Goes, Me, Thread
  <2>. QED
    BY <2>1 DEF KillOK, Cleared
<1>16. ASSUME NEW t \in Thread, KillRoot(t)
       PROVE  KillOK'
  <2>1. /\ UNCHANGED <<group, known, seen, born, second>> /\ alive' = alive \ {Root}
        /\ \A u \in Thread : Me(u)' \in {"known", "forget", "root"} => Me(u) \in {"known", "forget", "root"}
        /\ \/ monitor' = monitor
           \/ monitor = "root" /\ monitor' = "reap"
           \/ monitor = "root" /\ monitor' = "join" /\ second
    BY <1>16 DEF KillRoot, Die, Goes, Me, Thread, AfterExit
  <2>2. CASE monitor = "root" /\ monitor' = "join" /\ second
    <3>1. alive \cap known = {} /\ alive \cap group = {} /\ Root \notin alive
      BY <2>2 DEF KillOK, Thread, Me
    <3>2. Cleared
      BY <3>1 DEF Cleared, TreeOK
    <3>. QED
      BY <2>1, <2>2, <3>2 DEF KillOK, Cleared
  <2>3. CASE ~(monitor = "root" /\ monitor' = "join" /\ second)
    BY <2>1, <2>3 DEF KillOK, Cleared
  <2>. QED
    BY <2>2, <2>3
<1>. QED
  BY <1>2, <1>3, <1>4, <1>6, <1>7, <1>8, <1>9, <1>10, <1>11, <1>12, <1>13, <1>14, <1>15, <1>16, Steps

\* Every step keeps what the job notes of its end.
LEMMA StatusStep ==
  ASSUME JInv, [Next]_vars
  PROVE  StatusOK'
<1>. USE DEF processes, output, threads, history
<1>. /\ TypeOK /\ BornOK /\ LockOK /\ KillOK /\ StatusOK /\ Root \in Process
     /\ None \notin {"timeout", "cancelled", "zero", "other"} /\ None \notin Results
  BY TreeShape, JobAssumption DEF JInv
<1>. DEFINE Ended == Root \in born \ alive
<1>1. ASSUME UNCHANGED <<reason, code, exit, signalled, result, monitor, cancel, second, reader, total>>,
             Ended' = Ended, reader = "eof" => holders' = {} /\ sent' = sent, born # {} => born' # {}
      PROVE  StatusOK'
  BY <1>1 DEF StatusOK
<1>2. ASSUME NEW p \in Process, Leave(p) \/ CloseOutput(p) \/ Write(p)
      PROVE  StatusOK'
  <2>1. CASE Leave(p)
    BY <1>1, <2>1 DEF Leave, StatusOK
  <2>2. CASE CloseOutput(p)
    BY <1>1, <2>2 DEF CloseOutput, StatusOK
  <2>3. CASE Write(p)
    BY <1>1, <2>3 DEF Write, StatusOK
  <2>. QED
    BY <1>2, <2>1, <2>2, <2>3
<1>3. ASSUME NEW p \in Process, Exit(p)
      PROVE  StatusOK'
  <2>1. /\ UNCHANGED <<born, reason, code, signalled, result, monitor, cancel, second, reader, total, sent>>
        /\ alive' = alive \ {p} /\ holders' \subseteq holders /\ p \in alive
    BY <1>3 DEF Exit, Die
  <2>2. CASE p = Root
    <3>1. code = None /\ exit' # None /\ (result = None \/ born = {} \/ Cleared)
      BY <1>3, <2>2 DEF Exit, StatusOK, KillOK
    <3>2. result = None
      BY <2>1, <2>2, <3>1 DEF Cleared, TypeOK
    <3>. QED
      BY <2>1, <3>1, <3>2 DEF StatusOK
  <2>3. CASE p # Root
    <3>1. exit' = exit /\ Ended' = Ended
      BY <1>3, <2>1, <2>3 DEF Exit
    <3>. QED
      BY <1>1, <2>1, <3>1 DEF StatusOK
  <2>. QED
    BY <2>2, <2>3
<1>4. ASSUME NEW p \in Process, Fork(p)
      PROVE  StatusOK'
  <2>1. PICK n \in Process : Cardinality(born) = n /\ n \notin born
    BY <1>4, NextProcess DEF Fork
  <2>2. /\ alive' = alive \cup {n} /\ born' = born \cup {n} /\ p \in alive
        /\ holders' = holders \cup {r \in {n} : p \in holders}
        /\ UNCHANGED <<reason, code, exit, signalled, result, monitor, cancel, second, reader, total, sent>>
    BY <1>4, <2>1 DEF Fork
  <2>3. n # Root
    BY <2>1, <2>2, RootFirst DEF TypeOK
  <2>. QED
    BY <1>1, <2>2, <2>3 DEF StatusOK
<1>5. CASE Ask \/ Daemon \/ Expire \/ UNCHANGED vars
  BY <1>1, <1>5 DEF Ask, Daemon, Expire, vars, StatusOK
<1>6. CASE Cancel
  BY <1>6 DEF Cancel, Noted, StatusOK
<1>7. CASE Return
  BY <1>7 DEF Return, Awaited, StatusOK
<1>8. CASE Spawn
  <2>1. born = {} /\ cancel = "none" /\ code = None /\ ~signalled /\ ~second
    BY <1>8 DEF Spawn, BornOK, KillOK
  <2>. QED
    BY <1>8, <2>1 DEF Spawn, StatusOK, Killing
<1>9. CASE SpawnFails
  <2>1. born = {} /\ cancel = "none" /\ code = None /\ exit = None /\ ~signalled
    BY <1>9 DEF SpawnFails, BornOK
  <2>2. result' \in Results /\ result'.status = "failed"
    <3>1. << >> \in Seq(1..MaxOutput) /\ 0 \in 0..MaxOutput
      BY JobAssumption
    <3>2. result' = [status |-> "failed", head |-> <<>>, tail |-> <<>>, omitted |-> 0, total |-> 0]
      BY <1>9 DEF SpawnFails
    <3>. QED
      BY <3>1, <3>2 DEF Results
  <2>. QED
    BY <1>9, <2>1, <2>2 DEF SpawnFails, StatusOK, Killing
<1>10. CASE Look
  BY <1>10 DEF Look, StatusOK, Killing
<1>11. CASE Wait
  <2>1. result = None /\ Root \in born
    BY <1>11, RootFirst DEF Wait, StatusOK
  <2>. QED
    BY <1>11, <2>1 DEF Wait, Leftover, StatusOK, Killing
<1>12. CASE Reap \/ Join
  BY <1>12 DEF Reap, Join, StatusOK, Killing
<1>13. CASE Finalize
  <2>1. result' \in Results
    BY <1>13, FinalizeResult
  <2>2. second /\ born # {} /\ code # None /\ code = exit
    BY <1>13 DEF Finalize, KillOK, StatusOK
  <2>3. result'.status \in {"ok", "failed"} => reason = None
    BY <1>13 DEF Finalize, Status, TypeOK
  <2>4. reason = None => ~signalled
    BY DEF StatusOK
  <2>. QED
    BY <1>13, <2>1, <2>2, <2>3, <2>4 DEF Finalize, StatusOK, Killing
<1>14. CASE Feed
  BY <1>14 DEF Feed, StatusOK
<1>15. CASE EndOfFile
  BY <1>15 DEF EndOfFile, StatusOK
<1>16. ASSUME NEW t \in Thread, NEW step \in Killing \ {"lock"}, Me(t) \in Killing, Goes(t, step),
              UNCHANGED <<reason, code, exit, result, second, reader, total, sent, alive, born>>,
              holders' \subseteq holders,
              signalled' => signalled \/ (Root \in alive /\ ~AfterExit(t))
       PROVE  StatusOK'
  <2>1. ~AfterExit(t) => reason # None
    BY <1>16 DEF StatusOK, AfterExit, Me, Thread, Killing
  <2>2. Root \in alive => result = None \/ born = {}
    BY DEF StatusOK, KillOK, Cleared
  <2>3. signalled' => signalled \/ (reason # None /\ result = None)
    BY <1>16, <2>1, <2>2 DEF TypeOK
  <2>. QED
    BY <1>16, <2>3 DEF StatusOK, Goes, Me, Thread, Killing
<1>17. ASSUME NEW t \in Thread, KillStart(t) \/ OnCancel(t) \/ KillTrack(t) \/ Terminate(t) \/ Forget(t)
       PROVE  StatusOK'
  <2>1. PICK step \in Killing \ {"lock"} : Goes(t, step)
    BY <1>17 DEF KillStart, OnCancel, KillTrack, Terminate, Forget, Killing
  <2>2. /\ UNCHANGED <<reason, code, exit, result, second, reader, total, sent, alive, born, holders>>
        /\ Me(t) \in Killing /\ (signalled' => signalled \/ (Root \in alive /\ ~AfterExit(t)))
    <3>1. CASE KillStart(t)
      BY <3>1 DEF KillStart, Killing
    <3>2. CASE OnCancel(t)
      BY <3>2 DEF OnCancel, Killing
    <3>3. CASE KillTrack(t) \/ Terminate(t) \/ Forget(t)
      BY <3>3 DEF KillTrack, Terminate, Forget, Killing
    <3>. QED
      BY <1>17, <3>1, <3>2, <3>3
  <2>. QED
    BY <1>16, <2>1, <2>2
<1>18. ASSUME NEW t \in Thread, Grace(t) \/ KillKnown(t) \/ KillRoot(t)
       PROVE  StatusOK'
  <2>1. /\ UNCHANGED <<reason, result, second, reader, total, sent, born, signalled>>
        /\ holders' \subseteq holders /\ alive' \subseteq alive
    BY <1>18 DEF Grace, KillKnown, KillRoot, Die
  <2>2. Ended => exit' = exit
    BY <1>18 DEF Grace, KillKnown, KillRoot, GroupKill
  <2>3. Root \in alive \ alive' => exit' = "other"
    BY <1>18 DEF Grace, KillKnown, KillRoot, GroupKill, Die
  <2>4. KillRoot(t) => Ended' /\ code' = IF code = None THEN exit' ELSE code
    BY <1>18, RootFirst DEF KillRoot, Die, Me, Thread, Killing
  <2>5. ~KillRoot(t) => code' = code
    BY <1>18 DEF Grace, KillKnown
  <2>6. Ended' => exit' # None
    BY <2>1, <2>2, <2>3 DEF StatusOK
  <2>7. code' # None => code' = exit' /\ Ended'
    BY <2>1, <2>2, <2>4, <2>5 DEF StatusOK
  <2>8. /\ cancel' # "none" => cancel # "none"
        /\ cancel' = "returned" => cancel = "returned"
        /\ monitor' \in Killing \cup {"reap"} => monitor \in Killing \cup {"reap"}
        /\ monitor' = "done" <=> monitor = "done"
        /\ monitor' = "start" => monitor = "start"
        /\ monitor' = "reap" => monitor = "reap" \/ KillRoot(t)
    BY <1>18 DEF Grace, KillKnown, KillRoot, Goes, Me, Thread, Killing
  <2>9. second' \/ monitor' = "reap" => code' # None
    BY <2>1, <2>4, <2>5, <2>6, <2>8 DEF StatusOK
  <2>10. result # None /\ result.status \in {"ok", "failed"} => code' = code /\ exit' = exit
    <3>1. born # {}
      BY <1>18 DEF Grace, KillKnown, KillRoot, Me, Thread, BornOK
    <3>2. result # None => Ended /\ exit # None
      BY <3>1, RootFirst DEF StatusOK, KillOK, Cleared
    <3>. QED
      BY <2>2, <2>4, <2>5, <3>2 DEF StatusOK
  <2>. QED
    BY <2>1, <2>6, <2>7, <2>8, <2>9, <2>10 DEF StatusOK
<1>. QED
  BY <1>2, <1>3, <1>4, <1>5, <1>6, <1>7, <1>8, <1>9, <1>10, <1>11, <1>12, <1>13, <1>14, <1>15, <1>17, <1>18, Steps

\* Every step keeps what the output is known to be.
LEMMA OutputStep ==
  ASSUME JInv, [Next]_vars
  PROVE  OutputOK'
<1>. USE DEF processes, output, threads, history
<1>. /\ TypeOK /\ BornOK /\ TreeOK /\ KillOK /\ StatusOK /\ OutputOK /\ Root \in Process
     /\ None \notin Results
  BY TreeShape, JobAssumption DEF JInv
<1>1. ASSUME UNCHANGED <<head, tail, total, result, sent>>,
             reader = "eof" => reader' = "eof", monitor' = "finalize" => monitor = "finalize",
             monitor \in {"finalize", "done"} /\ Stranger => Stranger'
      PROVE  OutputOK'
  <2>1. result # None => monitor = "done"
    BY DEF StatusOK
  <2>. QED
    BY <1>1, <2>1 DEF OutputOK
<1>2. ASSUME UNCHANGED <<born, group, seen>>
      PROVE  Stranger => Stranger'
  BY <1>2 DEF Stranger
<1>3. ASSUME NEW p \in Process, Leave(p) \/ CloseOutput(p) \/ Exit(p)
      PROVE  OutputOK'
  <2>1. UNCHANGED <<head, tail, total, result, sent, reader, monitor, born, seen>> /\ group' \subseteq group
    BY <1>3 DEF Leave, CloseOutput, Exit
  <2>2. Stranger => Stranger'
    BY <2>1 DEF Stranger
  <2>. QED
    BY <1>1, <2>1, <2>2
<1>4. ASSUME NEW p \in Process, Write(p)
      PROVE  OutputOK'
  <2>1. UNCHANGED <<head, tail, total, result, reader, monitor, born, seen, group>> /\ p \in holders
    BY <1>4 DEF Write
  <2>2. result # None => Stranger
    <3>1. result # None => monitor = "done" 
      BY DEF StatusOK
    <3>2. Cleared => p \in born \ (seen \cup group)
      BY <2>1 DEF Cleared, TypeOK
    <3>. QED
      BY <3>1, <3>2 DEF KillOK, Stranger
  <2>3. Stranger => Stranger'
    BY <1>2, <2>1
  <2>. QED
    BY <2>1, <2>2, <2>3 DEF OutputOK
<1>5. ASSUME NEW p \in Process, Fork(p)
      PROVE  OutputOK'
  <2>1. PICK n \in Process : Cardinality(born) = n /\ n \notin born
    BY <1>5, NextProcess DEF Fork
  <2>2. /\ born' = born \cup {n} /\ group' \subseteq group \cup {n}
        /\ UNCHANGED <<head, tail, total, result, sent, reader, monitor, seen>>
    BY <1>5, <2>1 DEF Fork
  <2>3. Stranger => Stranger'
    BY <2>1, <2>2 DEF Stranger
  <2>. QED
    BY <1>1, <2>2, <2>3
<1>6. CASE Ask \/ Daemon \/ Expire \/ Cancel \/ Return \/ EndOfFile \/ UNCHANGED vars
  <2>1. UNCHANGED <<head, tail, total, result, sent, monitor, born, seen, group>>
        /\ (reader = "eof" => reader' = "eof")
    BY <1>6 DEF Ask, Daemon, Expire, Cancel, Return, EndOfFile, vars
  <2>. QED
    BY <1>1, <1>2, <2>1
<1>7. CASE Spawn
  <2>1. monitor \notin {"finalize", "done"} /\ monitor' # "finalize"
        /\ UNCHANGED <<head, tail, total, result, sent, reader>>
    BY <1>7 DEF Spawn
  <2>. QED
    BY <1>1, <2>1
<1>8. CASE SpawnFails
  <2>1. /\ born = {} /\ sent = 0 /\ result' = [status |-> "failed", head |-> <<>>, tail |-> <<>>, omitted |-> 0, total |-> 0]
        /\ UNCHANGED <<head, tail, total, reader, sent>> /\ monitor' = "done"
    BY <1>8 DEF SpawnFails, BornOK
  <2>2. HeadEnd(0) = 0 /\ TailStart(0) = 0
    BY JobAssumption DEF HeadEnd, TailStart, Smaller
  <2>3. Span(0, 0) = << >>
    BY EmptySpan
  <2>4. Gap(0) = 0 /\ ShownStart(0) = 0
    BY <2>2 DEF Gap, ShownStart
  <2>. QED
    BY <2>1, <2>2, <2>3, <2>4 DEF OutputOK
<1>9. CASE Look \/ Wait \/ Reap
  <2>1. /\ UNCHANGED <<head, tail, total, result, sent, reader>>
        /\ monitor \notin {"finalize", "done"} /\ monitor' # "finalize"
    BY <1>9 DEF Look, Wait, Leftover, Reap
  <2>. QED
    BY <1>1, <2>1
<1>10. CASE Join
  <2>1. /\ UNCHANGED <<head, tail, total, result, sent, reader, born, seen, group>>
        /\ result = None
    BY <1>10 DEF Join, StatusOK
  <2>2. reader = "eof" \/ holders # {}
    BY <1>10 DEF Join, Joined
  <2>3. holders # {} => Stranger
    BY <1>10 DEF Join, KillOK, Cleared, TypeOK, Stranger
  <2>4. reader' = "eof" \/ Stranger'
    BY <1>2, <2>1, <2>2, <2>3
  <2>. QED
    BY <2>1, <2>4 DEF OutputOK
<1>11. CASE Finalize
  <2>1. /\ UNCHANGED <<head, tail, total, sent, reader, born, seen, group>> /\ monitor' = "done"
        /\ result' = [status |-> Status, head |-> head, tail |-> Shown, omitted |-> Omitted, total |-> total]
    BY <1>11 DEF Finalize
  <2>2. total < sent => Stranger
    BY <1>11 DEF Finalize, OutputOK, StatusOK, TypeOK
  <2>3. Stranger => Stranger'
    BY <1>2, <2>1
  <2>4. Shown = Span(ShownStart(total), total) /\ Omitted = Gap(total)
    BY ShownSpan
  <2>. QED
    BY <2>1, <2>2, <2>3, <2>4 DEF OutputOK
<1>12. CASE Feed
  <2>1. PICK n \in total + 1..sent :
          LET fed == Fed(head, tail, [i \in 1..n - total |-> total + i]) IN
          head' = fed.head /\ tail' = fed.tail /\ total' = n
    BY <1>12 DEF Feed
  <2>2. total \in Nat /\ n \in Nat /\ total <= n
    BY <2>1, JobAssumption DEF TypeOK
  <2>3. PICK m \in Nat : m = total
    BY <2>2
  <2>4. PICK k \in Nat : k = n
    BY <2>2
  <2>5. Fed(Span(0, HeadEnd(m)), Span(TailStart(m), m), Span(m, k))
          = [head |-> Span(0, HeadEnd(k)), tail |-> Span(TailStart(k), k)]
    BY <2>2, <2>3, <2>4, FedSpan
  <2>6. Fed(head, tail, [i \in 1..n - total |-> total + i])
          = [head |-> Span(0, HeadEnd(n)), tail |-> Span(TailStart(n), n)]
    BY <2>3, <2>4, <2>5 DEF OutputOK, Span
  <2>7. head' = Span(0, HeadEnd(total')) /\ tail' = Span(TailStart(total'), total')
    BY <2>1, <2>6
  <2>8. UNCHANGED <<reader, monitor, result, sent, born, seen, group>>
    BY <1>12 DEF Feed
  <2>9. Stranger => Stranger'
    BY <1>2, <2>8
  <2>. QED
    BY <2>7, <2>8, <2>9 DEF OutputOK
<1>13. ASSUME NEW t \in Thread, KillStart(t) \/ OnCancel(t) \/ Terminate(t) \/ Grace(t) \/ KillKnown(t)
                                \/ KillRoot(t) \/ Forget(t)
       PROVE  OutputOK'
  <2>1. /\ UNCHANGED <<head, tail, total, result, sent, reader, born, seen, group>>
        /\ monitor' = "finalize" => monitor = "finalize"
    BY <1>13 DEF KillStart, OnCancel, Terminate, Grace, KillKnown, KillRoot, Forget, Goes
  <2>. QED
    BY <1>1, <1>2, <2>1
<1>14. ASSUME NEW t \in Thread, KillTrack(t)
       PROVE  OutputOK'
  <2>1. /\ UNCHANGED <<head, tail, total, result, sent, reader, born, group>> /\ seen' = seen \cup Tracked
        /\ monitor' = "finalize" => monitor = "finalize"
    BY <1>14 DEF KillTrack, Track, Goes
  <2>2. Cleared => seen' = seen
    BY <2>1, ClearedTracks DEF TreeOK
  <2>3. monitor \in {"finalize", "done"} /\ Stranger => Stranger'
    BY <2>1, <2>2 DEF KillOK, Stranger
  <2>. QED
    BY <1>1, <2>1, <2>3
<1>. QED
  BY <1>3, <1>4, <1>5, <1>6, <1>7, <1>8, <1>9, <1>10, <1>11, <1>12, <1>13, <1>14, Steps

-----------------------------------------------------------------------------
(* Theorems *)

\* The first states are as the invariant says.
LEMMA JInvInit ==
  ASSUME Init
  PROVE  JInv
<1>. USE DEF Init
<1>1. HeadEnd(0) = 0 /\ TailStart(0) = 0 /\ Span(0, 0) = << >>
  BY JobAssumption, EmptySpan DEF HeadEnd, TailStart, Smaller
<1>2. TypeOK
  <2>1. sent \in 0..MaxOutput /\ total \in 0..sent
    BY JobAssumption
  <2>2. parent \in [Process -> Process \cup {None}]
    OBVIOUS
  <2>. QED
    BY <2>1, <2>2 DEF TypeOK
<1>3. BornOK
  <2>1. 0 \in 0..Children + 1 /\ 0..0 - 1 = {}
    BY JobAssumption
  <2>. QED
    BY <2>1 DEF BornOK
<1>4. TreeOK /\ LockOK /\ KillOK
  BY JobAssumption DEF TreeOK, LockOK, KillOK, Me, Thread, Killing
<1>5. StatusOK
  BY JobAssumption DEF StatusOK, Killing
<1>6. OutputOK
  BY <1>1 DEF OutputOK
<1>. QED
  BY <1>2, <1>3, <1>4, <1>5, <1>6 DEF JInv

\* Every reachable state of a job is as the invariant says.
THEOREM JobInvariant == Spec => []JInv
<1>1. JInv /\ [Next]_vars => JInv'
  BY TypeStep, BornStep, TreeStep, LockStep, KillStep, StatusStep, OutputStep DEF JInv
<1>. QED
  BY <1>1, JInvInit, PTL DEF Spec

\* When a command has its result, nothing of it that the job ever saw, or that stayed in its process
\* group, still lives on this host, whatever forked, left and died meanwhile and whoever killed.
\* (Of a container nothing of the kind is true: ContainerGone.)
THEOREM NothingOfItIsLeft == Spec => []NothingLeft
<1>1. JInv => NothingLeft
  <2>. SUFFICES ASSUME JInv
                PROVE  NothingLeft
    OBVIOUS
  <2>1. TypeOK
    BY DEF JInv
  <2>2. TrackedGone
    BY DEF TrackedGone, JInv, StatusOK, KillOK, Cleared
  <2>. QED
    BY <2>1, <2>2 DEF NothingLeft
<1>. QED
  BY <1>1, JobInvariant, PTL

\* A result tells the command's own end and all its output, or both ends of it, the last one shorter
\* by the line about the gap, and how much there was; a cancel returns only when it is there.
THEOREM EndIsTold == Spec => []EndTold
<1>1. JInv => EndTold
  <2>. SUFFICES ASSUME JInv
                PROVE  EndTold
    OBVIOUS
  <2>1. StatusOwn /\ CancelWaits
    BY DEF JInv, StatusOK, StatusOwn, CancelWaits
  <2>2. OutputWhole
    <3>. SUFFICES ASSUME result # None
                  PROVE  OutputWhole
      BY DEF OutputWhole
    <3>1. result \in Results
      BY DEF JInv, TypeOK
    <3>2. PICK n \in Nat : n = result.total
      BY <3>1, JobAssumption DEF Results
    <3>3. /\ HeadEnd(n) \in 0..n /\ TailStart(n) \in 0..n /\ HeadEnd(n) <= TailStart(n)
          /\ ShownStart(n) \in 0..n /\ Gap(n) = (IF n > HeadBytes + TailBytes THEN n - HeadBytes - TailBytes ELSE 0)
          /\ ShownStart(n) = IF n > HeadBytes + TailBytes THEN n - TailBytes + MarkerBytes
                              ELSE Smaller(HeadBytes, n)
      BY JobAssumption DEF HeadEnd, TailStart, ShownStart, Gap, Smaller
    <3>4. Span(0, n) = [i \in 1..n |-> i]
      BY DEF Span
    <3>5. Part(Span(0, n), 1, HeadEnd(n)) = Span(0, HeadEnd(n))
      <4>1. /\ 0 \in Nat /\ 1 \in Nat /\ HeadEnd(n) \in Nat /\ 0 <= n /\ 1 >= 1 /\ 1 <= HeadEnd(n) + 1
            /\ HeadEnd(n) <= n - 0 /\ 0 = 0 + 1 - 1 /\ HeadEnd(n) = 0 + HeadEnd(n)
        BY <3>3
      <4>. QED
        BY <4>1, SpanPart
    <3>6. Part(Span(0, n), 1 + ShownStart(n), n) = Span(ShownStart(n), n)
      <4>1. PICK c \in Nat : c = ShownStart(n) /\ c <= n
        BY <3>3
      <4>2. /\ 0 \in Nat /\ 1 + c \in Nat /\ 0 <= n /\ 1 + c >= 1 /\ 1 + c <= n + 1 /\ n <= n - 0
            /\ c = 0 + (1 + c) - 1 /\ n = 0 + n
        BY <4>1
      <4>3. Part(Span(0, n), 1 + c, n) = Span(c, n)
        BY <4>1, <4>2, SpanPart
      <4>. QED
        BY <4>1, <4>3
    <3>7. /\ result.head = Span(0, HeadEnd(n)) /\ result.tail = Span(ShownStart(n), n)
          /\ result.omitted = Gap(n) /\ (n < sent => Stranger)
      BY <3>2 DEF JInv, OutputOK
    <3>8. result.head = SubSeq([i \in 1..n |-> i], 1, Smaller(HeadBytes, n))
      BY <3>4, <3>5, <3>7 DEF Part, HeadEnd
    <3>9. result.tail = SubSeq([i \in 1..n |-> i], 1 + ShownStart(n), n)
      BY <3>4, <3>6, <3>7 DEF Part
    <3>10. result.omitted = IF n > HeadBytes + TailBytes THEN n - HeadBytes - TailBytes ELSE 0
      BY <3>3, <3>7
    <3>. QED
      BY <3>2, <3>3, <3>7, <3>8, <3>9, <3>10 DEF OutputWhole, Stranger
  <2>. QED
    BY <2>1, <2>2 DEF EndTold
<1>. QED
  BY <1>1, JobInvariant, PTL
=============================================================================
