-------------------------------- MODULE Jobs --------------------------------
(***************************************************************************)
(* One command of the model from its start to its result: Job and          *)
(* BoundedOutput (ironclad/tool_runtime/exec.py) on POSIX, on the host or  *)
(* under docker (backends/docker.py).                                      *)
(*                                                                         *)
(* Three threads share the job: its monitor, its reader and a cancel.  The *)
(* processes of the command act on their own: they fork, leave the process *)
(* group, close their output, write, and exit.  A signal that cannot be    *)
(* ignored kills at once; SIGTERM may be ignored.  Each output byte is the *)
(* number of its place.  Under docker the first process is the client, and *)
(* what runs in the container is the daemon's.                             *)
(***************************************************************************)
EXTENDS Naturals, Sequences, FiniteSets

CONSTANTS
  Children,    \* bound: processes the command's first one leads to
  Backend,     \* backends a job may have: of {"host", "docker"}
  HeadBytes, TailBytes,  \* HEAD_BYTES, TAIL_BYTES
  MarkerBytes, \* length of the line that tells what is omitted (its digits vary by a few bytes)
  MaxOutput,   \* bound: bytes the processes write; none in the runs with all the children
  None

Root == 0   \* the process the job starts; the others are numbered as they come
Process == 0..Children

Results ==
  [status : {"ok", "failed", "timeout", "cancelled"}, head : Seq(1..MaxOutput), tail : Seq(1..MaxOutput),
   omitted : 0..MaxOutput, total : 0..MaxOutput]

ASSUME JobAssumption ==
  /\ {Children, HeadBytes, TailBytes, MarkerBytes, MaxOutput} \subseteq Nat /\ MarkerBytes <= TailBytes
  /\ None \notin Process /\ None \notin Results
  /\ None \notin {"timeout", "cancelled", "zero", "other", "monitor", "cancel"}
  /\ Backend \subseteq {"host", "docker"}

VARIABLES
  backend,
  alive, parent, group, holders,  \* processes; who made each; the process group; who has the pipe
  born,        \* processes there have been
  container,   \* none, asked, running, gone
  known, seen, \* _known; history: processes that were ever in it
  sent, head, tail, total, reader,  \* bytes written; BoundedOutput; the reading thread
  monitor, cancel,  \* where the threads are
  killLock,    \* who has _kill_lock: monitor, cancel or None
  second,      \* the monitor is in its second pass, after the first process ended
  expired,     \* timeout_s has passed
  reason,      \* _reason
  code,        \* the exit code of the first process, once it is reaped
  exit,        \* how the first process ended: its own code, or killed
  signalled,   \* history: a kill set in while the first process was alive
  result       \* the ToolResult: status, and what its text has: head, tail, the two counts

processes == <<alive, parent, group, holders, born, exit>>
output == <<head, tail, total, reader>>
threads == <<monitor, cancel, killLock, second>>
history == <<seen, signalled>>
vars == <<backend, processes, container, known, sent, output, threads, expired, reason, code,
          history, result>>

Killing == {"lock", "oncancel", "track", "term", "grace", "known", "forget", "root"}

TypeOK ==
  /\ backend \in Backend
  /\ alive \subseteq born /\ group \subseteq born /\ holders \subseteq alive /\ born \subseteq Process
  /\ parent \in [Process -> Process \cup {None}]
  /\ container \in {"none", "asked", "running", "gone"}
  /\ known \subseteq Process /\ seen \subseteq Process
  /\ sent \in 0..MaxOutput /\ total \in 0..sent
  /\ reader \in {"reading", "eof"}
  /\ monitor \in {"start", "loop", "wait", "reap", "join", "finalize", "done"} \cup Killing
  /\ cancel \in {"none", "waiting", "returned"} \cup Killing
  /\ killLock \in {"monitor", "cancel", None}
  /\ second \in BOOLEAN /\ expired \in BOOLEAN /\ signalled \in BOOLEAN
  /\ reason \in {None, "timeout", "cancelled"}
  /\ code \in {None, "zero", "other"} /\ exit \in {None, "zero", "other"}
  /\ result \in {None} \cup Results

Init ==
  /\ backend \in Backend
  /\ alive = {} /\ parent = [p \in Process |-> None] /\ group = {} /\ holders = {} /\ born = {}
  /\ container = "none"
  /\ known = {} /\ seen = {}
  /\ sent = 0 /\ head = <<>> /\ tail = <<>> /\ total = 0 /\ reader = "reading"
  /\ monitor = "start" /\ cancel = "none" /\ killLock = None
  /\ second = FALSE /\ expired = FALSE /\ reason = None /\ code = None /\ exit = None
  /\ signalled = FALSE /\ result = None

-----------------------------------------------------------------------------
(* The command's processes *)

Bounded(ps, n) == ps = Process => n = 0

Fork(p) ==
  /\ p \in alive /\ born # Process
  /\ backend = "host"
  /\ LET q == Cardinality(born) IN
     /\ Bounded(born \cup {q}, sent)
     /\ alive' = alive \cup {q} /\ born' = born \cup {q}
     /\ parent' = [parent EXCEPT ![q] = p]
     /\ group' = group \cup {r \in {q} : p \in group}
     /\ holders' = holders \cup {r \in {q} : p \in holders}
  /\ UNCHANGED <<backend, exit, container, known, sent, output, threads, expired, reason, code, history, result>>

\* setsid; the first process leads its session already
Leave(p) ==
  /\ p \in (alive \cap group) \ {Root}
  /\ group' = group \ {p}
  /\ UNCHANGED <<backend, alive, parent, holders, born, exit, container, known, sent, output, threads,
                 expired, reason, code, history, result>>

CloseOutput(p) ==
  /\ p \in holders
  /\ holders' = holders \ {p}
  /\ UNCHANGED <<backend, alive, parent, group, born, exit, container, known, sent, output, threads,
                 expired, reason, code, history, result>>

Write(p) ==
  /\ p \in holders /\ sent < MaxOutput /\ Bounded(born, sent + 1)
  /\ sent' = sent + 1
  /\ UNCHANGED <<backend, processes, container, known, output, threads, expired, reason, code, history, result>>

\* the processes of S end; their children lose their parent
Die(S) ==
  /\ alive' = alive \ S
  /\ holders' = holders \ S
  /\ parent' = [p \in Process |-> IF parent[p] \in S THEN None ELSE parent[p]]

Exit(p) ==
  /\ p \in alive
  /\ p = Root /\ backend = "docker" => container \in {"none", "gone"}
  /\ Die({p})
  /\ exit' \in IF p = Root THEN {"zero", "other"} ELSE {exit}
  /\ UNCHANGED <<backend, group, born, container, known, sent, output, threads, expired, reason, code,
                 history, result>>

\* docker run: the client asks for the container, the daemon makes and runs it
Ask ==
  /\ backend = "docker" /\ Root \in alive /\ container = "none"
  /\ container' = "asked"
  /\ UNCHANGED <<backend, processes, known, sent, output, threads, expired, reason, code, history, result>>

Daemon ==
  /\ container' = CASE container = "asked" -> "running" [] container = "running" -> "gone"
                    [] OTHER -> container
  /\ container \in {"asked", "running"}
  /\ UNCHANGED <<backend, processes, known, sent, output, threads, expired, reason, code, history, result>>

-----------------------------------------------------------------------------
(* The reader *)

Smaller(a, b) == IF a < b THEN a ELSE b

\* BoundedOutput.feed
Fed(h, t, chunk) ==
  LET room == Smaller(HeadBytes - Len(h), Len(chunk))
      rest == t \o SubSeq(chunk, room + 1, Len(chunk))
  IN [head |-> h \o SubSeq(chunk, 1, room),
      tail |-> SubSeq(rest, 1 + Len(rest) - Smaller(TailBytes, Len(rest)), Len(rest))]

Feed ==
  /\ monitor # "start" /\ reader = "reading" /\ total < sent
  /\ \E n \in total + 1..sent :
       LET fed == Fed(head, tail, [i \in 1..n - total |-> total + i]) IN
       /\ head' = fed.head /\ tail' = fed.tail /\ total' = n
  /\ UNCHANGED <<backend, processes, container, known, sent, reader, threads, expired, reason, code,
                 history, result>>

EndOfFile ==
  /\ monitor # "start" /\ reader = "reading" /\ total = sent /\ holders = {}
  /\ reader' = "eof"
  /\ UNCHANGED <<backend, processes, container, known, sent, head, tail, total, threads, expired, reason,
                 code, history, result>>

-----------------------------------------------------------------------------
(* What a thread does to the tree *)

Ancestor == [p \in Process |->
  LET one == {parent[p]} \ {None}
      two == {parent[q] : q \in one} \ {None}
  IN one \cup two]

\* _track: the living descendants of the first process and of those known
Tracked == known \cup {p \in alive : Ancestor[p] \cap (alive \cap ({Root} \cup known)) # {}}

Track ==
  /\ known' = Tracked
  /\ seen' = seen \cup Tracked

Me(t) == IF t = "monitor" THEN monitor ELSE cancel

Goes(t, step) ==
  IF t = "monitor" THEN monitor' = step /\ UNCHANGED cancel ELSE cancel' = step /\ UNCHANGED monitor

AfterExit(t) == t = "monitor" /\ second

KillStart(t) ==
  /\ Me(t) = "lock" /\ killLock = None
  /\ killLock' = t
  /\ Goes(t, IF AfterExit(t) THEN "track" ELSE "oncancel")
  /\ signalled' = (signalled \/ (~AfterExit(t) /\ Root \in alive))
  /\ UNCHANGED <<backend, processes, container, known, sent, output, second, expired, reason, code, seen, result>>

\* on_cancel
Stopped == IF container = "running" THEN "gone" ELSE container

\* docker kill: a container that is not there yet is not killed, and a failure (no docker, no
\* answer in time, an error of the daemon) is passed over: nobody is told
OnCancel(t) ==
  /\ Me(t) = "oncancel"
  /\ container' \in {container, Stopped}
  /\ Goes(t, "track")
  /\ UNCHANGED <<backend, processes, known, sent, output, killLock, second, expired, reason, code, seen, signalled, result>>

KillTrack(t) ==
  /\ Me(t) = "track" /\ Track
  /\ Goes(t, "term")
  /\ UNCHANGED <<backend, processes, container, sent, output, killLock, second, expired, reason, code, signalled, result>>

\* SIGTERM to the group; whoever heeds it exits on its own
Terminate(t) ==
  /\ Me(t) = "term"
  /\ Goes(t, IF alive \cap group = {} THEN "known" ELSE "grace")
  /\ UNCHANGED <<backend, processes, container, known, sent, output, killLock, second, expired, reason, code,
                 history, result>>

\* mutant: SIGTERM has to do
GroupKill_Term == {}

GroupKill == alive \cap group

\* the group is empty, or gets SIGKILL after KILL_GRACE_S
Grace(t) ==
  /\ Me(t) = "grace"
  /\ Die(GroupKill)
  /\ exit' = IF Root \in GroupKill THEN "other" ELSE exit
  /\ Goes(t, "known")
  /\ UNCHANGED <<backend, group, born, container, known, sent, output, killLock, second, expired, reason, code,
                 history, result>>

KillKnown(t) ==
  /\ Me(t) = "known"
  /\ Die(known)
  /\ exit' = IF Root \in known /\ Root \in alive THEN "other" ELSE exit
  /\ Goes(t, "forget")
  /\ UNCHANGED <<backend, group, born, container, known, sent, output, killLock, second, expired, reason, code,
                 history, result>>

\* those that are gone are no longer known
Forget(t) ==
  /\ Me(t) = "forget"
  /\ known' = known \cap alive
  /\ Goes(t, "root")
  /\ UNCHANGED <<backend, processes, container, sent, output, killLock, second, expired, reason, code, history, result>>

KillRoot(t) ==
  /\ Me(t) = "root"
  /\ Die({Root} \cap alive)
  /\ exit' = IF Root \in alive THEN "other" ELSE exit
  /\ code' = IF code = None THEN exit' ELSE code
  /\ killLock' = None
  /\ Goes(t, IF t = "cancel" THEN "waiting" ELSE IF AfterExit(t) THEN "join" ELSE "reap")
  /\ UNCHANGED <<backend, group, born, container, known, sent, output, second, expired, reason, history, result>>

Kill(t) ==
  KillStart(t) \/ OnCancel(t) \/ KillTrack(t) \/ Terminate(t) \/ Grace(t) \/ KillKnown(t) \/ Forget(t)
  \/ KillRoot(t)

-----------------------------------------------------------------------------
(* The monitor *)

\* Popen with a session of its own
Spawn ==
  /\ monitor = "start"
  /\ alive' = {Root} /\ born' = {Root} /\ group' = {Root} /\ holders' = {Root}
  /\ monitor' = "loop"
  /\ UNCHANGED <<backend, parent, exit, container, known, sent, output, cancel, killLock, second, expired, reason,
                 code, history, result>>

\* _finish_now: the program cannot be started
SpawnFails ==
  /\ monitor = "start"
  /\ result' = [status |-> "failed", head |-> <<>>, tail |-> <<>>, omitted |-> 0, total |-> 0]
  /\ monitor' = "done"
  /\ UNCHANGED <<backend, processes, container, known, sent, output, cancel, killLock, second, expired, reason,
                 code, history>>

Look ==
  /\ monitor = "loop" /\ Track
  /\ monitor' = "wait"
  /\ UNCHANGED <<backend, processes, container, sent, output, cancel, killLock, second, expired, reason, code,
                 signalled, result>>

\* mutant: only the end of the command counts
Late_No == FALSE

Late == expired

\* mutant: nothing is killed once the first process has ended
Leftover_None == "join"

Leftover == "lock"

\* the first process is seen to have ended, or is waited for again, or the time is over
Wait ==
  /\ monitor = "wait"
  /\ \/ /\ Root \notin alive /\ ~Late
        /\ code' = exit
        /\ second' = TRUE
        /\ monitor' = Leftover
        /\ UNCHANGED reason
     \/ /\ Root \in alive /\ ~Late
        /\ monitor' = "loop"
        /\ UNCHANGED <<code, reason, second>>
     \/ /\ Late
        /\ reason' = IF reason = None THEN "timeout" ELSE reason
        /\ monitor' = "lock"
        /\ UNCHANGED <<code, second>>
  /\ UNCHANGED <<backend, processes, container, known, sent, output, cancel, killLock, expired, history, result>>

\* _proc.wait() after the timeout's kill
Reap ==
  /\ monitor = "reap" /\ Root \notin alive
  /\ second' = TRUE
  /\ monitor' = "lock"
  /\ UNCHANGED <<backend, processes, container, known, sent, output, cancel, killLock, expired, reason,
                 code, history, result>>

Joined == reader = "eof" \/ holders # {}

\* the reader is waited for; it is quick, so READER_JOIN_S passes only if the pipe stays open
Join ==
  /\ monitor = "join"
  /\ Joined
  /\ monitor' = "finalize"
  /\ UNCHANGED <<backend, processes, container, known, sent, output, cancel, killLock, second, expired, reason,
                 code, history, result>>

Status == CASE reason # None -> reason
            [] reason = None /\ code = "zero" -> "ok"
            [] OTHER -> "failed"

\* BoundedOutput.text: bytes that were not kept are counted, and as many as the line about them
\* has bytes are then cut off the tail, which the count does not have
Omitted == total - Len(head) - Len(tail)

Shown == IF Omitted = 0 THEN tail ELSE SubSeq(tail, MarkerBytes + 1, Len(tail))

Finalize ==
  /\ monitor = "finalize"
  /\ result' = [status |-> Status, head |-> head, tail |-> Shown, omitted |-> Omitted, total |-> total]
  /\ monitor' = "done"
  /\ UNCHANGED <<backend, processes, container, known, sent, output, cancel, killLock, second, expired, reason,
                 code, history>>

Expire ==
  /\ monitor # "start" /\ ~expired /\ result = None
  /\ expired' = TRUE
  /\ UNCHANGED <<backend, processes, container, known, sent, output, threads, reason, code, history, result>>

-----------------------------------------------------------------------------
(* cancel() *)

\* mutant: why the processes die is not noted first
Noted_Not == reason

Noted == IF reason = None THEN "cancelled" ELSE reason

Cancel ==
  /\ monitor # "start" /\ cancel = "none" /\ result = None
  /\ reason' = Noted
  /\ cancel' = "lock"
  /\ UNCHANGED <<backend, processes, container, known, sent, output, monitor, killLock, second, expired, code,
                 history, result>>

Awaited == result # None

Return ==
  /\ cancel = "waiting" /\ Awaited
  /\ cancel' = "returned"
  /\ UNCHANGED <<backend, processes, container, known, sent, output, monitor, killLock, second, expired, reason,
                 code, history, result>>

Commands == \E p \in Process :
  Leave(p) \/ CloseOutput(p) \/ Write(p) \/ Exit(p) \/ Fork(p)

Monitor == Spawn \/ SpawnFails \/ Look \/ Wait \/ Reap \/ Join \/ Finalize \/ Kill("monitor")

Reader == Feed \/ EndOfFile

Canceller == Return \/ Kill("cancel")

Over == result # None /\ cancel \in {"none", "returned"} /\ UNCHANGED vars

Next == Commands \/ Ask \/ Daemon \/ Monitor \/ Reader \/ Canceller \/ Cancel \/ Expire \/ Over

Spec == Init /\ [][Next]_vars

\* the three threads run and time passes; the command's processes owe nothing
FairSpec == Spec /\ WF_vars(Monitor) /\ WF_vars(Reader) /\ WF_vars(Canceller) /\ WF_vars(Expire)

-----------------------------------------------------------------------------
(* Properties *)

\* When the result is there, nothing of the command is left that _track ever saw or that stayed
\* in the process group, whoever asked for the end and whatever forked meanwhile.  (What left the
\* group unseen may live on; the result says so.)
TrackedGone == result # None => alive \cap (seen \cup group \cup {Root}) = {}

\* A result means that nothing of the command is left on this host that the job could have known.
NothingLeft == TypeOK /\ TrackedGone

\* exec.py:13 says more, and the code does not keep it: the container of a command that was cancelled
\* or ran out of time may run on, if docker kill failed or came before the daemon had started it.
ContainerGone ==
  result # None /\ result.status \in {"timeout", "cancelled"} => container \in {"none", "gone"}

\* The text of a result has all the processes wrote, or the first HEAD_BYTES of it, the last
\* TAIL_BYTES less the line that tells of the gap, and the count of all; what is missing beyond
\* that, something wrote that left unseen.
OutputWhole ==
  result # None /\ holders = {} /\ reader = "eof" =>
    LET n == result.total
        whole == [i \in 1..n |-> i]
        cut == n > HeadBytes + TailBytes
    IN /\ result.head = SubSeq(whole, 1, Smaller(HeadBytes, n))
       /\ result.tail = SubSeq(whole, 1 + IF cut THEN n - TailBytes + MarkerBytes ELSE Smaller(HeadBytes, n), n)
       /\ result.omitted = IF cut THEN n - HeadBytes - TailBytes ELSE 0
       /\ n < sent => \E p \in born : p \notin seen \cup group

\* The code does not keep this: the number in the line about the gap is not that of the bytes that
\* are missing, of which it leaves out as many as the line has (exec.py:363-365).
OmittedTold ==
  result # None => result.omitted = result.total - Len(result.head) - Len(result.tail)

\* A result is OK or FAILED only if the command came to its own end: a kill by cancel or timeout
\* is never taken for the command's success or failure.
StatusOwn ==
  result # None => (result.status \in {"ok", "failed"} => ~signalled /\ code = exit)

\* cancel() returns only when the result is there.
CancelWaits == cancel = "returned" => result # None

\* The result tells the command's own story, however a cancel, the deadline, its end and its last
\* output meet.
EndTold == StatusOwn /\ CancelWaits /\ OutputWhole

\* A started job comes to its result, whatever its processes do.
JobEnds == monitor = "loop" ~> result # None

\* A cancel returns.
CancelEnds == cancel = "lock" ~> cancel = "returned"

\* Neither the monitor nor a cancel waits for ever (fairness: each thread goes on).
Ends == JobEnds /\ CancelEnds
=============================================================================
