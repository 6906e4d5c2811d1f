----------------------------- MODULE SessionLock -----------------------------
(***************************************************************************)
(* Who may use a conversation: the activity locks of SqliteSessionStore    *)
(* (ironclad/session_store/sqlite_store.py), the heartbeats and ownership  *)
(* guards of the two front ends (nedster_agent/cli.py, tui.py) and the     *)
(* guard checks of the engine (ironclad/engine/loop.py).                   *)
(*                                                                         *)
(* A process of Cli is one `nedster run`: it is admitted to a session,     *)
(* runs one turn there and exits.  A process of Tui is a window: it opens, *)
(* resumes, creates and leaves sessions between its turns.  In a turn the  *)
(* guard is asked before every message and every tool, each of which is a  *)
(* later step: time passes, and other processes act, between any two.      *)
(*                                                                         *)
(* Time is the age of each heartbeat, counted up to TTL + 1 (expired).     *)
(* Messages are abstracted to what one process knows of another's: whether *)
(* the engine's cached copy of a conversation has all that was appended.   *)
(* The placeholders of a repair, which are no news, are left out here.     *)
(***************************************************************************)
EXTENDS Naturals

CONSTANTS
  Session,   \* session ids that are ever created
  Cli, Tui,  \* processes, by front end; each is started at most once
  Remote,    \* those of them that run on another host: their pid says nothing here
  Nobody,    \* no process, no session (SQL NULL, Python None)
  TTL,       \* LOCK_TTL_S, in ticks
  WhenStalled  \* bound: the sessions there are in a behaviour with stalls

Proc == Cli \cup Tui

ASSUME LockAssumption ==
  /\ TTL \in Nat
  /\ Cli \cap Tui = {}
  /\ Remote \subseteq Proc
  /\ Nobody \notin Session \cup Proc
  /\ WhenStalled \subseteq Session

VARIABLES
  row,      \* sessions table: unused, saved or deleted
  owner,    \* session_locks.owner
  age,      \* ticks since session_locks.heartbeat_ns
  pc,       \* where each process is
  current,  \* session_id of its NativeSession
  locked,   \* session of its heartbeat: the TUI's _locked
  lost,     \* _SessionHeartbeat.lost of a CLI run
  since,    \* ticks since its guard last said yes
  copy,     \* Engine._sessions: nothing cached, as stored, or behind the store
  taken,    \* history: its lock was taken by another process during its turn
  erased,   \* history: sessions that lost messages of another process
  stalls    \* may a live process stall for longer than TTL (suspend, swap)? never changes

rows == <<row, owner, age>>
process == <<pc, current, locked, lost, since>>
history == <<taken, erased>>
vars == <<rows, process, copy, history, stalls>>

Started == {p \in Proc : pc[p] # "new" /\ pc[p] # "dead"}
InTurn == {p \in Proc : pc[p] \in {"turn", "checked", "tool"}}

TypeOK ==
  /\ row \in [Session -> {"unused", "saved", "deleted"}]
  /\ owner \in [Session -> Proc \cup {Nobody}]
  /\ age \in [Session -> 0..TTL + 1]
  /\ pc \in [Proc -> {"new", "idle", "turn", "checked", "tool", "dead"}]
  /\ current \in [Proc -> Session \cup {Nobody}]
  /\ locked \in [Proc -> Session \cup {Nobody}]
  /\ lost \in [Proc -> BOOLEAN]
  /\ since \in [Proc -> 0..TTL + 1]
  /\ copy \in [Proc -> [Session -> {"none", "current", "behind"}]]
  /\ taken \in [Proc -> BOOLEAN]
  /\ erased \subseteq Session
  /\ stalls \in BOOLEAN

Init ==
  /\ stalls \in BOOLEAN
  /\ row \in [Session -> {"unused", "saved", "deleted"}]
  /\ \A s \in Session : row[s] = "deleted" <=> stalls /\ s \notin WhenStalled
  /\ owner = [s \in Session |-> Nobody]
  /\ age = [s \in Session |-> 0]
  /\ pc = [p \in Proc |-> "new"]
  /\ current = [p \in Proc |-> Nobody]
  /\ locked = [p \in Proc |-> Nobody]
  /\ lost = [p \in Proc |-> FALSE]
  /\ since = [p \in Proc |-> 0]
  /\ copy = [p \in Proc |-> [s \in Session |-> "none"]]
  /\ taken = [p \in Proc |-> FALSE]
  /\ erased = {}

-----------------------------------------------------------------------------
(* The store's lock functions, as process p calls them *)

SameHost(p, q) == (p \in Remote) <=> (q \in Remote)

\* mutant: an expired heartbeat still counts
Live_NoTtl(s, p) ==
  /\ owner[s] # Nobody
  /\ SameHost(p, owner[s]) => owner[s] \in Started

\* mutant: the pid of a holder on another host is looked up on this one
Live_NoHost(s, p) ==
  /\ owner[s] # Nobody
  /\ age[s] <= TTL
  /\ SameHost(p, owner[s]) /\ owner[s] \in Started

\* _lock_live: a fresh heartbeat and, on this host, a pid that exists
Live(s, p) ==
  /\ owner[s] # Nobody
  /\ age[s] <= TTL
  /\ SameHost(p, owner[s]) => owner[s] \in Started

\* acquire_lock: the session exists and nobody else holds a live lock
CanAcquire(p, s) == row[s] = "saved" /\ (owner[s] = p \/ ~Live(s, p))

\* refresh_lock
CanRefresh(p, s) == owner[s] = p

Holds(p, s) ==
  /\ owner' = [owner EXCEPT ![s] = p]
  /\ age' = [age EXCEPT ![s] = 0]
  /\ taken' = [q \in Proc |-> taken[q] \/ (q # p /\ q \in InTurn /\ current[q] = s /\ owner[s] # p)]

\* acquire_lock(s) after release_lock(old), which deletes only p's own row
SwitchLock(p, s, old) ==
  /\ owner' = [x \in Session |-> IF x = s THEN p ELSE IF x \in old /\ owner[x] = p THEN Nobody
                                 ELSE owner[x]]
  /\ age' = [age EXCEPT ![s] = 0]
  /\ taken' = [q \in Proc |-> taken[q] \/ (q # p /\ q \in InTurn /\ current[q] = s /\ owner[s] # p)]

\* release_lock
Releases(p, old) ==
  owner' = [x \in Session |-> IF x \in old /\ owner[x] = p THEN Nobody ELSE owner[x]]

\* a message gets into the stored conversation s: whoever else has a copy of it is
\* behind now
Stored(p, s) ==
  copy' = [q \in Proc |-> [x \in Session |->
             IF x = s /\ q # p /\ copy[q][x] # "none" THEN "behind" ELSE copy[q][x]]]

\* Engine._session at the start of a turn: loaded once, then cached
Loaded(p, s) == copy' = [copy EXCEPT ![p][s] = IF @ = "none" THEN "current" ELSE @]

\* the process ends and its memory goes
Ends(p) ==
  /\ pc' = [pc EXCEPT ![p] = "dead"]
  /\ current' = [current EXCEPT ![p] = Nobody]
  /\ locked' = [locked EXCEPT ![p] = Nobody]
  /\ lost' = [lost EXCEPT ![p] = FALSE]
  /\ since' = [since EXCEPT ![p] = 0]
  /\ copy' = [copy EXCEPT ![p] = [s \in Session |-> "none"]]
  /\ taken' = [taken EXCEPT ![p] = FALSE]

-----------------------------------------------------------------------------
(* nedster run *)

\* the constructor resolves or creates the session and is admitted before it writes
CliStart(p, s) ==
  /\ pc[p] = "new"
  /\ row[s] # "deleted"
  /\ IF row[s] = "unused" \/ CanAcquire(p, s)
     THEN /\ row' = [row EXCEPT ![s] = "saved"]
          /\ Holds(p, s)
          /\ pc' = [pc EXCEPT ![p] = "idle"]
          /\ current' = [current EXCEPT ![p] = s]
          /\ locked' = [locked EXCEPT ![p] = s]
          /\ UNCHANGED <<lost, since, copy, erased, stalls>>
     ELSE Ends(p) /\ UNCHANGED <<rows, erased, stalls>>

\* heartbeat.close() in the finally of _run_native, then the process ends
CliEnds(p) ==
  /\ Releases(p, {locked[p]})
  /\ Ends(p)
  /\ UNCHANGED <<row, age, erased, stalls>>

\* heartbeat.verify(), then engine.run
CliRun(p) ==
  /\ pc[p] = "idle"
  /\ IF CanRefresh(p, locked[p])
     THEN /\ age' = [age EXCEPT ![locked[p]] = 0]
          /\ pc' = [pc EXCEPT ![p] = "turn"]
          /\ Loaded(p, locked[p])
          /\ UNCHANGED <<row, owner, current, locked, lost, since, taken, erased, stalls>>
     ELSE CliEnds(p)

\* _SessionHeartbeat._loop, one round: refresh, else acquire again, else lost
CliHeartbeat(p) ==
  /\ p \in Started /\ ~lost[p]
  /\ IF CanRefresh(p, locked[p]) \/ CanAcquire(p, locked[p])
     THEN Holds(p, locked[p]) /\ UNCHANGED lost
     ELSE lost' = [lost EXCEPT ![p] = TRUE] /\ UNCHANGED <<owner, age, taken>>
  /\ UNCHANGED <<row, pc, current, locked, since, copy, erased, stalls>>

-----------------------------------------------------------------------------
(* The window *)

\* opened lazily, or on a saved session
TuiStart(p) ==
  /\ pc[p] = "new"
  /\ pc' = [pc EXCEPT ![p] = "idle"]
  /\ UNCHANGED <<rows, current, locked, lost, since, copy, history, stalls>>

\* opened on a saved session, whether its lock is free or not
TuiOpen(p, s) ==
  /\ pc[p] = "new"
  /\ row[s] = "saved"
  /\ pc' = [pc EXCEPT ![p] = "idle"]
  /\ current' = [current EXCEPT ![p] = s]
  /\ IF CanAcquire(p, s) THEN Holds(p, s) /\ locked' = [locked EXCEPT ![p] = s]
     ELSE UNCHANGED <<owner, age, taken, locked>>
  /\ UNCHANGED <<row, lost, since, copy, erased, stalls>>

\* /resume: the target's lock first; the old one is released on success
TuiResume(p, s) ==
  /\ pc[p] = "idle"
  /\ CanAcquire(p, s)
  /\ SwitchLock(p, s, {locked[p]} \ {s})
  /\ current' = [current EXCEPT ![p] = s]
  /\ locked' = [locked EXCEPT ![p] = s]
  /\ UNCHANGED <<row, pc, lost, since, copy, erased, stalls>>

\* /new: the row is created and the lock of the old session released
TuiNew(p, s) ==
  /\ pc[p] = "idle"
  /\ row[s] = "unused"
  /\ row' = [row EXCEPT ![s] = "saved"]
  /\ SwitchLock(p, s, {locked[p]})
  /\ current' = [current EXCEPT ![p] = s]
  /\ locked' = [locked EXCEPT ![p] = s]
  /\ UNCHANGED <<pc, lost, since, copy, erased, stalls>>

\* _activate_session for a session with no row yet
TuiFirstTurn(p, s) ==
  /\ pc[p] = "idle" /\ current[p] = Nobody
  /\ row[s] = "unused"
  /\ row' = [row EXCEPT ![s] = "saved"]
  /\ SwitchLock(p, s, {locked[p]})
  /\ current' = [current EXCEPT ![p] = s]
  /\ locked' = [locked EXCEPT ![p] = s]
  /\ pc' = [pc EXCEPT ![p] = "turn"]
  /\ Loaded(p, s)
  /\ UNCHANGED <<lost, since, erased, stalls>>

BeginTurn(p, s) ==
  /\ pc' = [pc EXCEPT ![p] = "turn"]
  /\ Loaded(p, s)

\* _activate_session: a cached lock is refreshed, never taken again in the same call
TuiTurnHeld(p) ==
  LET s == current[p] IN
  /\ pc[p] = "idle" /\ s # Nobody /\ locked[p] = s
  /\ IF CanRefresh(p, s)
     THEN /\ age' = [age EXCEPT ![s] = 0]
          /\ BeginTurn(p, s)
          /\ UNCHANGED locked
     ELSE /\ locked' = [locked EXCEPT ![p] = Nobody]
          /\ UNCHANGED <<age, pc, copy>>
  /\ UNCHANGED <<row, owner, current, lost, since, taken, erased, stalls>>

\* _activate_session without a cached lock of the session: acquire, or refuse
TuiTurnUnheld(p) ==
  LET s == current[p] IN
  /\ pc[p] = "idle" /\ s # Nobody /\ locked[p] # s
  /\ CanAcquire(p, s)
  /\ SwitchLock(p, s, {locked[p]})
  /\ locked' = [locked EXCEPT ![p] = s]
  /\ BeginTurn(p, s)
  /\ UNCHANGED <<row, current, lost, since, erased, stalls>>

\* _heartbeat_lock, one round: refresh, else acquire again, else give it up (and
\* cancel the turn, whose next guard check fails anyway)
TuiHeartbeat(p) ==
  /\ p \in Started /\ locked[p] # Nobody
  /\ IF CanRefresh(p, locked[p]) \/ CanAcquire(p, locked[p])
     THEN Holds(p, locked[p]) /\ UNCHANGED locked
     ELSE locked' = [locked EXCEPT ![p] = Nobody] /\ UNCHANGED <<owner, age, taken>>
  /\ UNCHANGED <<row, pc, current, lost, since, copy, erased, stalls>>

\* the lock row stays: its pid is dead now
TuiExit(p) == pc[p] = "idle" /\ Ends(p) /\ UNCHANGED <<rows, erased, stalls>>

-----------------------------------------------------------------------------
(* A turn: Engine._drive, its guard and what it persists *)

\* mutant: the guard trusts what the process remembers
Owns_Cached(p) == locked[p] = current[p] /\ ~lost[p]

\* owner_guard: _SessionHeartbeat.owns, NedsterApp._owns_session
Owns(p) == locked[p] = current[p] /\ ~lost[p] /\ CanRefresh(p, current[p])

\* _require_owner says yes: the lock is fresh again
Check(p) ==
  /\ pc[p] = "turn" /\ Owns(p)
  /\ age' = [age EXCEPT ![current[p]] = 0]
  /\ since' = [since EXCEPT ![p] = 0]
  /\ pc' = [pc EXCEPT ![p] = "checked"]
  /\ UNCHANGED <<row, owner, current, locked, lost, copy, history, stalls>>

\* a turn is over: the window is idle again, a run ends
TurnEnds(p) ==
  IF p \in Cli THEN CliEnds(p)
  ELSE /\ pc' = [pc EXCEPT ![p] = "idle"]
       /\ since' = [since EXCEPT ![p] = 0]
       /\ taken' = [taken EXCEPT ![p] = FALSE]
       /\ UNCHANGED <<rows, current, locked, lost, copy, erased, stalls>>

\* OwnershipLost: the turn is over and nothing more is persisted
CheckFails(p) == pc[p] = "turn" /\ ~Owns(p) /\ TurnEnds(p)

\* _append
AppendMessage(p) ==
  /\ pc[p] = "checked"
  /\ Stored(p, current[p])
  /\ pc' = [pc EXCEPT ![p] = "turn"]
  /\ since' = [since EXCEPT ![p] = 0]
  /\ UNCHANGED <<rows, current, locked, lost, taken, erased, stalls>>

\* _exec_one starts the tool
Dispatch(p) ==
  /\ pc[p] = "checked"
  /\ pc' = [pc EXCEPT ![p] = "tool"]
  /\ since' = [since EXCEPT ![p] = 0]
  /\ UNCHANGED <<rows, current, locked, lost, copy, history, stalls>>

\* the tool is done; a long output is stored (vault.put) without asking the guard
ToolDone(p) ==
  /\ pc[p] = "tool"
  /\ pc' = [pc EXCEPT ![p] = "turn"]
  /\ UNCHANGED <<rows, current, locked, lost, since, copy, history, stalls>>

\* _maybe_compact replaces the stored messages by the copy without asking the guard
Compact(p) ==
  /\ pc[p] = "turn"
  /\ erased' = IF copy[p][current[p]] = "behind" THEN erased \cup {current[p]} ELSE erased
  /\ UNCHANGED <<rows, process, copy, taken, stalls>>

\* run() after _drive: one more check, then _finish stores the task state
Finish(p) == pc[p] = "checked" /\ TurnEnds(p)

Crash(p) == p \in Started /\ Ends(p) /\ UNCHANGED <<rows, erased, stalls>>

-----------------------------------------------------------------------------
(* The rest of the world *)

\* mutant: the lock check is forgotten
Delete_AnyLock(s, p) ==
  /\ row[s] = "saved"
  /\ row' = [row EXCEPT ![s] = "deleted"]
  /\ owner' = [owner EXCEPT ![s] = Nobody]
  /\ UNCHANGED <<age, process, copy, history, stalls>>

\* delete_session, from a terminal on p's host or from another window p
Delete(s, p) ==
  /\ row[s] = "saved"
  /\ ~Live(s, p)
  /\ row' = [row EXCEPT ![s] = "deleted"]
  /\ owner' = [owner EXCEPT ![s] = Nobody]
  /\ UNCHANGED <<age, process, copy, history, stalls>>

Older(n) == IF n > TTL THEN n ELSE n + 1

\* nothing that a live process renews or is about to do is older than TTL
Timely ==
  /\ \A s \in Session : owner[s] \in Started => age[s] < TTL
  /\ \A p \in Proc : pc[p] = "checked" => since[p] < TTL

Tick ==
  /\ stalls \/ Timely
  /\ age' = [s \in Session |-> IF owner[s] = Nobody THEN age[s] ELSE Older(age[s])]
  /\ since' = [p \in Proc |-> IF pc[p] = "checked" THEN Older(since[p]) ELSE since[p]]
  /\ UNCHANGED <<row, owner, pc, current, locked, lost, copy, history, stalls>>

-----------------------------------------------------------------------------
CliStep(p) == (\E s \in Session : CliStart(p, s)) \/ CliRun(p) \/ CliHeartbeat(p)
TuiStep(p) ==
  \/ TuiStart(p) \/ TuiTurnHeld(p) \/ TuiTurnUnheld(p) \/ TuiHeartbeat(p) \/ TuiExit(p)
  \/ \E s \in Session : TuiOpen(p, s) \/ TuiResume(p, s) \/ TuiNew(p, s) \/ TuiFirstTurn(p, s)
TurnStep(p) ==
  Check(p) \/ CheckFails(p) \/ AppendMessage(p) \/ Dispatch(p) \/ ToolDone(p) \/ Compact(p) \/ Finish(p)

Next ==
  \/ \E p \in Cli : CliStep(p)
  \/ \E p \in Tui : TuiStep(p)
  \/ \E p \in Proc : TurnStep(p) \/ Crash(p) \/ \E s \in Session : Delete(s, p)
  \/ Tick

Spec == Init /\ [][Next]_vars

\* the clock and the heartbeat timers run, and a window's user goes on submitting to
\* the session the window shows
Fairness ==
  WF_vars(Tick) /\ \A p \in Tui : WF_vars(TuiTurnUnheld(p)) /\ WF_vars(TuiHeartbeat(p))
FairSpec == Spec /\ Fairness

-----------------------------------------------------------------------------
(* Properties *)

\* While no process stalls for longer than the lock's life, no two processes run a
\* turn on one conversation, on one host or on two (acquire_lock, the heartbeats).
OneRunner ==
  stalls \/ \A p, q \in InTurn : p # q => current[p] # current[q]

\* However long processes stall: a message written, or a tool started, within TTL of
\* the guard check before it happens under the writer's own lock, on a session that
\* still exists (_require_owner, acquire_lock, delete_session).
WriteOwned ==
  \A p \in Proc : pc[p] = "checked" /\ since[p] <= TTL =>
    /\ current[p] \in Session
    /\ row[current[p]] = "saved"
    /\ owner[current[p]] = p
    /\ age[current[p]] <= since[p]

\* While no process stalls, a conversation is deleted only when no running front
\* end holds it, idle windows included ("a session held by a live Nedster cannot be
\* deleted": delete_session).
DeleteSparesActive ==
  [][stalls \/ \A s \in Session : row[s] = "saved" /\ row'[s] = "deleted" =>
       \A p \in Started : locked[p] # s]_vars

\* A holder that died, on this host or another, does not block a window that shows
\* its conversation: the window gets the lock (fairness: time passes and the user
\* tries again), or the conversation goes or the window leaves it.
DeadHolderReplaced ==
  \A p \in Tui, s \in Session :
    (stalls /\ pc[p] = "idle" /\ current[p] = s /\ owner[s] \in Proc \ Started)
      ~> (owner[s] \notin Proc \ Started \/ current[p] # s \/ pc[p] = "dead")

\* "A lost lock ends the run": once another process has taken the session during a
\* turn, no later guard check of that turn succeeds.  The code does not keep this one (a
\* heartbeat acquires a lock that is free again), and no run checks it.
TakenTurnEnds == [][\A p \in Proc : Check(p) => ~taken[p]]_vars

\* "Nothing more may be persisted" once the lock is another's: compaction rewrites
\* the stored messages only under the process's own lock.  The code does not keep this one
\* (_maybe_compact asks no guard), and no run checks it.
CompactsOwned == [][\A p \in Proc : Compact(p) => owner[current[p]] = p]_vars

\* Compaction replaces stored messages by what they were compacted from: it never
\* erases messages the process has not seen.  The code does not keep this one (a window that
\* returns to a conversation goes on with its old copy), and no run checks it.
NothingErased == erased = {}

-----------------------------------------------------------------------------
(* The inductive invariant of SessionLockProofs *)

\* a lock row belongs to a stored session and a process that was started
LocksReal ==
  \A s \in Session : owner[s] # Nobody => row[s] = "saved" /\ pc[owner[s]] # "new"

\* what a process believes to hold is the session it is on
LockedIsCurrent ==
  \A p \in Proc :
    /\ locked[p] \in {Nobody, current[p]}
    /\ pc[p] = "new" => current[p] = Nobody
    /\ p \in Cli /\ p \in Started => locked[p] \in Session
    /\ p \in InTurn => current[p] \in Session

\* while no process stalls, a process that believes to hold a session does
HoldersHold ==
  stalls \/ \A p \in Started : locked[p] # Nobody =>
              owner[locked[p]] = p /\ age[locked[p]] <= TTL

TurnsHold == stalls \/ \A p \in InTurn : locked[p] = current[p]

IndInv ==
  TypeOK /\ LocksReal /\ LockedIsCurrent /\ HoldersHold /\ TurnsHold /\ WriteOwned
=============================================================================
