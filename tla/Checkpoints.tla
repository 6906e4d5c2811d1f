----------------------------- MODULE Checkpoints -----------------------------
(***************************************************************************)
(* The file-mutation journal behind /undo: CheckpointStore of              *)
(* ironclad/session_store/checkpoints.py, as NativeSession                 *)
(* (ironclad/native.py) and the file tools (tool_runtime/files.py) use it. *)
(*                                                                         *)
(* Several processes share one SQLite file.  Each runs recover() when it   *)
(* starts, then alternates user turns (pre-image journaled before the      *)
(* first mutation of a file, post-image digests stored when the turn ends) *)
(* with undos of its session's last closed turn.  Every transaction, every *)
(* replacement of one file and every failure of one is a step of its own,  *)
(* so a process may crash, or another one may run, between any two.        *)
(*                                                                         *)
(* A file's content stands for its sha256 digest; its mode bits and the    *)
(* directories a turn created are left out.  The identity of a row's owner *)
(* (host, pid, start time, nonce) is the process, or Gone once that        *)
(* process has died.                                                       *)
(***************************************************************************)
EXTENDS Naturals, FiniteSets

CONSTANTS
  Proc,        \* processes that open the session database
  Session,     \* conversations
  File,        \* files of the project root
  Content,     \* contents a file can have
  Absent,      \* digest of a file that does not exist
  Unreadable,  \* digest of a path that is now a link (not a regular file)
  None,        \* no value (SQL NULL, Python None)
  Gone,        \* owner of a row whose process is dead
  MaxTurn, MaxUndo,            \* bounds: rows ever inserted
  MaxWrite, MaxCrash, MaxFail, MaxDbFail, MaxBlock, MaxDelete,  \* bounds: changes,
               \* crashes, OSErrors, database errors, link swaps, deleted sessions
  EditsInPass  \* may a program outside change a file in the middle of a tool
               \* write, an undo or a recovery?  The code cannot exclude it.

Value == Content \cup {Absent}
TurnId == 1..MaxTurn
UndoId == 1..MaxUndo

ASSUME ConstAssumption ==
  /\ MaxTurn \in Nat /\ MaxUndo \in Nat
  /\ MaxWrite \in Nat /\ MaxCrash \in Nat /\ MaxFail \in Nat /\ MaxBlock \in Nat
  /\ MaxDbFail \in Nat /\ MaxDelete \in Nat
  /\ Absent \notin Content
  /\ Unreadable \notin Value
  /\ None \notin Value \cup {Unreadable} \cup File \cup Session
  /\ Gone \notin Proc
  /\ EditsInPass \in BOOLEAN

VARIABLES
  fs,         \* content of every file
  blocked,    \* paths that are links now: locate() refuses them
  nTurns, turnState, turnSession, turnOwner, ranCommand, pre, post, \* ckpt_turns, ckpt_files
  nUndos, undoState, undoTurn, backup,                  \* ckpt_undo, ckpt_undo_files
  pc,         \* where each process is
  session,    \* the session it runs (and holds the lock of)
  pending,    \* _pending: a turn was declared
  turn,       \* _turn: row of the open turn, 0 for None
  inflight,   \* file a tool thread journaled and is about to replace
  todo, undo, target, left, forward, \* locals of recover() and undo_last()
  origin,     \* history: content of a file when the turn first set out to change it
  writes, crashes, fails, dbFails, blocks, deletes  \* counters for the bounds

fileVars   == <<fs, blocked>>
turnRows   == <<nTurns, turnState, turnSession, turnOwner, ranCommand, pre, post>>
undoRows   == <<nUndos, undoState, undoTurn, backup>>
memory     == <<session, pending, turn, inflight>>
locals     == <<todo, undo, target, left, forward>>
counters   == <<writes, crashes, fails, dbFails, blocks, deletes>>
vars == <<fileVars, turnRows, undoRows, pc, memory, locals, origin, counters>>

Phase == {"off", "close", "pick", "redo", "idle", "preflighted", "restore", "rollback"}

TypeOK ==
  /\ fs \in [File -> Value]
  /\ blocked \subseteq File
  /\ nTurns \in 0..MaxTurn
  /\ turnState \in [TurnId -> {"none", "open", "closed", "undone", "deleted"}]
  /\ turnSession \in [TurnId -> Session \cup {None}]
  /\ turnOwner \in [TurnId -> Proc \cup {Gone}]
  /\ ranCommand \in [TurnId -> BOOLEAN]
  /\ pre \in [TurnId -> [File -> Value \cup {None}]]
  /\ post \in [TurnId -> [File -> Value \cup {Unreadable, None}]]
  /\ nUndos \in 0..MaxUndo
  /\ undoState \in [UndoId -> {"none", "restoring", "done", "rolled_back", "deleted"}]
  /\ undoTurn \in [UndoId -> TurnId \cup {0}]
  /\ backup \in [UndoId -> [File -> Value \cup {None}]]
  /\ pc \in [Proc -> Phase]
  /\ session \in [Proc -> Session \cup {None}]
  /\ pending \in [Proc -> BOOLEAN]
  /\ turn \in [Proc -> TurnId \cup {0}]
  /\ inflight \in [Proc -> File \cup {None}]
  /\ todo \in [Proc -> SUBSET (TurnId \cup UndoId)]
  /\ undo \in [Proc -> UndoId \cup {0}]
  /\ target \in [Proc -> TurnId \cup {0}]
  /\ left \in [Proc -> SUBSET File]
  /\ forward \in [Proc -> BOOLEAN]
  /\ origin \in [TurnId -> [File -> Value \cup {None}]]
  /\ writes \in 0..MaxWrite /\ crashes \in 0..MaxCrash
  /\ fails \in 0..MaxFail /\ blocks \in 0..MaxBlock
  /\ dbFails \in 0..MaxDbFail /\ deletes \in 0..MaxDelete

Init ==
  /\ fs \in [File -> Value]
  /\ blocked = {}
  /\ nTurns = 0
  /\ turnState = [t \in TurnId |-> "none"]
  /\ turnSession = [t \in TurnId |-> None]
  /\ turnOwner = [t \in TurnId |-> Gone]
  /\ ranCommand = [t \in TurnId |-> FALSE]
  /\ pre = [t \in TurnId |-> [f \in File |-> None]]
  /\ post = [t \in TurnId |-> [f \in File |-> None]]
  /\ nUndos = 0
  /\ undoState = [u \in UndoId |-> "none"]
  /\ undoTurn = [u \in UndoId |-> 0]
  /\ backup = [u \in UndoId |-> [f \in File |-> None]]
  /\ pc = [p \in Proc |-> "off"]
  /\ session = [p \in Proc |-> None]
  /\ pending = [p \in Proc |-> FALSE]
  /\ turn = [p \in Proc |-> 0]
  /\ inflight = [p \in Proc |-> None]
  /\ todo = [p \in Proc |-> {}]
  /\ undo = [p \in Proc |-> 0]
  /\ target = [p \in Proc |-> 0]
  /\ left = [p \in Proc |-> {}]
  /\ forward = [p \in Proc |-> FALSE]
  /\ origin = [t \in TurnId |-> [f \in File |-> None]]
  /\ writes = 0 /\ crashes = 0 /\ fails = 0 /\ dbFails = 0 /\ blocks = 0 /\ deletes = 0

-----------------------------------------------------------------------------
(* Reading the disk and the rows *)

\* digest_path
Digest(f) == IF f \in blocked THEN Unreadable ELSE fs[f]

Journaled(t) == {f \in File : pre[t][f] # None}
Differing(t) == {f \in Journaled(t) : pre[t][f] # post[t][f]}

\* _classify: the pre-image is tested first
Class(t, f) == IF Digest(f) = pre[t][f] THEN "pre"
               ELSE IF Digest(f) = post[t][f] THEN "post" ELSE "other"

\* mutant: the preflight does not compare the content
Conflicts_NoDigest(t) == {f \in Journaled(t) : f \in blocked}

\* _preflight: every journaled path must be safe and hold the post-image
Conflicts(t) == {f \in Journaled(t) : f \in blocked \/ Digest(f) # post[t][f]}

RestoringUndos == {u \in UndoId : undoState[u] = "restoring"}
\* mutant: the owner of an open turn is not asked
Abandoned_AnyOwner == {t \in TurnId : turnState[t] = "open"}

Abandoned == {t \in TurnId : turnState[t] = "open" /\ turnOwner[t] = Gone}
Undoable(s) == {t \in TurnId : turnSession[t] = s /\ turnState[t] = "closed"}

\* mutant: ascending order
IsLatest_Oldest(t, s) == t \in Undoable(s) /\ \A x \in Undoable(s) : x >= t

\* latest_undoable
IsLatest(t, s) == t \in Undoable(s) /\ \A x \in Undoable(s) : x <= t

\* _close_turn: digests of the journaled paths and the state, in one transaction
CloseTurn(t) ==
  /\ post' = [post EXCEPT ![t] = [f \in File |-> IF f \in Journaled(t) THEN Digest(f) ELSE post[t][f]]]
  /\ turnState' = [turnState EXCEPT ![t] = IF turnState[t] = "open" THEN "closed" ELSE turnState[t]]
  /\ UNCHANGED <<nTurns, turnSession, turnOwner, ranCommand, pre>>

\* the locals of undo_last() and of one _recover_undo() go when it returns
Return(p, phase) ==
  /\ pc' = [pc EXCEPT ![p] = phase]
  /\ undo' = [undo EXCEPT ![p] = 0]
  /\ target' = [target EXCEPT ![p] = 0]
  /\ left' = [left EXCEPT ![p] = {}]
  /\ forward' = [forward EXCEPT ![p] = FALSE]

-----------------------------------------------------------------------------
(* A turn *)

\* begin_turn: the row is created lazily, by _ensure_turn
BeginTurn(p) ==
  /\ pc[p] = "idle" /\ ~pending[p]
  /\ pending' = [pending EXCEPT ![p] = TRUE]
  /\ UNCHANGED <<fileVars, turnRows, undoRows, pc, session, turn, inflight, locals, origin, counters>>

\* _ensure_turn: its transaction commits before the journal entry or the
\* command note that asked for it, which may still fail
EnsureTurn(p) ==
  /\ pc[p] = "idle" /\ pending[p] /\ turn[p] = 0
  /\ nTurns < MaxTurn
  /\ nTurns' = nTurns + 1
  /\ turnState' = [turnState EXCEPT ![nTurns + 1] = "open"]
  /\ turnSession' = [turnSession EXCEPT ![nTurns + 1] = session[p]]
  /\ turnOwner' = [turnOwner EXCEPT ![nTurns + 1] = p]
  /\ turn' = [turn EXCEPT ![p] = nTurns + 1]
  /\ UNCHANGED <<fileVars, ranCommand, pre, post, undoRows, pc, session, pending, inflight,
                 locals, origin, counters>>

NoteOrigin(t, f) == origin' = [origin EXCEPT ![t][f] = IF @ = None THEN fs[f] ELSE @]

\* record_pre_image, with the mutation lock taken by the tool: only the first
\* pre-image of a path in a turn is kept; a link is refused
Journal(p, f) ==
  /\ pc[p] = "idle" /\ pending[p] /\ turn[p] # 0
  /\ inflight[p] = None
  /\ f \notin blocked
  /\ pre' = [pre EXCEPT ![turn[p]][f] = IF @ = None THEN fs[f] ELSE @]
  /\ NoteOrigin(turn[p], f)
  /\ inflight' = [inflight EXCEPT ![p] = f]
  /\ UNCHANGED <<fileVars, nTurns, turnState, turnSession, turnOwner, ranCommand, post, undoRows, pc,
                 session, pending, turn, locals, counters>>

\* atomic_replace by the tool.  The turn may have ended meanwhile: a cancelled
\* run abandons a job that does not stop within its grace period.
Mutate(p, c) ==
  /\ inflight[p] # None
  /\ writes < MaxWrite
  /\ fs' = [fs EXCEPT ![inflight[p]] = c]
  /\ writes' = writes + 1
  /\ inflight' = [inflight EXCEPT ![p] = None]
  /\ UNCHANGED <<blocked, turnRows, undoRows, pc, session, pending, turn, locals, origin,
                 crashes, fails, blocks, dbFails, deletes>>

\* the tool's write raises after the journal entry was stored
MutateFails(p) ==
  /\ inflight[p] # None
  /\ fails < MaxFail
  /\ fails' = fails + 1
  /\ inflight' = [inflight EXCEPT ![p] = None]
  /\ UNCHANGED <<fileVars, turnRows, undoRows, pc, session, pending, turn, locals, origin,
                 writes, crashes, blocks, dbFails, deletes>>

\* note_command, then the command's own effect on a file, which is not journaled
RunCommand(p, f, v) ==
  /\ pc[p] = "idle" /\ pending[p] /\ turn[p] # 0
  /\ writes < MaxWrite
  /\ ranCommand' = [ranCommand EXCEPT ![turn[p]] = TRUE]
  /\ fs' = [fs EXCEPT ![f] = v]
  /\ writes' = writes + 1
  /\ NoteOrigin(turn[p], f)
  /\ UNCHANGED <<blocked, nTurns, turnState, turnSession, turnOwner, pre, post, undoRows, pc,
                 memory, locals, crashes, fails, blocks, dbFails, deletes>>

\* end_turn: the in-memory turn is dropped first, then the row is closed
EndTurn(p) ==
  /\ pc[p] = "idle" /\ pending[p]
  /\ pending' = [pending EXCEPT ![p] = FALSE]
  /\ turn' = [turn EXCEPT ![p] = 0]
  /\ IF turn[p] = 0 THEN UNCHANGED turnRows ELSE CloseTurn(turn[p])
  /\ UNCHANGED <<fileVars, undoRows, pc, session, inflight, locals, origin, counters>>

\* end_turn when _close_turn raises: nobody in this process knows the row any more
EndTurnFails(p) ==
  /\ pc[p] = "idle" /\ pending[p] /\ turn[p] # 0
  /\ dbFails < MaxDbFail
  /\ dbFails' = dbFails + 1
  /\ pending' = [pending EXCEPT ![p] = FALSE]
  /\ turn' = [turn EXCEPT ![p] = 0]
  /\ UNCHANGED <<fileVars, turnRows, undoRows, pc, session, inflight, locals, origin,
                 writes, crashes, fails, blocks, deletes>>

-----------------------------------------------------------------------------
(* undo_last.  It holds the process's mutation lock and store lock throughout, *)
(* which exclude this process's tools and turns and nothing else.              *)

\* the refusals, then the preflight
UndoPreflight(p) ==
  /\ pc[p] = "idle" /\ turn[p] = 0 /\ inflight[p] = None
  /\ nUndos < MaxUndo
  /\ RestoringUndos = {}
  /\ \E t \in TurnId :
       /\ IsLatest(t, session[p])
       /\ Conflicts(t) = {}
       /\ target' = [target EXCEPT ![p] = t]
  /\ pc' = [pc EXCEPT ![p] = "preflighted"]
  /\ UNCHANGED <<fileVars, turnRows, undoRows, memory, todo, undo, left, forward, origin, counters>>

\* _restore's first transaction: the undo row and the current content of every path
UndoBegin(p) ==
  /\ pc[p] = "preflighted" /\ nUndos < MaxUndo
  /\ nUndos' = nUndos + 1
  /\ undoState' = [undoState EXCEPT ![nUndos + 1] = "restoring"]
  /\ undoTurn' = [undoTurn EXCEPT ![nUndos + 1] = target[p]]
  /\ backup' = [backup EXCEPT ![nUndos + 1] =
                  [f \in File |-> IF f \in Journaled(target[p]) THEN fs[f] ELSE None]]
  /\ undo' = [undo EXCEPT ![p] = nUndos + 1]
  /\ left' = [left EXCEPT ![p] = Differing(target[p])]
  /\ pc' = [pc EXCEPT ![p] = "restore"]
  /\ UNCHANGED <<fileVars, turnRows, memory, todo, target, forward, origin, counters>>

\* _restore_pre of one file
UndoFile(p) ==
  /\ pc[p] = "restore"
  /\ \E f \in left[p] :
       /\ fs' = [fs EXCEPT ![f] = pre[target[p]][f]]
       /\ left' = [left EXCEPT ![p] = @ \ {f}]
  /\ UNCHANGED <<blocked, turnRows, undoRows, pc, memory, todo, undo, target, forward, origin, counters>>

\* the done / undone transaction
UndoCommit(p) ==
  /\ pc[p] = "restore" /\ left[p] = {}
  /\ undoState' = [undoState EXCEPT ![undo[p]] = "done"]
  /\ turnState' = [turnState EXCEPT ![target[p]] = IF @ = "deleted" THEN @ ELSE "undone"]
  /\ Return(p, "idle")
  /\ UNCHANGED <<fileVars, nTurns, turnSession, turnOwner, ranCommand, pre, post, nUndos, undoTurn,
                 backup, memory, todo, origin, counters>>

\* mutant: only the files not restored yet are rolled back
UndoFileFails_Rest(p) ==
  /\ pc[p] = "restore" /\ left[p] # {}
  /\ fails < MaxFail
  /\ fails' = fails + 1
  /\ left' = left
  /\ pc' = [pc EXCEPT ![p] = "rollback"]
  /\ UNCHANGED <<fileVars, turnRows, undoRows, memory, todo, undo, target, forward, origin,
                 writes, crashes, blocks, dbFails, deletes>>

\* an OSError while restoring: go over all files again, backwards
UndoFileFails(p) ==
  /\ pc[p] = "restore" /\ left[p] # {}
  /\ fails < MaxFail
  /\ fails' = fails + 1
  /\ left' = [left EXCEPT ![p] = Differing(target[p])]
  /\ pc' = [pc EXCEPT ![p] = "rollback"]
  /\ UNCHANGED <<fileVars, turnRows, undoRows, memory, todo, undo, target, forward, origin,
                 writes, crashes, blocks, dbFails, deletes>>

\* a file that holds its pre-image gets its backup again
RollbackFile(p) ==
  /\ pc[p] = "rollback"
  /\ \E f \in left[p] :
       /\ fs' = IF Digest(f) = pre[target[p]][f] THEN [fs EXCEPT ![f] = backup[undo[p]][f]] ELSE fs
       /\ left' = [left EXCEPT ![p] = @ \ {f}]
  /\ UNCHANGED <<blocked, turnRows, undoRows, pc, memory, todo, undo, target, forward, origin, counters>>

RollbackCommit(p) ==
  /\ pc[p] = "rollback" /\ left[p] = {}
  /\ undoState' = [undoState EXCEPT ![undo[p]] = "rolled_back"]
  /\ Return(p, "idle")
  /\ UNCHANGED <<fileVars, turnRows, nUndos, undoTurn, backup, memory, todo, origin, counters>>

\* an exception in the backup transaction or in the rollback leaves undo_last;
\* in the second case the row stays 'restoring' in a live process
UndoRaises(p) ==
  /\ pc[p] \in {"preflighted", "rollback"}
  /\ fails < MaxFail
  /\ fails' = fails + 1
  /\ Return(p, "idle")
  /\ UNCHANGED <<fileVars, turnRows, undoRows, memory, todo, origin, writes, crashes, blocks, dbFails, deletes>>


-----------------------------------------------------------------------------
(* recover(), which NativeSession's constructor runs before it takes the       *)
(* session lock: an exception in it ends the process.                          *)

\* the constructor's first statement that matters: SELECT the open turns and keep
\* those whose owner is gone (_owner_alive)
Start(p) ==
  /\ pc[p] = "off"
  /\ todo' = [todo EXCEPT ![p] = Abandoned]
  /\ pc' = [pc EXCEPT ![p] = "close"]
  /\ UNCHANGED <<fileVars, turnRows, undoRows, memory, undo, target, left, forward, origin, counters>>

RecoverClose(p) ==
  /\ pc[p] = "close"
  /\ \E t \in todo[p] :
       /\ CloseTurn(t)
       /\ todo' = [todo EXCEPT ![p] = @ \ {t}]
  /\ UNCHANGED <<fileVars, undoRows, pc, memory, undo, target, left, forward, origin, counters>>

\* mutant: only undos of turns this process owns
RecoverList_Own(p) ==
  /\ pc[p] = "close" /\ todo[p] = {}
  /\ todo' = [todo EXCEPT ![p] = {u \in RestoringUndos : turnOwner[undoTurn[u]] = p}]
  /\ pc' = [pc EXCEPT ![p] = "pick"]
  /\ UNCHANGED <<fileVars, turnRows, undoRows, memory, undo, target, left, forward, origin, counters>>

\* SELECT the interrupted undos: whose they are is not asked
RecoverList(p) ==
  /\ pc[p] = "close" /\ todo[p] = {}
  /\ todo' = [todo EXCEPT ![p] = RestoringUndos]
  /\ pc' = [pc EXCEPT ![p] = "pick"]
  /\ UNCHANGED <<fileVars, turnRows, undoRows, memory, undo, target, left, forward, origin, counters>>

\* the rows of this undo, or of its turn, were deleted meanwhile: fetchone() is None
PickDeleted(p, u) ==
  /\ undoState[u] = "deleted"
  /\ pc' = [pc EXCEPT ![p] = "off"]
  /\ todo' = [todo EXCEPT ![p] = {}]
  /\ UNCHANGED <<undo, target, left, forward>>

\* mutant: any unsafe path of the project stops the recovery
PickPending_AnyPath(p, u) ==
  /\ undoState[u] # "deleted"
  /\ blocked # {}
  /\ todo' = [todo EXCEPT ![p] = @ \ {u}]
  /\ UNCHANGED <<pc, undo, target, left, forward>>

\* an unsafe path: write nothing, keep the undo pending
PickPending(p, u) ==
  /\ undoState[u] # "deleted"
  /\ Journaled(undoTurn[u]) \cap blocked # {}
  /\ todo' = [todo EXCEPT ![p] = @ \ {u}]
  /\ UNCHANGED <<pc, undo, target, left, forward>>

\* mutant: one known file is enough
RollsForward_Some(t) == \E f \in Journaled(t) : Class(t, f) # "other"

RollsForward(t) == \A f \in Journaled(t) : Class(t, f) # "other"

\* classify every file, decide the direction and the files to write
PickResolve(p, u) ==
  LET t == undoTurn[u] IN
  /\ undoState[u] # "deleted"
  /\ Journaled(t) \cap blocked = {}
  /\ forward' = [forward EXCEPT ![p] = RollsForward(t)]
  /\ left' = [left EXCEPT ![p] =
                IF RollsForward(t) THEN {f \in Journaled(t) : Class(t, f) = "post"}
                ELSE {f \in Differing(t) : Class(t, f) = "pre"}]
  /\ undo' = [undo EXCEPT ![p] = u]
  /\ target' = [target EXCEPT ![p] = t]
  /\ todo' = [todo EXCEPT ![p] = @ \ {u}]
  /\ pc' = [pc EXCEPT ![p] = "redo"]

RecoverPick(p) ==
  /\ pc[p] = "pick"
  /\ \E u \in todo[p] \cap UndoId : PickDeleted(p, u) \/ PickPending(p, u) \/ PickResolve(p, u)
  /\ UNCHANGED <<fileVars, turnRows, undoRows, memory, origin, counters>>

\* _restore_pre or _restore_backup of one file; a deleted backup row is skipped
RecoverFile(p) ==
  /\ pc[p] = "redo"
  /\ \E f \in left[p] :
       /\ fs' = IF forward[p] THEN [fs EXCEPT ![f] = pre[target[p]][f]]
                ELSE IF undoState[undo[p]] = "deleted" THEN fs
                ELSE [fs EXCEPT ![f] = backup[undo[p]][f]]
       /\ left' = [left EXCEPT ![p] = @ \ {f}]
  /\ UNCHANGED <<blocked, turnRows, undoRows, pc, memory, todo, undo, target, forward, origin, counters>>

\* the final transaction; updates of deleted rows match nothing
RecoverCommit(p) ==
  /\ pc[p] = "redo" /\ left[p] = {}
  /\ undoState' = [undoState EXCEPT ![undo[p]] =
                     IF @ = "deleted" THEN @ ELSE IF forward[p] THEN "done" ELSE "rolled_back"]
  /\ turnState' = [turnState EXCEPT ![target[p]] =
                     IF forward[p] /\ @ # "deleted" THEN "undone" ELSE @]
  /\ Return(p, "pick")
  /\ UNCHANGED <<fileVars, nTurns, turnSession, turnOwner, ranCommand, pre, post, nUndos, undoTurn,
                 backup, memory, todo, origin, counters>>

\* recovery is over; the session is admitted if nobody holds its lock
RecoverDone(p) ==
  /\ pc[p] = "pick" /\ todo[p] = {}
  /\ \E s \in Session :
       /\ \A q \in Proc : session[q] # s
       /\ session' = [session EXCEPT ![p] = s]
  /\ pc' = [pc EXCEPT ![p] = "idle"]
  /\ UNCHANGED <<fileVars, turnRows, undoRows, pending, turn, inflight, locals, origin, counters>>

\* the process ends: its memory goes, its open row keeps a dead owner
Dies(p) ==
  /\ Return(p, "off")
  /\ turnOwner' = [t \in TurnId |-> IF turnOwner[t] = p THEN Gone ELSE turnOwner[t]]
  /\ session' = [session EXCEPT ![p] = None]
  /\ pending' = [pending EXCEPT ![p] = FALSE]
  /\ turn' = [turn EXCEPT ![p] = 0]
  /\ inflight' = [inflight EXCEPT ![p] = None]
  /\ todo' = [todo EXCEPT ![p] = {}]
  /\ UNCHANGED <<fileVars, nTurns, turnState, turnSession, ranCommand, pre, post, undoRows, origin, writes, blocks, dbFails, deletes>>

\* an OSError while recovery writes a file: the constructor raises
RecoverFileFails(p) ==
  /\ pc[p] = "redo" /\ left[p] # {}
  /\ fails < MaxFail
  /\ fails' = fails + 1
  /\ Dies(p)
  /\ UNCHANGED crashes

Crash(p) ==
  /\ pc[p] # "off"
  /\ crashes < MaxCrash
  /\ crashes' = crashes + 1
  /\ Dies(p)
  /\ UNCHANGED fails

\* /resume and /new (switch_session): another free session, and no recovery
SwitchSession(p, s) ==
  /\ pc[p] = "idle" /\ ~pending[p]
  /\ \A q \in Proc : session[q] # s
  /\ session' = [session EXCEPT ![p] = s]
  /\ UNCHANGED <<fileVars, turnRows, undoRows, pc, pending, turn, inflight, locals, origin, counters>>

\* aclose
Exit(p) ==
  /\ pc[p] = "idle" /\ ~pending[p] /\ inflight[p] = None
  /\ Dies(p)
  /\ UNCHANGED <<crashes, fails>>

-----------------------------------------------------------------------------
(* The world around the store *)

\* no process is between two steps on the file system
Quiet == \A p \in Proc :
           inflight[p] = None /\ pc[p] \notin {"preflighted", "restore", "rollback", "redo"}

\* an editor, git, the user's shell
Edit(f, v) ==
  /\ EditsInPass \/ Quiet
  /\ writes < MaxWrite
  /\ writes' = writes + 1
  /\ fs' = [fs EXCEPT ![f] = v]
  /\ UNCHANGED <<blocked, turnRows, undoRows, pc, memory, locals, origin, crashes, fails, blocks, dbFails, deletes>>

\* a path becomes a link, or stops being one
SwapLink(f) ==
  /\ \A p \in Proc : inflight[p] = None /\ pc[p] \in {"off", "idle"}
  /\ blocks < MaxBlock
  /\ blocks' = blocks + 1
  /\ blocked' = IF f \in blocked THEN blocked \ {f} ELSE blocked \cup {f}
  /\ UNCHANGED <<fs, turnRows, undoRows, pc, memory, locals, origin, writes, crashes, fails, dbFails, deletes>>

\* delete_session_cascade: one transaction, refused while the session's lock is live
DeleteSession(s) ==
  /\ deletes < MaxDelete
  /\ deletes' = deletes + 1
  /\ \A p \in Proc : session[p] # s
  /\ \E t \in TurnId : turnSession[t] = s /\ turnState[t] # "deleted"
  /\ turnState' = [t \in TurnId |-> IF turnSession[t] = s THEN "deleted" ELSE turnState[t]]
  /\ undoState' = [u \in UndoId |-> IF undoTurn[u] # 0 /\ turnSession[undoTurn[u]] = s
                                    THEN "deleted" ELSE undoState[u]]
  /\ UNCHANGED <<fileVars, nTurns, turnSession, turnOwner, ranCommand, pre, post, nUndos, undoTurn,
                 backup, pc, memory, locals, origin, writes, crashes, fails, dbFails, blocks>>

-----------------------------------------------------------------------------
TurnStep(p) ==
  \/ BeginTurn(p) \/ EnsureTurn(p) \/ EndTurn(p) \/ EndTurnFails(p)
  \/ \E f \in File : Journal(p, f)
  \/ \E c \in Content : Mutate(p, c)
  \/ MutateFails(p)
  \/ \E f \in File, v \in Value : RunCommand(p, f, v)

\* the steps recovery and undo take by themselves once begun
RecoveryStep(p) ==
  RecoverClose(p) \/ RecoverList(p) \/ RecoverPick(p) \/ RecoverFile(p)
  \/ RecoverCommit(p) \/ RecoverDone(p)
UndoStep(p) ==
  UndoBegin(p) \/ UndoFile(p) \/ UndoCommit(p) \/ RollbackFile(p) \/ RollbackCommit(p)

FailStep(p) == UndoFileFails(p) \/ UndoRaises(p) \/ RecoverFileFails(p) \/ Crash(p)

World ==
  \/ \E f \in File, v \in Value : Edit(f, v)
  \/ \E f \in File : SwapLink(f)
  \/ \E s \in Session : DeleteSession(s)

Next ==
  \/ \E p \in Proc : \/ Start(p) \/ RecoveryStep(p) \/ TurnStep(p)
                     \/ UndoPreflight(p) \/ UndoStep(p) \/ FailStep(p) \/ Exit(p)
                     \/ \E s \in Session : SwitchSession(p, s)
  \/ World

Spec == Init /\ [][Next]_vars

\* a program that is started runs on: its recovery and its undos take their next
\* step, and somebody starts it again after it died
Fairness == \A p \in Proc : WF_vars(Start(p)) /\ WF_vars(RecoveryStep(p)) /\ WF_vars(UndoStep(p))
FairSpec == Spec /\ Fairness

-----------------------------------------------------------------------------
(* Properties *)

\* Recovery by one process never closes, undoes or deletes the turn another live
\* process is journaling into: while _turn names a row, the row is open, is that
\* process's own and belongs to the session it runs (recover, _owner_alive).
LiveTurnOpen ==
  \A p \in Proc : turn[p] # 0 =>
    /\ turnState[turn[p]] = "open"
    /\ turnOwner[turn[p]] = p
    /\ turnSession[turn[p]] = session[p]

\* A turn leaves the open state only with a post-image for every path journaled
\* in it, and no path is journaled into it afterwards, so _preflight never meets
\* the "post-image was never recorded" conflict (_close_turn, record_pre_image).
ClosedHasPost ==
  \A t \in TurnId : turnState[t] \in {"closed", "undone"} =>
    \A f \in Journaled(t) : post[t][f] # None

Becomes(state, x, v) == state[x] # v /\ state'[x] = v

\* When a turn becomes undone, by /undo or by the recovery of an interrupted undo,
\* every file the turn changed holds what it held when the turn first set out to
\* change it; for a turn that ran commands, every journaled file its pre-image.
UndoneMeansOriginal ==
  [][\A t \in TurnId : Becomes(turnState, t, "undone") =>
       \A f \in File :
         IF ranCommand[t] THEN f \in Journaled(t) => fs'[f] = pre[t][f]
         ELSE origin[t][f] # None => fs'[f] = origin[t][f]]_vars

\* When an undo is rolled back, by itself or by a later start, no file the turn
\* changed stays restored, and the turn can be undone again ("restores nothing").
RolledBackMeansNothing ==
  [][\A u \in UndoId : Becomes(undoState, u, "rolled_back") =>
       /\ turnState'[undoTurn[u]] = "closed"
       /\ \A f \in Differing(undoTurn[u]) : fs'[f] # pre[undoTurn[u]][f]]_vars

\* An undo, however it is cut short and resumed, undoes its turn as a whole or not at all.
UndoAllOrNothing == UndoneMeansOriginal /\ RolledBackMeansNothing

\* Undo and recovery overwrite a file only while it holds a content the turn
\* recorded: whatever else was put there since, by an editor, a command or a later
\* turn, even between a crash and the next start, survives (_preflight, _classify).
NoEditOverwritten ==
  [][\A f \in File : fs'[f] # fs[f] /\ writes' = writes =>
       \E p \in Proc : target[p] # 0 /\ fs[f] \in {pre[target[p]][f], post[target[p]][f]}]_vars

\* An undo that was reported done or rolled back is not resolved again by a
\* recovery: only interrupted undos are (recover).
FinishedUndoStands ==
  [][\A u \in UndoId : undoState[u] \in {"done", "rolled_back"} =>
       undoState'[u] \in {undoState[u], "deleted"}]_vars

\* Once a start is over and no other process runs, nothing is left half done: no
\* turn of a dead process is open and no undo is interrupted, except one that has
\* an unsafe path, which recovery leaves pending on purpose (recover).
RecoveryComplete ==
  [][\A p \in Proc :
       pc[p] = "pick" /\ pc'[p] = "idle" /\ (\A q \in Proc \ {p} : pc[q] = "off") =>
         /\ Abandoned = {}
         /\ \A u \in RestoringUndos : Journaled(undoTurn[u]) \cap blocked # {}]_vars

\* A start settles what was interrupted, and only that.
RecoverySettles == RecoveryComplete /\ FinishedUndoStands

\* "Undo the latest journaled turn of session_id" (undo_last): when a turn becomes
\* undone, no later turn of its session still has its changes in place.
UndoIsLatest ==
  [][\A t \in TurnId : Becomes(turnState, t, "undone") =>
       \A x \in TurnId : x > t /\ turnSession[x] = turnSession[t] =>
         turnState[x] \in {"undone", "deleted"} \/ Journaled(x) = {}]_vars

\* An undo a crash interrupted is resolved once the program is started again,
\* unless a path of it is unsafe (fairness: started programs run on).
InterruptedUndoResolved ==
  \A u \in UndoId :
    (undoState[u] = "restoring" /\ blocked = {} /\ \A p \in Proc : pc[p] = "off")
      ~> (undoState[u] # "restoring" \/ blocked # {})

-----------------------------------------------------------------------------
(* The inductive invariant of CheckpointsProofs *)

Settled == {"closed", "undone", "deleted"}
Working == {"restore", "rollback", "redo"}

\* row ids grow: a row is absent exactly above the counter
RowsInOrder ==
  /\ \A t \in TurnId : turnState[t] = "none" <=> t > nTurns
  /\ \A u \in UndoId : undoState[u] = "none" <=> u > nUndos

\* an absent row names nothing
AbsentRowsEmpty ==
  /\ \A t \in TurnId : turnState[t] = "none" => turnSession[t] = None
  /\ \A u \in UndoId : undoState[u] = "none" => undoTurn[u] = 0

\* only an idle process that runs a turn has a row for it
TurnWhileIdle == \A p \in Proc : turn[p] # 0 => pc[p] = "idle" /\ pending[p]

\* what recovery noted in its two SELECTs stays what it was
TodoStands ==
  \A p \in Proc :
    /\ pc[p] = "close" =>
         \A t \in todo[p] : t \in TurnId /\ turnOwner[t] = Gone /\ turnState[t] # "none"
    /\ pc[p] \in {"pick", "redo"} =>
         \A u \in todo[p] : u \in UndoId /\ undoState[u] # "none"

\* an undo row names a turn that is over, and has a backup of every path of it
UndoRowsComplete ==
  \A u \in UndoId : undoState[u] # "none" =>
    /\ undoTurn[u] \in TurnId
    /\ turnState[undoTurn[u]] \in Settled
    /\ \A f \in Journaled(undoTurn[u]) : backup[u][f] # None

\* a pass over files has its undo row, and only files of its turn ahead
PassHasRow ==
  \A p \in Proc :
    /\ pc[p] \in Working \cup {"preflighted"} =>
         target[p] \in TurnId /\ turnState[target[p]] \in Settled
    /\ pc[p] \in Working =>
         /\ undo[p] \in UndoId /\ undoState[undo[p]] # "none"
         /\ undoTurn[undo[p]] = target[p]
         /\ left[p] \subseteq Journaled(target[p])

\* The facts that together are kept by every step (checked by TLC, proved by TLAPS).
IndInv ==
  /\ TypeOK /\ RowsInOrder /\ AbsentRowsEmpty /\ TurnWhileIdle /\ TodoStands
  /\ UndoRowsComplete /\ PassHasRow /\ LiveTurnOpen /\ ClosedHasPost

\* What holds beside it while one process runs the program and nothing outside changes a file
\* in the middle of a pass over files.
Solo == (\A p, q \in Proc : p = q) /\ ~EditsInPass

\* a turn without commands has a pre-image of all it set out to change
OriginIsPre == \A t \in TurnId : ~ranCommand[t] => origin[t] = pre[t]

\* the turn of an interrupted undo is closed, and its backups are the turn's post-images
BackupIsPost ==
  \A u \in RestoringUndos :
    /\ turnState[undoTurn[u]] = "closed"
    /\ \A f \in Journaled(undoTurn[u]) : backup[u][f] = post[undoTurn[u]][f]

\* no undo begins while another is interrupted
OneInterrupted == \A u, v \in RestoringUndos : u = v

\* recovery has ahead of it exactly what is left to settle
TodoComplete(p) ==
  /\ pc[p] = "close" =>
       Abandoned \subseteq todo[p] /\ \A t \in todo[p] : turnState[t] \in {"open", "deleted"}
  /\ pc[p] \in {"pick", "redo"} =>
       /\ Abandoned = {}
       /\ \A u \in todo[p] : undoState[u] \in {"restoring", "deleted"}
       /\ \A u \in RestoringUndos \ todo[p] :
            u = undo[p] \/ Journaled(undoTurn[u]) \cap blocked # {}
  /\ pc[p] = "redo" => undo[p] \notin todo[p]

\* an undo has its session to itself and its row is the interrupted one; a tool writes in an
\* idle process only
PassAlone(p) ==
  /\ pc[p] # "idle" => inflight[p] = None
  /\ pc[p] \notin Working => undo[p] = 0
  /\ pc[p] = "preflighted" => RestoringUndos = {}
  /\ pc[p] \in {"preflighted", "restore", "rollback"} =>
       turnSession[target[p]] = session[p] /\ turnState[target[p]] = "closed"
  /\ pc[p] \in {"restore", "rollback"} => undoState[undo[p]] = "restoring"
  /\ pc[p] = "redo" =>
       \/ undoState[undo[p]] = "restoring"
       \/ undoState[undo[p]] = "deleted" /\ turnState[target[p]] = "deleted"

\* the files of a pass hold what it made of them so far, or has yet to change
PassFiles(p) ==
  LET t == target[p] IN
  /\ pc[p] \in Working \cup {"preflighted"} => Journaled(t) \cap blocked = {}
  /\ pc[p] = "preflighted" => \A f \in Journaled(t) : fs[f] = post[t][f]
  /\ pc[p] = "restore" \/ (pc[p] = "redo" /\ forward[p]) =>
       \A f \in Journaled(t) : fs[f] = IF f \in left[p] THEN post[t][f] ELSE pre[t][f]
  /\ pc[p] = "rollback" =>
       left[p] \subseteq Differing(t) /\ \A f \in Differing(t) \ left[p] : fs[f] # pre[t][f]
  /\ pc[p] = "redo" /\ ~forward[p] =>
       /\ left[p] \subseteq Differing(t)
       /\ \A f \in left[p] : fs[f] = pre[t][f]
       /\ undoState[undo[p]] = "restoring" =>
            \A f \in Differing(t) \ left[p] : fs[f] # pre[t][f]

SoloInv ==
  /\ OriginIsPre /\ BackupIsPost /\ OneInterrupted
  /\ \A p \in Proc : TodoComplete(p) /\ PassAlone(p) /\ PassFiles(p)

\* What holds as well when no write, transaction or path ever fails and no session is deleted.
\* The refinement needs it: a turn or an undo that a failure left open in a process that goes on
\* can be overtaken by later turns.
Calm == MaxFail = 0 /\ MaxDbFail = 0 /\ MaxBlock = 0 /\ MaxDelete = 0

\* t is the latest of its session that is not undone
Newest(t) == \A x \in TurnId : x > t /\ turnSession[x] = turnSession[t] => turnState[x] # "closed"

NothingFailed ==
  /\ blocked = {}
  /\ \A t \in TurnId : turnState[t] # "deleted"
  /\ \A u \in UndoId : undoState[u] # "deleted"

\* turns belong to a session; only one that is over has post-images
TurnsWhole ==
  \A t \in TurnId :
    /\ turnState[t] # "none" => turnSession[t] \in Session
    /\ turnState[t] \in {"none", "open"} => \A f \in File : post[t][f] = None
    /\ turnState[t] = "none" => Journaled(t) = {}

\* an interrupted undo has no open turn beside it, and no later one to undo first
UndoNewest ==
  \A u \in RestoringUndos : Newest(undoTurn[u]) /\ \A t \in TurnId : turnState[t] # "open"

\* an undo in progress is the process's own, and an open turn the one being made unless it waits
\* for recovery
ProcessCalm(p) ==
  /\ pc[p] # "rollback"
  /\ pc[p] \in {"idle", "preflighted", "restore"} => session[p] \in Session
  /\ pc[p] \in {"idle", "preflighted"} => RestoringUndos = {}
  /\ pc[p] = "preflighted" => Newest(target[p])
  /\ \A t \in TurnId : turnState[t] = "open" =>
       turn[p] = t \/ (pc[p] \in {"off", "close"} /\ turnOwner[t] = Gone)

CalmInv == NothingFailed /\ TurnsWhole /\ UndoNewest /\ \A p \in Proc : ProcessCalm(p)
=============================================================================
