--------------------------- MODULE CheckpointsProofs ---------------------------
(***************************************************************************)
(* Proofs about Checkpoints, for every set of processes, sessions, files   *)
(* and contents and every value of the bounds: IndInv holds initially, one *)
(* lemma per action shows that the action keeps it, and the invariants of  *)
(* the runs follow.  For one process, SoloInv is kept as well: an undo is  *)
(* whole, edits survive and starts settle.  For one process of which       *)
(* nothing but its own end fails, CalmInv is kept: undos take the latest   *)
(* turn, and the store implements AtomicUndo.                              *)
(***************************************************************************)
EXTENDS CheckpointsAtomic, TLAPS

USE DEF Value, TurnId, UndoId, Phase, vars, fileVars, turnRows, undoRows, memory, locals, counters

\* What _close_turn writes has the type of its columns, and it writes no other column.
LEMMA CloseTurnTypes ==
  ASSUME TypeOK, ConstAssumption, NEW t \in TurnId, CloseTurn(t)
  PROVE  /\ post' \in [TurnId -> [File -> Value \cup {Unreadable, None}]]
         /\ turnState' \in [TurnId -> {"none", "open", "closed", "undone", "deleted"}]
         /\ UNCHANGED <<nTurns, turnSession, turnOwner, ranCommand, pre>>
  BY DEF TypeOK, CloseTurn, Digest

\* The inductive invariant is kept by begin_turn.
LEMMA BeginTurnKeeps ==
  ASSUME IndInv, NEW p \in Proc, BeginTurn(p)
  PROVE  IndInv'
<1>. USE ConstAssumption DEF ConstAssumption, IndInv, TypeOK, BeginTurn, Journaled, Settled, Working
<1>1. TypeOK'
  OBVIOUS
<1>2. (RowsInOrder /\ AbsentRowsEmpty /\ TurnWhileIdle /\ TodoStands)'
  BY DEF RowsInOrder, AbsentRowsEmpty, TurnWhileIdle, TodoStands
<1>3. (UndoRowsComplete /\ PassHasRow /\ LiveTurnOpen /\ ClosedHasPost)'
  BY DEF UndoRowsComplete, PassHasRow, LiveTurnOpen, ClosedHasPost, TurnWhileIdle
<1>. QED
  BY <1>1, <1>2, <1>3

\* The inductive invariant is kept by _ensure_turn.
LEMMA EnsureTurnKeeps ==
  ASSUME IndInv, NEW p \in Proc, EnsureTurn(p)
  PROVE  IndInv'
<1>. USE ConstAssumption DEF ConstAssumption, IndInv, EnsureTurn, Journaled, Settled, Working
<1>1. TypeOK'
  BY DEF TypeOK
<1>2. RowsInOrder'
  BY DEF TypeOK, RowsInOrder
<1>3. AbsentRowsEmpty'
  BY DEF TypeOK, AbsentRowsEmpty, RowsInOrder
<1>4. TurnWhileIdle'
  BY DEF TypeOK, TurnWhileIdle
<1>5. TodoStands'
  BY DEF TypeOK, TodoStands, RowsInOrder
<1>6. UndoRowsComplete'
  BY DEF TypeOK, UndoRowsComplete, RowsInOrder, LiveTurnOpen, PassHasRow
<1>7. PassHasRow'
  BY DEF TypeOK, PassHasRow, RowsInOrder, LiveTurnOpen, UndoRowsComplete, TodoStands
<1>8. LiveTurnOpen'
  BY DEF TypeOK, LiveTurnOpen, RowsInOrder, TurnWhileIdle, PassHasRow, TodoStands
<1>9. ClosedHasPost'
  BY DEF TypeOK, ClosedHasPost, LiveTurnOpen, PassHasRow
<1>. QED
  BY <1>1, <1>2, <1>4, <1>5, <1>6, <1>7, <1>8, <1>9, <1>3

\* The inductive invariant is kept by record_pre_image.
LEMMA JournalKeeps ==
  ASSUME IndInv, NEW p \in Proc, NEW f \in File, Journal(p, f)
  PROVE  IndInv'
<1>. USE ConstAssumption DEF ConstAssumption, IndInv, Journal, NoteOrigin, Journaled, Settled, Working
<1>1. TypeOK'
  BY DEF TypeOK
<1>2. RowsInOrder'
  BY DEF TypeOK, RowsInOrder
<1>3. AbsentRowsEmpty'
  BY DEF TypeOK, AbsentRowsEmpty, RowsInOrder
<1>4. TurnWhileIdle'
  BY DEF TypeOK, TurnWhileIdle
<1>5. TodoStands'
  BY DEF TypeOK, TodoStands, RowsInOrder
<1>6. UndoRowsComplete'
  BY DEF TypeOK, UndoRowsComplete, RowsInOrder, LiveTurnOpen, PassHasRow
<1>7. PassHasRow'
  BY DEF TypeOK, PassHasRow, RowsInOrder, LiveTurnOpen, UndoRowsComplete, TodoStands
<1>8. LiveTurnOpen'
  BY DEF TypeOK, LiveTurnOpen, RowsInOrder, TurnWhileIdle, PassHasRow, TodoStands
<1>9. ClosedHasPost'
  BY DEF TypeOK, ClosedHasPost, LiveTurnOpen, PassHasRow
<1>. QED
  BY <1>1, <1>2, <1>4, <1>5, <1>6, <1>7, <1>8, <1>9, <1>3

\* The inductive invariant is kept by the replacement of a journaled file.
LEMMA MutateKeeps ==
  ASSUME IndInv, NEW p \in Proc, NEW c \in Content, Mutate(p, c)
  PROVE  IndInv'
<1>. USE ConstAssumption DEF ConstAssumption, IndInv, Mutate, Journaled, Settled, Working
<1>1. TypeOK'
  <2>1. inflight[p] \in File
    BY DEF TypeOK
  <2>2. fs' \in [File -> Value]
    BY <2>1 DEF TypeOK
  <2>. QED
    BY <2>2 DEF TypeOK
<1>2. RowsInOrder'
  BY DEF TypeOK, RowsInOrder
<1>3. AbsentRowsEmpty'
  BY DEF TypeOK, AbsentRowsEmpty, RowsInOrder
<1>4. TurnWhileIdle'
  BY DEF TypeOK, TurnWhileIdle
<1>5. TodoStands'
  BY DEF TypeOK, TodoStands, RowsInOrder
<1>6. UndoRowsComplete'
  BY DEF TypeOK, UndoRowsComplete, RowsInOrder, LiveTurnOpen, PassHasRow
<1>7. PassHasRow'
  BY DEF TypeOK, PassHasRow, RowsInOrder, LiveTurnOpen, UndoRowsComplete, TodoStands
<1>8. LiveTurnOpen'
  BY DEF TypeOK, LiveTurnOpen, RowsInOrder, TurnWhileIdle, PassHasRow, TodoStands
<1>9. ClosedHasPost'
  BY DEF TypeOK, ClosedHasPost, LiveTurnOpen, PassHasRow
<1>. QED
  BY <1>1, <1>2, <1>4, <1>5, <1>6, <1>7, <1>8, <1>9, <1>3

\* The inductive invariant is kept by a replacement that raises.
LEMMA MutateFailsKeeps ==
  ASSUME IndInv, NEW p \in Proc, MutateFails(p)
  PROVE  IndInv'
<1>. USE ConstAssumption DEF ConstAssumption, IndInv, TypeOK, MutateFails, Journaled, Settled, Working
<1>1. TypeOK'
  OBVIOUS
<1>2. (RowsInOrder /\ AbsentRowsEmpty /\ TurnWhileIdle /\ TodoStands)'
  BY DEF RowsInOrder, AbsentRowsEmpty, TurnWhileIdle, TodoStands
<1>3. (UndoRowsComplete /\ PassHasRow /\ LiveTurnOpen /\ ClosedHasPost)'
  BY DEF UndoRowsComplete, PassHasRow, LiveTurnOpen, ClosedHasPost, TurnWhileIdle
<1>. QED
  BY <1>1, <1>2, <1>3

\* The inductive invariant is kept by note_command and a command.
LEMMA RunCommandKeeps ==
  ASSUME IndInv, NEW p \in Proc, NEW f \in File, NEW v \in Value, RunCommand(p, f, v)
  PROVE  IndInv'
<1>. USE ConstAssumption DEF ConstAssumption, IndInv, TypeOK, RunCommand, NoteOrigin, Journaled, Settled, Working
<1>1. TypeOK'
  OBVIOUS
<1>2. (RowsInOrder /\ AbsentRowsEmpty /\ TurnWhileIdle /\ TodoStands)'
  BY DEF RowsInOrder, AbsentRowsEmpty, TurnWhileIdle, TodoStands
<1>3. (UndoRowsComplete /\ PassHasRow /\ LiveTurnOpen /\ ClosedHasPost)'
  BY DEF UndoRowsComplete, PassHasRow, LiveTurnOpen, ClosedHasPost, TurnWhileIdle
<1>. QED
  BY <1>1, <1>2, <1>3

\* The inductive invariant is kept by end_turn.
LEMMA EndTurnKeeps ==
  ASSUME IndInv, NEW p \in Proc, EndTurn(p)
  PROVE  IndInv'
<1>. USE ConstAssumption DEF ConstAssumption, IndInv, EndTurn, CloseTurn, Digest, Journaled, Settled, Working
<1>1. TypeOK'
  <2>1. CASE turn[p] = 0
    BY <2>1 DEF TypeOK
  <2>2. CASE turn[p] # 0
    <3>1. turn[p] \in TurnId /\ CloseTurn(turn[p])
      BY <2>2 DEF TypeOK
    <3>. HIDE DEF CloseTurn
    <3>2. /\ post' \in [TurnId -> [File -> Value \cup {Unreadable, None}]]
          /\ turnState' \in [TurnId -> {"none", "open", "closed", "undone", "deleted"}]
          /\ UNCHANGED <<nTurns, turnSession, turnOwner, ranCommand, pre>>
      BY <3>1, CloseTurnTypes
    <3>. QED
      BY <2>2, <3>2 DEF TypeOK
  <2>. QED
    BY <2>1, <2>2
<1>2. RowsInOrder'
  BY DEF TypeOK, RowsInOrder
<1>3. AbsentRowsEmpty'
  BY DEF TypeOK, AbsentRowsEmpty, RowsInOrder
<1>4. TurnWhileIdle'
  BY DEF TypeOK, TurnWhileIdle
<1>5. TodoStands'
  BY DEF TypeOK, TodoStands, RowsInOrder
<1>6. UndoRowsComplete'
  BY DEF TypeOK, UndoRowsComplete, RowsInOrder, LiveTurnOpen, PassHasRow
<1>7. PassHasRow'
  BY DEF TypeOK, PassHasRow, RowsInOrder, LiveTurnOpen, UndoRowsComplete, TodoStands
<1>8. LiveTurnOpen'
  BY DEF TypeOK, LiveTurnOpen, RowsInOrder, TurnWhileIdle, PassHasRow, TodoStands
<1>9. ClosedHasPost'
  BY DEF TypeOK, ClosedHasPost, LiveTurnOpen, PassHasRow
<1>. QED
  BY <1>1, <1>2, <1>4, <1>5, <1>6, <1>7, <1>8, <1>9, <1>3

\* The inductive invariant is kept by end_turn when the close raises.
LEMMA EndTurnFailsKeeps ==
  ASSUME IndInv, NEW p \in Proc, EndTurnFails(p)
  PROVE  IndInv'
<1>. USE ConstAssumption DEF ConstAssumption, IndInv, TypeOK, EndTurnFails, Journaled, Settled, Working
<1>1. TypeOK'
  OBVIOUS
<1>2. (RowsInOrder /\ AbsentRowsEmpty /\ TurnWhileIdle /\ TodoStands)'
  BY DEF RowsInOrder, AbsentRowsEmpty, TurnWhileIdle, TodoStands
<1>3. (UndoRowsComplete /\ PassHasRow /\ LiveTurnOpen /\ ClosedHasPost)'
  BY DEF UndoRowsComplete, PassHasRow, LiveTurnOpen, ClosedHasPost, TurnWhileIdle
<1>. QED
  BY <1>1, <1>2, <1>3

\* The inductive invariant is kept by the refusals and the preflight of undo_last.
LEMMA UndoPreflightKeeps ==
  ASSUME IndInv, NEW p \in Proc, UndoPreflight(p)
  PROVE  IndInv'
<1>. USE ConstAssumption DEF ConstAssumption, IndInv, TypeOK, UndoPreflight, IsLatest, Undoable, Journaled, Settled, Working
<1>1. TypeOK'
  OBVIOUS
<1>2. (RowsInOrder /\ AbsentRowsEmpty /\ TurnWhileIdle /\ TodoStands)'
  BY DEF RowsInOrder, AbsentRowsEmpty, TurnWhileIdle, TodoStands
<1>3. (UndoRowsComplete /\ PassHasRow /\ LiveTurnOpen /\ ClosedHasPost)'
  BY DEF UndoRowsComplete, PassHasRow, LiveTurnOpen, ClosedHasPost, TurnWhileIdle
<1>. QED
  BY <1>1, <1>2, <1>3

\* The inductive invariant is kept by the backup transaction of _restore.
LEMMA UndoBeginKeeps ==
  ASSUME IndInv, NEW p \in Proc, UndoBegin(p)
  PROVE  IndInv'
<1>. USE ConstAssumption DEF ConstAssumption, IndInv, UndoBegin, Differing, Journaled, Settled, Working
<1>1. TypeOK'
  BY DEF TypeOK
<1>2. RowsInOrder'
  BY DEF TypeOK, RowsInOrder
<1>3. AbsentRowsEmpty'
  BY DEF TypeOK, AbsentRowsEmpty, RowsInOrder
<1>4. TurnWhileIdle'
  BY DEF TypeOK, TurnWhileIdle
<1>5. TodoStands'
  BY DEF TypeOK, TodoStands, RowsInOrder
<1>6. UndoRowsComplete'
  BY DEF TypeOK, UndoRowsComplete, RowsInOrder, LiveTurnOpen, PassHasRow
<1>7. PassHasRow'
  BY DEF TypeOK, PassHasRow, RowsInOrder, LiveTurnOpen, UndoRowsComplete, TodoStands
<1>8. LiveTurnOpen'
  BY DEF TypeOK, LiveTurnOpen, RowsInOrder, TurnWhileIdle, PassHasRow, TodoStands
<1>9. ClosedHasPost'
  BY DEF TypeOK, ClosedHasPost, LiveTurnOpen, PassHasRow
<1>. QED
  BY <1>1, <1>2, <1>4, <1>5, <1>6, <1>7, <1>8, <1>9, <1>3

\* The inductive invariant is kept by _restore_pre of one file.
LEMMA UndoFileKeeps ==
  ASSUME IndInv, NEW p \in Proc, UndoFile(p)
  PROVE  IndInv'
<1>. USE ConstAssumption DEF ConstAssumption, IndInv, TypeOK, UndoFile, Journaled, Settled, Working
<1>1. TypeOK'
  BY DEF PassHasRow, UndoRowsComplete
<1>2. (RowsInOrder /\ AbsentRowsEmpty /\ TurnWhileIdle /\ TodoStands)'
  BY DEF RowsInOrder, AbsentRowsEmpty, TurnWhileIdle, TodoStands
<1>3. (UndoRowsComplete /\ PassHasRow /\ LiveTurnOpen /\ ClosedHasPost)'
  BY DEF UndoRowsComplete, PassHasRow, LiveTurnOpen, ClosedHasPost, TurnWhileIdle
<1>. QED
  BY <1>1, <1>2, <1>3

\* The inductive invariant is kept by the done transaction of _restore.
LEMMA UndoCommitKeeps ==
  ASSUME IndInv, NEW p \in Proc, UndoCommit(p)
  PROVE  IndInv'
<1>. USE ConstAssumption DEF ConstAssumption, IndInv, UndoCommit, Return, Journaled, Settled, Working
<1>1. TypeOK'
  BY DEF TypeOK
<1>2. RowsInOrder'
  BY DEF TypeOK, RowsInOrder, PassHasRow
<1>3. AbsentRowsEmpty'
  BY DEF TypeOK, AbsentRowsEmpty, RowsInOrder
<1>4. TurnWhileIdle'
  BY DEF TypeOK, TurnWhileIdle
<1>5. TodoStands'
  BY DEF TypeOK, TodoStands, RowsInOrder
<1>6. UndoRowsComplete'
  BY DEF TypeOK, UndoRowsComplete, RowsInOrder, LiveTurnOpen, PassHasRow
<1>7. PassHasRow'
  BY DEF TypeOK, PassHasRow, RowsInOrder, LiveTurnOpen, UndoRowsComplete, TodoStands
<1>8. LiveTurnOpen'
  <2>. SUFFICES ASSUME NEW q \in Proc, turn'[q] # 0
                PROVE  /\ turnState'[turn'[q]] = "open"
                       /\ turnOwner'[turn'[q]] = q
                       /\ turnSession'[turn'[q]] = session'[q]
    BY DEF LiveTurnOpen
  <2>1. turn[q] # 0 /\ turn[q] \in TurnId /\ turnState[turn[q]] = "open"
    BY DEF TypeOK, LiveTurnOpen
  <2>2. turn[q] # target[p]
    BY <2>1 DEF PassHasRow
  <2>3. turnState'[turn[q]] = turnState[turn[q]]
    BY <2>1, <2>2 DEF TypeOK
  <2>. QED
    BY <2>1, <2>3 DEF LiveTurnOpen
<1>9. ClosedHasPost'
  BY DEF TypeOK, ClosedHasPost, LiveTurnOpen, PassHasRow
<1>. QED
  BY <1>1, <1>2, <1>4, <1>5, <1>6, <1>7, <1>8, <1>9, <1>3

\* The inductive invariant is kept by an OSError in _restore.
LEMMA UndoFileFailsKeeps ==
  ASSUME IndInv, NEW p \in Proc, UndoFileFails(p)
  PROVE  IndInv'
<1>. USE ConstAssumption DEF ConstAssumption, IndInv, TypeOK, UndoFileFails, Differing, Journaled, Settled, Working
<1>1. TypeOK'
  OBVIOUS
<1>2. (RowsInOrder /\ AbsentRowsEmpty /\ TurnWhileIdle /\ TodoStands)'
  BY DEF RowsInOrder, AbsentRowsEmpty, TurnWhileIdle, TodoStands
<1>3. (UndoRowsComplete /\ PassHasRow /\ LiveTurnOpen /\ ClosedHasPost)'
  BY DEF UndoRowsComplete, PassHasRow, LiveTurnOpen, ClosedHasPost, TurnWhileIdle
<1>. QED
  BY <1>1, <1>2, <1>3

\* The inductive invariant is kept by _restore_backup of one file.
LEMMA RollbackFileKeeps ==
  ASSUME IndInv, NEW p \in Proc, RollbackFile(p)
  PROVE  IndInv'
<1>. USE ConstAssumption DEF ConstAssumption, IndInv, TypeOK, RollbackFile, Journaled, Settled, Working
<1>1. TypeOK'
  BY DEF PassHasRow, UndoRowsComplete
<1>2. (RowsInOrder /\ AbsentRowsEmpty /\ TurnWhileIdle /\ TodoStands)'
  BY DEF RowsInOrder, AbsentRowsEmpty, TurnWhileIdle, TodoStands
<1>3. (UndoRowsComplete /\ PassHasRow /\ LiveTurnOpen /\ ClosedHasPost)'
  BY DEF UndoRowsComplete, PassHasRow, LiveTurnOpen, ClosedHasPost, TurnWhileIdle
<1>. QED
  BY <1>1, <1>2, <1>3

\* The inductive invariant is kept by the rolled_back transaction.
LEMMA RollbackCommitKeeps ==
  ASSUME IndInv, NEW p \in Proc, RollbackCommit(p)
  PROVE  IndInv'
<1>. USE ConstAssumption DEF ConstAssumption, IndInv, TypeOK, RollbackCommit, Return, Journaled, Settled, Working
<1>1. TypeOK'
  OBVIOUS
<1>2. (RowsInOrder /\ AbsentRowsEmpty /\ TurnWhileIdle /\ TodoStands)'
  BY DEF RowsInOrder, AbsentRowsEmpty, TurnWhileIdle, TodoStands, PassHasRow
<1>3. (UndoRowsComplete /\ PassHasRow /\ LiveTurnOpen /\ ClosedHasPost)'
  BY DEF UndoRowsComplete, PassHasRow, LiveTurnOpen, ClosedHasPost, TurnWhileIdle
<1>. QED
  BY <1>1, <1>2, <1>3

\* The inductive invariant is kept by an exception that leaves undo_last.
LEMMA UndoRaisesKeeps ==
  ASSUME IndInv, NEW p \in Proc, UndoRaises(p)
  PROVE  IndInv'
<1>. USE ConstAssumption DEF ConstAssumption, IndInv, TypeOK, UndoRaises, Return, Journaled, Settled, Working
<1>1. TypeOK'
  OBVIOUS
<1>2. (RowsInOrder /\ AbsentRowsEmpty /\ TurnWhileIdle /\ TodoStands)'
  BY DEF RowsInOrder, AbsentRowsEmpty, TurnWhileIdle, TodoStands
<1>3. (UndoRowsComplete /\ PassHasRow /\ LiveTurnOpen /\ ClosedHasPost)'
  BY DEF UndoRowsComplete, PassHasRow, LiveTurnOpen, ClosedHasPost, TurnWhileIdle
<1>. QED
  BY <1>1, <1>2, <1>3

\* The inductive invariant is kept by the first SELECT of recover.
LEMMA StartKeeps ==
  ASSUME IndInv, NEW p \in Proc, Start(p)
  PROVE  IndInv'
<1>. USE ConstAssumption DEF ConstAssumption, IndInv, TypeOK, Start, Abandoned, Journaled, Settled, Working
<1>1. TypeOK'
  OBVIOUS
<1>2. (RowsInOrder /\ AbsentRowsEmpty /\ TurnWhileIdle /\ TodoStands)'
  BY DEF RowsInOrder, AbsentRowsEmpty, TurnWhileIdle, TodoStands
<1>3. (UndoRowsComplete /\ PassHasRow /\ LiveTurnOpen /\ ClosedHasPost)'
  BY DEF UndoRowsComplete, PassHasRow, LiveTurnOpen, ClosedHasPost, TurnWhileIdle
<1>. QED
  BY <1>1, <1>2, <1>3

\* The inductive invariant is kept by _close_turn of an abandoned turn.
LEMMA RecoverCloseKeeps ==
  ASSUME IndInv, NEW p \in Proc, RecoverClose(p)
  PROVE  IndInv'
<1>. USE ConstAssumption DEF ConstAssumption, IndInv, RecoverClose, CloseTurn, Digest, Journaled, Settled, Working
<1>1. TypeOK'
  BY DEF TypeOK, TodoStands, UndoRowsComplete
<1>2. RowsInOrder'
  BY DEF TypeOK, RowsInOrder
<1>3. AbsentRowsEmpty'
  BY DEF TypeOK, AbsentRowsEmpty, RowsInOrder
<1>4. TurnWhileIdle'
  BY DEF TypeOK, TurnWhileIdle
<1>5. TodoStands'
  BY DEF TypeOK, TodoStands, RowsInOrder
<1>6. UndoRowsComplete'
  BY DEF TypeOK, UndoRowsComplete, RowsInOrder, LiveTurnOpen, PassHasRow
<1>7. PassHasRow'
  BY DEF TypeOK, PassHasRow, RowsInOrder, LiveTurnOpen, UndoRowsComplete, TodoStands
<1>8. LiveTurnOpen'
  BY DEF TypeOK, LiveTurnOpen, RowsInOrder, TurnWhileIdle, PassHasRow, TodoStands
<1>9. ClosedHasPost'
  BY DEF TypeOK, ClosedHasPost, LiveTurnOpen, PassHasRow
<1>. QED
  BY <1>1, <1>2, <1>4, <1>5, <1>6, <1>7, <1>8, <1>9, <1>3

\* The inductive invariant is kept by the second SELECT of recover.
LEMMA RecoverListKeeps ==
  ASSUME IndInv, NEW p \in Proc, RecoverList(p)
  PROVE  IndInv'
<1>. USE ConstAssumption DEF ConstAssumption, IndInv, TypeOK, RecoverList, RestoringUndos, Journaled, Settled, Working
<1>1. TypeOK'
  OBVIOUS
<1>2. (RowsInOrder /\ AbsentRowsEmpty /\ TurnWhileIdle /\ TodoStands)'
  BY DEF RowsInOrder, AbsentRowsEmpty, TurnWhileIdle, TodoStands
<1>3. (UndoRowsComplete /\ PassHasRow /\ LiveTurnOpen /\ ClosedHasPost)'
  BY DEF UndoRowsComplete, PassHasRow, LiveTurnOpen, ClosedHasPost, TurnWhileIdle
<1>. QED
  BY <1>1, <1>2, <1>3

\* The inductive invariant is kept by the classification in _recover_undo.
LEMMA RecoverPickKeeps ==
  ASSUME IndInv, NEW p \in Proc, RecoverPick(p)
  PROVE  IndInv'
<1>. USE ConstAssumption DEF ConstAssumption, IndInv, RecoverPick, PickDeleted, PickPending, PickResolve, Differing, Journaled, Settled, Working
<1>1. TypeOK'
  <2>1. PICK u \in todo[p] \cap UndoId : PickDeleted(p, u) \/ PickPending(p, u) \/ PickResolve(p, u)
    OBVIOUS
  <2>2. undoTurn[u] \in TurnId
    BY DEF TypeOK, TodoStands, UndoRowsComplete
  <2>3. RollsForward(undoTurn[u]) \in BOOLEAN
    BY DEF RollsForward
  <2>4. CASE PickResolve(p, u)
    <3>1. forward' \in [Proc -> BOOLEAN]
      BY <2>3, <2>4, Zenon DEF TypeOK
    <3>2. left' \in [Proc -> SUBSET File]
      BY <2>4 DEF TypeOK
    <3>. QED
      BY <2>2, <2>4, <3>1, <3>2 DEF TypeOK
  <2>5. CASE PickDeleted(p, u)
    BY <2>5 DEF TypeOK
  <2>6. CASE PickPending(p, u)
    BY <2>6 DEF TypeOK
  <2>. QED
    BY <2>1, <2>4, <2>5, <2>6
<1>2. RowsInOrder'
  BY DEF TypeOK, RowsInOrder
<1>3. AbsentRowsEmpty'
  BY DEF TypeOK, AbsentRowsEmpty, RowsInOrder
<1>4. TurnWhileIdle'
  BY DEF TypeOK, TurnWhileIdle
<1>5. TodoStands'
  BY DEF TypeOK, TodoStands, RowsInOrder
<1>6. UndoRowsComplete'
  BY DEF TypeOK, UndoRowsComplete, RowsInOrder, LiveTurnOpen, PassHasRow
<1>7. PassHasRow'
  BY DEF TypeOK, PassHasRow, RowsInOrder, LiveTurnOpen, UndoRowsComplete, TodoStands
<1>8. LiveTurnOpen'
  BY DEF TypeOK, LiveTurnOpen, RowsInOrder, TurnWhileIdle, PassHasRow, TodoStands
<1>9. ClosedHasPost'
  BY DEF TypeOK, ClosedHasPost, LiveTurnOpen, PassHasRow
<1>. QED
  BY <1>1, <1>2, <1>4, <1>5, <1>6, <1>7, <1>8, <1>9, <1>3

\* The inductive invariant is kept by the write of one file in _recover_undo.
LEMMA RecoverFileKeeps ==
  ASSUME IndInv, NEW p \in Proc, RecoverFile(p)
  PROVE  IndInv'
<1>. USE ConstAssumption DEF ConstAssumption, IndInv, TypeOK, RecoverFile, Journaled, Settled, Working
<1>1. TypeOK'
  BY DEF PassHasRow, UndoRowsComplete
<1>2. (RowsInOrder /\ AbsentRowsEmpty /\ TurnWhileIdle /\ TodoStands)'
  BY DEF RowsInOrder, AbsentRowsEmpty, TurnWhileIdle, TodoStands
<1>3. (UndoRowsComplete /\ PassHasRow /\ LiveTurnOpen /\ ClosedHasPost)'
  BY DEF UndoRowsComplete, PassHasRow, LiveTurnOpen, ClosedHasPost, TurnWhileIdle
<1>. QED
  BY <1>1, <1>2, <1>3

\* The inductive invariant is kept by the final transaction of _recover_undo.
LEMMA RecoverCommitKeeps ==
  ASSUME IndInv, NEW p \in Proc, RecoverCommit(p)
  PROVE  IndInv'
<1>. USE ConstAssumption DEF ConstAssumption, IndInv, RecoverCommit, Return, Journaled, Settled, Working
<1>1. TypeOK'
  BY DEF TypeOK
<1>2. RowsInOrder'
  BY DEF TypeOK, RowsInOrder, PassHasRow
<1>3. AbsentRowsEmpty'
  BY DEF TypeOK, AbsentRowsEmpty, RowsInOrder
<1>4. TurnWhileIdle'
  BY DEF TypeOK, TurnWhileIdle
<1>5. TodoStands'
  BY DEF TypeOK, TodoStands, RowsInOrder
<1>6. UndoRowsComplete'
  BY DEF TypeOK, UndoRowsComplete, RowsInOrder, LiveTurnOpen, PassHasRow
<1>7. PassHasRow'
  BY DEF TypeOK, PassHasRow, RowsInOrder, LiveTurnOpen, UndoRowsComplete, TodoStands
<1>8. LiveTurnOpen'
  <2>. SUFFICES ASSUME NEW q \in Proc, turn'[q] # 0
                PROVE  /\ turnState'[turn'[q]] = "open"
                       /\ turnOwner'[turn'[q]] = q
                       /\ turnSession'[turn'[q]] = session'[q]
    BY DEF LiveTurnOpen
  <2>1. turn[q] # 0 /\ turn[q] \in TurnId /\ turnState[turn[q]] = "open"
    BY DEF TypeOK, LiveTurnOpen
  <2>2. turn[q] # target[p]
    BY <2>1 DEF PassHasRow
  <2>3. turnState'[turn[q]] = turnState[turn[q]]
    BY <2>1, <2>2 DEF TypeOK
  <2>. QED
    BY <2>1, <2>3 DEF LiveTurnOpen
<1>9. ClosedHasPost'
  BY DEF TypeOK, ClosedHasPost, LiveTurnOpen, PassHasRow
<1>. QED
  BY <1>1, <1>2, <1>4, <1>5, <1>6, <1>7, <1>8, <1>9, <1>3

\* The inductive invariant is kept by the end of recover and the admission.
LEMMA RecoverDoneKeeps ==
  ASSUME IndInv, NEW p \in Proc, RecoverDone(p)
  PROVE  IndInv'
<1>. USE ConstAssumption DEF ConstAssumption, IndInv, TypeOK, RecoverDone, Journaled, Settled, Working
<1>1. TypeOK'
  OBVIOUS
<1>2. (RowsInOrder /\ AbsentRowsEmpty /\ TurnWhileIdle /\ TodoStands)'
  BY DEF RowsInOrder, AbsentRowsEmpty, TurnWhileIdle, TodoStands
<1>3. (UndoRowsComplete /\ PassHasRow /\ LiveTurnOpen /\ ClosedHasPost)'
  BY DEF UndoRowsComplete, PassHasRow, LiveTurnOpen, ClosedHasPost, TurnWhileIdle
<1>. QED
  BY <1>1, <1>2, <1>3

\* The inductive invariant is kept by an OSError in _recover_undo.
LEMMA RecoverFileFailsKeeps ==
  ASSUME IndInv, NEW p \in Proc, RecoverFileFails(p)
  PROVE  IndInv'
<1>. USE ConstAssumption DEF ConstAssumption, IndInv, TypeOK, RecoverFileFails, Dies, Return, Journaled, Settled, Working
<1>1. TypeOK'
  OBVIOUS
<1>2. (RowsInOrder /\ AbsentRowsEmpty /\ TurnWhileIdle /\ TodoStands)'
  BY DEF RowsInOrder, AbsentRowsEmpty, TurnWhileIdle, TodoStands
<1>3. (UndoRowsComplete /\ PassHasRow /\ LiveTurnOpen /\ ClosedHasPost)'
  BY DEF UndoRowsComplete, PassHasRow, LiveTurnOpen, ClosedHasPost, TurnWhileIdle
<1>. QED
  BY <1>1, <1>2, <1>3

\* The inductive invariant is kept by a crash.
LEMMA CrashKeeps ==
  ASSUME IndInv, NEW p \in Proc, Crash(p)
  PROVE  IndInv'
<1>. USE ConstAssumption DEF ConstAssumption, IndInv, TypeOK, Crash, Dies, Return, Journaled, Settled, Working
<1>1. TypeOK'
  OBVIOUS
<1>2. (RowsInOrder /\ AbsentRowsEmpty /\ TurnWhileIdle /\ TodoStands)'
  BY DEF RowsInOrder, AbsentRowsEmpty, TurnWhileIdle, TodoStands
<1>3. (UndoRowsComplete /\ PassHasRow /\ LiveTurnOpen /\ ClosedHasPost)'
  BY DEF UndoRowsComplete, PassHasRow, LiveTurnOpen, ClosedHasPost, TurnWhileIdle
<1>. QED
  BY <1>1, <1>2, <1>3

\* The inductive invariant is kept by switch_session.
LEMMA SwitchSessionKeeps ==
  ASSUME IndInv, NEW p \in Proc, NEW s \in Session, SwitchSession(p, s)
  PROVE  IndInv'
<1>. USE ConstAssumption DEF ConstAssumption, IndInv, TypeOK, SwitchSession, Journaled, Settled, Working
<1>1. TypeOK'
  OBVIOUS
<1>2. (RowsInOrder /\ AbsentRowsEmpty /\ TurnWhileIdle /\ TodoStands)'
  BY DEF RowsInOrder, AbsentRowsEmpty, TurnWhileIdle, TodoStands
<1>3. (UndoRowsComplete /\ PassHasRow /\ LiveTurnOpen /\ ClosedHasPost)'
  BY DEF UndoRowsComplete, PassHasRow, LiveTurnOpen, ClosedHasPost, TurnWhileIdle
<1>. QED
  BY <1>1, <1>2, <1>3

\* The inductive invariant is kept by aclose.
LEMMA ExitKeeps ==
  ASSUME IndInv, NEW p \in Proc, Exit(p)
  PROVE  IndInv'
<1>. USE ConstAssumption DEF ConstAssumption, IndInv, TypeOK, Exit, Dies, Return, Journaled, Settled, Working
<1>1. TypeOK'
  OBVIOUS
<1>2. (RowsInOrder /\ AbsentRowsEmpty /\ TurnWhileIdle /\ TodoStands)'
  BY DEF RowsInOrder, AbsentRowsEmpty, TurnWhileIdle, TodoStands
<1>3. (UndoRowsComplete /\ PassHasRow /\ LiveTurnOpen /\ ClosedHasPost)'
  BY DEF UndoRowsComplete, PassHasRow, LiveTurnOpen, ClosedHasPost, TurnWhileIdle
<1>. QED
  BY <1>1, <1>2, <1>3

\* The inductive invariant is kept by a change by another program.
LEMMA EditKeeps ==
  ASSUME IndInv, NEW f \in File, NEW v \in Value, Edit(f, v)
  PROVE  IndInv'
<1>. USE ConstAssumption DEF ConstAssumption, IndInv, TypeOK, Edit, Journaled, Settled, Working
<1>1. TypeOK'
  OBVIOUS
<1>2. (RowsInOrder /\ AbsentRowsEmpty /\ TurnWhileIdle /\ TodoStands)'
  BY DEF RowsInOrder, AbsentRowsEmpty, TurnWhileIdle, TodoStands
<1>3. (UndoRowsComplete /\ PassHasRow /\ LiveTurnOpen /\ ClosedHasPost)'
  BY DEF UndoRowsComplete, PassHasRow, LiveTurnOpen, ClosedHasPost, TurnWhileIdle
<1>. QED
  BY <1>1, <1>2, <1>3

\* The inductive invariant is kept by a path that becomes or stops being a link.
LEMMA SwapLinkKeeps ==
  ASSUME IndInv, NEW f \in File, SwapLink(f)
  PROVE  IndInv'
<1>. USE ConstAssumption DEF ConstAssumption, IndInv, TypeOK, SwapLink, Journaled, Settled, Working
<1>1. TypeOK'
  OBVIOUS
<1>2. (RowsInOrder /\ AbsentRowsEmpty /\ TurnWhileIdle /\ TodoStands)'
  BY DEF RowsInOrder, AbsentRowsEmpty, TurnWhileIdle, TodoStands
<1>3. (UndoRowsComplete /\ PassHasRow /\ LiveTurnOpen /\ ClosedHasPost)'
  BY DEF UndoRowsComplete, PassHasRow, LiveTurnOpen, ClosedHasPost, TurnWhileIdle
<1>. QED
  BY <1>1, <1>2, <1>3

\* The inductive invariant is kept by delete_session.
LEMMA DeleteSessionKeeps ==
  ASSUME IndInv, NEW s \in Session, DeleteSession(s)
  PROVE  IndInv'
<1>. USE ConstAssumption DEF ConstAssumption, IndInv, DeleteSession, Journaled, Settled, Working
<1>1. TypeOK'
  BY DEF TypeOK
<1>2. RowsInOrder'
  BY DEF TypeOK, RowsInOrder, AbsentRowsEmpty
<1>3. AbsentRowsEmpty'
  BY DEF TypeOK, AbsentRowsEmpty, RowsInOrder
<1>4. TurnWhileIdle'
  BY DEF TypeOK, TurnWhileIdle
<1>5. TodoStands'
  BY DEF TypeOK, TodoStands, RowsInOrder
<1>6. UndoRowsComplete'
  BY DEF TypeOK, UndoRowsComplete, RowsInOrder, LiveTurnOpen, PassHasRow, AbsentRowsEmpty
<1>7. PassHasRow'
  BY DEF TypeOK, PassHasRow, RowsInOrder, LiveTurnOpen, UndoRowsComplete, TodoStands
<1>8. LiveTurnOpen'
  BY DEF TypeOK, LiveTurnOpen, RowsInOrder, TurnWhileIdle, PassHasRow, TodoStands
<1>9. ClosedHasPost'
  BY DEF TypeOK, ClosedHasPost, LiveTurnOpen, PassHasRow
<1>. QED
  BY <1>1, <1>2, <1>4, <1>5, <1>6, <1>7, <1>8, <1>9, <1>3

\* The initial state satisfies the inductive invariant.
LEMMA InitEstablishes == ConstAssumption /\ Init => IndInv
  BY DEF ConstAssumption, Init, IndInv, TypeOK, RowsInOrder, AbsentRowsEmpty, TurnWhileIdle,
         TodoStands, UndoRowsComplete, PassHasRow, LiveTurnOpen, ClosedHasPost, Working

\* A step that changes nothing keeps it.
LEMMA StutterKeeps == IndInv /\ UNCHANGED vars => IndInv'
  BY DEF IndInv, TypeOK, RowsInOrder, AbsentRowsEmpty, TurnWhileIdle, TodoStands,
         UndoRowsComplete, PassHasRow, LiveTurnOpen, ClosedHasPost, Journaled

\* Every step of the store, of its processes and of the world around it keeps it.
LEMMA NextKeeps == IndInv /\ Next => IndInv'
<1>. SUFFICES ASSUME IndInv, Next PROVE IndInv'
  OBVIOUS
<1>1. ASSUME NEW p \in Proc, TurnStep(p) PROVE IndInv'
  BY <1>1, BeginTurnKeeps, EnsureTurnKeeps, EndTurnKeeps, EndTurnFailsKeeps,
     JournalKeeps, MutateKeeps, MutateFailsKeeps, RunCommandKeeps DEF TurnStep
<1>2. ASSUME NEW p \in Proc, RecoveryStep(p) PROVE IndInv'
  BY <1>2, RecoverCloseKeeps, RecoverListKeeps, RecoverPickKeeps, RecoverFileKeeps,
     RecoverCommitKeeps, RecoverDoneKeeps DEF RecoveryStep
<1>3. ASSUME NEW p \in Proc, UndoStep(p) PROVE IndInv'
  BY <1>3, UndoBeginKeeps, UndoFileKeeps, UndoCommitKeeps, RollbackFileKeeps,
     RollbackCommitKeeps DEF UndoStep
<1>4. ASSUME NEW p \in Proc, FailStep(p) PROVE IndInv'
  BY <1>4, UndoFileFailsKeeps, UndoRaisesKeeps, RecoverFileFailsKeeps, CrashKeeps DEF FailStep
<1>5. ASSUME NEW p \in Proc,
             Start(p) \/ UndoPreflight(p) \/ Exit(p) \/ \E s \in Session : SwitchSession(p, s)
      PROVE  IndInv'
  BY <1>5, StartKeeps, UndoPreflightKeeps, ExitKeeps, SwitchSessionKeeps
<1>6. CASE World
  BY <1>6, EditKeeps, SwapLinkKeeps, DeleteSessionKeeps DEF World
<1>. QED
  BY <1>1, <1>2, <1>3, <1>4, <1>5, <1>6 DEF Next

\* The inductive invariant holds in every reachable state.
THEOREM Inductive == Spec => []IndInv
<1>1. IndInv /\ [Next]_vars => IndInv'
  BY NextKeeps, StutterKeeps
<1>. QED
  BY ConstAssumption, InitEstablishes, <1>1, PTL DEF Spec

\* The tables and the memory of the processes keep their types; in particular undo,
\* rollback and recovery only ever write contents that were recorded (never NULL).
THEOREM TypeCorrect == Spec => []TypeOK
<1>1. IndInv => TypeOK
  BY DEF IndInv
<1>. QED
  BY Inductive, <1>1, PTL

\* No start-up recovery, undo or deletion by any number of other processes takes
\* the open turn of a live process away (recover, _owner_alive, delete_session).
THEOREM LiveTurnsStayOpen == Spec => []LiveTurnOpen
<1>1. IndInv => LiveTurnOpen
  BY DEF IndInv
<1>. QED
  BY Inductive, <1>1, PTL

\* Every turn that was closed, by its process or by recovery, has a post-image for
\* each of its paths (_close_turn).
THEOREM ClosedTurnsHavePostImages == Spec => []ClosedHasPost
<1>1. IndInv => ClosedHasPost
  BY DEF IndInv
<1>. QED
  BY Inductive, <1>1, PTL

-----------------------------------------------------------------------------
(* One process: what undo and recovery do to the files *)

\* Pre-images and origins that stay as they are stay equal.
LEMMA OriginStands == OriginIsPre /\ UNCHANGED <<ranCommand, pre, origin>> => OriginIsPre'
  BY DEF OriginIsPre

\* So do backups and post-images while no interrupted undo nor its turn changes.
LEMMA BackupStands ==
  ASSUME BackupIsPost, OneInterrupted, UNCHANGED <<undoState, undoTurn, backup>>,
         \A u \in RestoringUndos : LET t == undoTurn[u] IN
            turnState'[t] = turnState[t] /\ pre'[t] = pre[t] /\ post'[t] = post[t]
  PROVE  BackupIsPost' /\ OneInterrupted'
  BY DEF BackupIsPost, OneInterrupted, RestoringUndos, Journaled

\* What is to be shown about a step of the one process.
LEMMA SoloFrom ==
  ASSUME Solo, NEW p \in Proc, OriginIsPre', BackupIsPost', OneInterrupted',
         TodoComplete(p)', PassAlone(p)', PassFiles(p)'
  PROVE  SoloInv'
<1>1. \A q \in Proc : q = p
  BY DEF Solo
<1>. QED
  BY <1>1 DEF SoloInv

\* An idle process has nothing ahead of it.
LEMMA IdleSolo ==
  ASSUME NEW p \in Proc, pc'[p] = "idle", undo'[p] = 0
  PROVE  TodoComplete(p)' /\ PassAlone(p)' /\ PassFiles(p)'
  BY DEF TodoComplete, PassAlone, PassFiles, Working

\* SoloInv is kept by begin_turn.
LEMMA SoloBeginTurn ==
  ASSUME Solo, IndInv, SoloInv, NEW p \in Proc, BeginTurn(p)
  PROVE  SoloInv'
<1>1. pc'[p] = "idle" /\ undo'[p] = 0
  BY DEF BeginTurn, IndInv, TypeOK, SoloInv, PassAlone, Working
<1>2. OriginIsPre'
  BY OriginStands DEF BeginTurn, SoloInv
<1>3. BackupIsPost' /\ OneInterrupted'
  BY BackupStands DEF BeginTurn, SoloInv
<1>. QED
  BY <1>1, <1>2, <1>3, IdleSolo, SoloFrom

\* SoloInv is kept by an end_turn whose transaction fails.
LEMMA SoloEndTurnFails ==
  ASSUME Solo, IndInv, SoloInv, NEW p \in Proc, EndTurnFails(p)
  PROVE  SoloInv'
<1>1. pc'[p] = "idle" /\ undo'[p] = 0
  BY DEF EndTurnFails, IndInv, TypeOK, SoloInv, PassAlone, Working
<1>2. OriginIsPre'
  BY OriginStands DEF EndTurnFails, SoloInv
<1>3. BackupIsPost' /\ OneInterrupted'
  BY BackupStands DEF EndTurnFails, SoloInv
<1>. QED
  BY <1>1, <1>2, <1>3, IdleSolo, SoloFrom

\* SoloInv is kept by switch_session.
LEMMA SoloSwitchSession ==
  ASSUME Solo, IndInv, SoloInv, NEW p \in Proc, NEW s \in Session, SwitchSession(p, s)
  PROVE  SoloInv'
<1>1. pc'[p] = "idle" /\ undo'[p] = 0
  BY DEF SwitchSession, IndInv, TypeOK, SoloInv, PassAlone, Working
<1>2. OriginIsPre'
  BY OriginStands DEF SwitchSession, SoloInv
<1>3. BackupIsPost' /\ OneInterrupted'
  BY BackupStands DEF SwitchSession, SoloInv
<1>. QED
  BY <1>1, <1>2, <1>3, IdleSolo, SoloFrom

\* SoloInv is kept by _ensure_turn.
LEMMA SoloEnsureTurn ==
  ASSUME Solo, IndInv, SoloInv, NEW p \in Proc, EnsureTurn(p)
  PROVE  SoloInv'
<1>1. pc'[p] = "idle" /\ undo'[p] = 0
  BY DEF EnsureTurn, IndInv, TypeOK, SoloInv, PassAlone, Working
<1>2. OriginIsPre'
  BY OriginStands DEF EnsureTurn, SoloInv
<1>3. \A u \in RestoringUndos : undoTurn[u] \in TurnId /\ turnState[undoTurn[u]] # "none"
  BY DEF IndInv, UndoRowsComplete, RestoringUndos, Settled
<1>4. nTurns + 1 \in TurnId /\ turnState[nTurns + 1] = "none"
  BY ConstAssumption DEF EnsureTurn, IndInv, TypeOK, RowsInOrder, ConstAssumption
<1>5. \A t \in TurnId : t # nTurns + 1 => turnState'[t] = turnState[t]
  BY DEF EnsureTurn, IndInv, TypeOK
<1>6. BackupIsPost' /\ OneInterrupted'
  <2>1. UNCHANGED <<undoState, undoTurn, backup, pre, post>>
    BY DEF EnsureTurn
  <2>2. \A u \in RestoringUndos : turnState'[undoTurn[u]] = turnState[undoTurn[u]]
    BY <1>3, <1>4, <1>5
  <2>. QED
    BY <2>1, <2>2, BackupStands DEF SoloInv
<1>. QED
  BY <1>1, <1>2, <1>6, IdleSolo, SoloFrom

\* SoloInv is kept by record_pre_image.
LEMMA SoloJournal ==
  ASSUME Solo, IndInv, SoloInv, NEW p \in Proc, NEW f \in File, Journal(p, f)
  PROVE  SoloInv'
<1>1. pc'[p] = "idle" /\ undo'[p] = 0
  BY DEF Journal, IndInv, TypeOK, SoloInv, PassAlone, Working
<1>2. turn[p] \in TurnId /\ turnState[turn[p]] = "open"
  BY DEF Journal, IndInv, TypeOK, LiveTurnOpen
<1>3. OriginIsPre'
  BY DEF Journal, NoteOrigin, IndInv, TypeOK, SoloInv, OriginIsPre
<1>4. \A t \in TurnId : t # turn[p] => pre'[t] = pre[t]
  BY DEF Journal, IndInv, TypeOK
<1>5. \A u \in RestoringUndos : undoTurn[u] \in TurnId /\ undoTurn[u] # turn[p]
  BY <1>2 DEF IndInv, UndoRowsComplete, RestoringUndos, Settled
<1>6. BackupIsPost' /\ OneInterrupted'
  <2>1. UNCHANGED <<undoState, undoTurn, backup, turnState, post>>
    BY DEF Journal
  <2>2. \A u \in RestoringUndos : pre'[undoTurn[u]] = pre[undoTurn[u]]
    BY <1>4, <1>5
  <2>. QED
    BY <2>1, <2>2, BackupStands DEF SoloInv
<1>. QED
  BY <1>1, <1>3, <1>6, IdleSolo, SoloFrom

\* SoloInv is kept by the replacement of a journaled file.
LEMMA SoloMutate ==
  ASSUME Solo, IndInv, SoloInv, NEW p \in Proc, NEW c \in Content, Mutate(p, c)
  PROVE  SoloInv'
<1>1. pc'[p] = "idle" /\ undo'[p] = 0
  BY DEF Mutate, IndInv, TypeOK, SoloInv, PassAlone, Working
<1>2. OriginIsPre'
  BY OriginStands DEF Mutate, SoloInv
<1>3. BackupIsPost' /\ OneInterrupted'
  BY BackupStands DEF Mutate, SoloInv
<1>. QED
  BY <1>1, <1>2, <1>3, IdleSolo, SoloFrom

\* SoloInv is kept by a replacement that raises.
LEMMA SoloMutateFails ==
  ASSUME Solo, IndInv, SoloInv, NEW p \in Proc, MutateFails(p)
  PROVE  SoloInv'
<1>1. pc'[p] = "idle" /\ undo'[p] = 0
  BY DEF MutateFails, IndInv, TypeOK, SoloInv, PassAlone, Working
<1>2. OriginIsPre'
  BY OriginStands DEF MutateFails, SoloInv
<1>3. BackupIsPost' /\ OneInterrupted'
  BY BackupStands DEF MutateFails, SoloInv
<1>. QED
  BY <1>1, <1>2, <1>3, IdleSolo, SoloFrom

\* SoloInv is kept by note_command and a command.
LEMMA SoloRunCommand ==
  ASSUME Solo, IndInv, SoloInv, NEW p \in Proc, NEW f \in File, NEW v \in Value, RunCommand(p, f, v)
  PROVE  SoloInv'
<1>1. pc'[p] = "idle" /\ undo'[p] = 0
  BY DEF RunCommand, IndInv, TypeOK, SoloInv, PassAlone, Working
<1>2. turn[p] \in TurnId
  BY DEF RunCommand, IndInv, TypeOK
<1>3. ranCommand'[turn[p]] /\ \A t \in TurnId \ {turn[p]} : ranCommand'[t] = ranCommand[t] /\ origin'[t] = origin[t]
  BY <1>2 DEF RunCommand, NoteOrigin, IndInv, TypeOK
<1>4. OriginIsPre'
  BY <1>3 DEF RunCommand, SoloInv, OriginIsPre
<1>5. BackupIsPost' /\ OneInterrupted'
  BY BackupStands DEF RunCommand, SoloInv
<1>. QED
  BY <1>1, <1>4, <1>5, IdleSolo, SoloFrom

\* SoloInv is kept by end_turn.
LEMMA SoloEndTurn ==
  ASSUME Solo, IndInv, SoloInv, NEW p \in Proc, EndTurn(p)
  PROVE  SoloInv'
<1>1. pc'[p] = "idle" /\ undo'[p] = 0
  BY DEF EndTurn, IndInv, TypeOK, SoloInv, PassAlone, Working
<1>2. OriginIsPre'
  BY OriginStands DEF EndTurn, CloseTurn, SoloInv
<1>3. BackupIsPost' /\ OneInterrupted'
  <2>1. CASE turn[p] = 0
    BY <2>1, BackupStands DEF EndTurn, SoloInv
  <2>2. CASE turn[p] # 0
    <3>1. turn[p] \in TurnId /\ turnState[turn[p]] = "open"
      BY <2>2 DEF IndInv, TypeOK, LiveTurnOpen
    <3>2. \A u \in RestoringUndos : undoTurn[u] \in TurnId /\ undoTurn[u] # turn[p]
      BY <3>1 DEF IndInv, UndoRowsComplete, RestoringUndos, Settled
    <3>3. \A t \in TurnId \ {turn[p]} : turnState'[t] = turnState[t] /\ post'[t] = post[t]
      BY <2>2, <3>1 DEF EndTurn, CloseTurn, IndInv, TypeOK
    <3>4. UNCHANGED <<undoState, undoTurn, backup, pre>>
      BY <2>2 DEF EndTurn, CloseTurn
    <3>. QED
      BY <3>2, <3>3, <3>4, BackupStands DEF SoloInv
  <2>. QED
    BY <2>1, <2>2
<1>. QED
  BY <1>1, <1>2, <1>3, IdleSolo, SoloFrom

\* SoloInv is kept by the preflight of undo_last.
LEMMA SoloUndoPreflight ==
  ASSUME Solo, IndInv, SoloInv, NEW p \in Proc, UndoPreflight(p)
  PROVE  SoloInv'
<1>1. PICK t \in TurnId : /\ IsLatest(t, session[p]) /\ Conflicts(t) = {}
                         /\ target'[p] = t /\ pc'[p] = "preflighted"
  BY DEF UndoPreflight, IndInv, TypeOK
<1>2. OriginIsPre'
  BY OriginStands DEF UndoPreflight, SoloInv
<1>3. BackupIsPost' /\ OneInterrupted'
  BY BackupStands DEF UndoPreflight, SoloInv
<1>4. undo'[p] = 0 /\ inflight'[p] = None
  BY DEF UndoPreflight, IndInv, TypeOK, SoloInv, PassAlone, Working
<1>5. TodoComplete(p)'
  BY <1>1 DEF TodoComplete
<1>6. PassAlone(p)'
  BY <1>1, <1>4 DEF UndoPreflight, PassAlone, RestoringUndos, Working, IsLatest, Undoable
<1>7. \A f \in Journaled(t) : f \notin blocked /\ fs[f] = post[t][f]
  BY <1>1 DEF Conflicts, Digest
<1>8. PassFiles(p)'
  BY <1>1, <1>7 DEF UndoPreflight, PassFiles, Journaled, Working
<1>. QED
  BY <1>2, <1>3, <1>5, <1>6, <1>8, SoloFrom

\* SoloInv is kept by the backup transaction of _restore.
LEMMA SoloUndoBegin ==
  ASSUME Solo, IndInv, SoloInv, NEW p \in Proc, UndoBegin(p)
  PROVE  SoloInv'
<1>. DEFINE u0 == nUndos + 1
           t0 == target[p]
<1>1. /\ t0 \in TurnId /\ turnState[t0] = "closed" /\ turnSession[t0] = session[p]
      /\ Journaled(t0) \cap blocked = {} /\ \A f \in Journaled(t0) : fs[f] = post[t0][f]
  BY DEF UndoBegin, IndInv, PassHasRow, SoloInv, PassAlone, PassFiles, Working
<1>2. u0 \in UndoId /\ undoState[u0] = "none"
  BY ConstAssumption DEF UndoBegin, IndInv, TypeOK, RowsInOrder, ConstAssumption
<1>3. /\ undoState'[u0] = "restoring" /\ undoTurn'[u0] = t0
      /\ backup'[u0] = [f \in File |-> IF f \in Journaled(t0) THEN fs[f] ELSE None]
      /\ \A u \in UndoId \ {u0} : /\ undoState'[u] = undoState[u] /\ undoTurn'[u] = undoTurn[u]
                                  /\ backup'[u] = backup[u]
  BY <1>2 DEF UndoBegin, IndInv, TypeOK
<1>4. /\ pc'[p] = "restore" /\ undo'[p] = u0 /\ left'[p] = Differing(t0) /\ target'[p] = t0
      /\ UNCHANGED <<fs, blocked, turnState, turnSession, pre, post, session, inflight>>
  BY DEF UndoBegin, IndInv, TypeOK
<1>5. OriginIsPre'
  BY OriginStands DEF UndoBegin, SoloInv
<1>10. OneInterrupted'
  BY <1>3 DEF UndoBegin, SoloInv, PassAlone, OneInterrupted, RestoringUndos
<1>6. BackupIsPost'
  <2>. SUFFICES ASSUME NEW u \in UndoId, undoState'[u] = "restoring"
                PROVE  /\ turnState[undoTurn'[u]] = "closed"
                       /\ \A f \in Journaled(undoTurn'[u]) : backup'[u][f] = post[undoTurn'[u]][f]
    BY <1>4 DEF BackupIsPost, RestoringUndos, Journaled
  <2>1. CASE u = u0
    BY <2>1, <1>1, <1>3 DEF Journaled
  <2>2. CASE u # u0
    BY <2>2, <1>3 DEF SoloInv, BackupIsPost, RestoringUndos
  <2>. QED
    BY <2>1, <2>2
<1>7. TodoComplete(p)'
  BY <1>4 DEF TodoComplete
<1>8. PassAlone(p)'
  BY <1>1, <1>3, <1>4 DEF UndoBegin, SoloInv, PassAlone, Working
<1>9. PassFiles(p)'
  BY <1>1, <1>4 DEF PassFiles, Journaled, Differing, Working
<1>. QED
  BY <1>5, <1>6, <1>7, <1>8, <1>9, <1>10, SoloFrom

\* SoloInv is kept by _restore_pre of one file.
LEMMA SoloUndoFile ==
  ASSUME Solo, IndInv, SoloInv, NEW p \in Proc, UndoFile(p)
  PROVE  SoloInv'
<1>. DEFINE t0 == target[p]
<1>1. PICK f0 \in left[p] : /\ fs' = [fs EXCEPT ![f0] = pre[t0][f0]]
                            /\ left' = [left EXCEPT ![p] = @ \ {f0}]
  BY DEF UndoFile
<1>2. f0 \in Journaled(t0) /\ f0 \in File
  BY DEF UndoFile, IndInv, PassHasRow, Working, Journaled
<1>3. left'[p] = left[p] \ {f0} /\ fs'[f0] = pre[t0][f0] /\ \A f \in File \ {f0} : fs'[f] = fs[f]
  BY <1>1, <1>2 DEF IndInv, TypeOK
<1>4. /\ pc[p] = "restore"
      /\ UNCHANGED <<blocked, turnRows, undoRows, pc, session, inflight, undo, target, forward>>
  BY DEF UndoFile
<1>5. OriginIsPre'
  BY OriginStands DEF UndoFile, SoloInv
<1>6. BackupIsPost' /\ OneInterrupted'
  BY BackupStands DEF UndoFile, SoloInv
<1>7. TodoComplete(p)'
  BY <1>4 DEF TodoComplete
<1>8. PassAlone(p)'
  BY <1>4 DEF SoloInv, PassAlone
<1>9. PassFiles(p)'
  BY <1>2, <1>3, <1>4 DEF SoloInv, PassFiles, Journaled
<1>. QED
  BY <1>5, <1>6, <1>7, <1>8, <1>9, SoloFrom

\* SoloInv is kept by _restore_backup of one file.
LEMMA SoloRollbackFile ==
  ASSUME Solo, IndInv, SoloInv, NEW p \in Proc, RollbackFile(p)
  PROVE  SoloInv'
<1>. DEFINE t0 == target[p]
<1>1. PICK f0 \in left[p] :
        /\ fs' = IF Digest(f0) = pre[t0][f0] THEN [fs EXCEPT ![f0] = backup[undo[p]][f0]] ELSE fs
        /\ left' = [left EXCEPT ![p] = @ \ {f0}]
  BY DEF RollbackFile
<1>2. /\ pc[p] = "rollback"
      /\ UNCHANGED <<blocked, turnRows, undoRows, pc, session, inflight, undo, target, forward>>
  BY DEF RollbackFile
<1>3. f0 \in Differing(t0) /\ f0 \in File /\ Digest(f0) = fs[f0]
  BY <1>2 DEF SoloInv, PassFiles, Differing, Journaled, Digest, Working
<1>4. backup[undo[p]][f0] # pre[t0][f0]
  BY <1>2, <1>3 DEF IndInv, PassHasRow, SoloInv, PassAlone, BackupIsPost, RestoringUndos, Differing, Working
<1>5. left'[p] = left[p] \ {f0} /\ fs'[f0] # pre[t0][f0] /\ \A f \in File \ {f0} : fs'[f] = fs[f]
  BY <1>1, <1>3, <1>4 DEF IndInv, TypeOK
<1>6. OriginIsPre'
  BY OriginStands DEF RollbackFile, SoloInv
<1>7. BackupIsPost' /\ OneInterrupted'
  BY BackupStands DEF RollbackFile, SoloInv
<1>8. TodoComplete(p)'
  BY <1>2 DEF TodoComplete
<1>9. PassAlone(p)'
  BY <1>2 DEF SoloInv, PassAlone
<1>10. PassFiles(p)'
  BY <1>2, <1>3, <1>5 DEF SoloInv, PassFiles, Journaled, Differing
<1>. QED
  BY <1>6, <1>7, <1>8, <1>9, <1>10, SoloFrom

\* SoloInv is kept by the write of one file in _recover_undo.
LEMMA SoloRecoverFile ==
  ASSUME Solo, IndInv, SoloInv, NEW p \in Proc, RecoverFile(p)
  PROVE  SoloInv'
<1>. DEFINE t0 == target[p]
<1>1. PICK f0 \in left[p] :
        /\ fs' = IF forward[p] THEN [fs EXCEPT ![f0] = pre[t0][f0]]
                 ELSE IF undoState[undo[p]] = "deleted" THEN fs
                 ELSE [fs EXCEPT ![f0] = backup[undo[p]][f0]]
        /\ left' = [left EXCEPT ![p] = @ \ {f0}]
  BY DEF RecoverFile
<1>2. /\ pc[p] = "redo"
      /\ UNCHANGED <<blocked, turnRows, undoRows, pc, todo, session, inflight, undo, target, forward>>
  BY DEF RecoverFile
<1>3. f0 \in Journaled(t0) /\ f0 \in File
  BY <1>2 DEF IndInv, PassHasRow, Working, Journaled
<1>4. left'[p] = left[p] \ {f0} /\ \A f \in File \ {f0} : fs'[f] = fs[f]
  BY <1>1, <1>3 DEF IndInv, TypeOK
<1>5. PassFiles(p)'
  <2>1. CASE forward[p]
    <3>1. fs'[f0] = pre[t0][f0]
      BY <1>1, <1>3, <2>1 DEF IndInv, TypeOK
    <3>. QED
      BY <2>1, <3>1, <1>2, <1>3, <1>4 DEF SoloInv, PassFiles, Journaled, Working
  <2>2. CASE ~forward[p]
    <3>1. f0 \in Differing(t0)
      BY <1>2, <2>2 DEF SoloInv, PassFiles
    <3>2. CASE undoState[undo[p]] = "restoring"
      <4>1. backup[undo[p]][f0] # pre[t0][f0]
        BY <1>2, <3>1, <3>2 DEF IndInv, PassHasRow, SoloInv, BackupIsPost, RestoringUndos, Differing, Working
      <4>2. fs'[f0] # pre[t0][f0]
        BY <1>1, <1>3, <2>2, <3>2, <4>1 DEF IndInv, TypeOK
      <4>. QED
        BY <2>2, <3>1, <4>2, <1>2, <1>3, <1>4 DEF SoloInv, PassFiles, Journaled, Differing, Working
    <3>3. CASE undoState[undo[p]] # "restoring"
      <4>1. fs' = fs
        BY <1>1, <1>2, <2>2, <3>3 DEF SoloInv, PassAlone
      <4>. QED
        BY <2>2, <3>3, <4>1, <1>2, <1>3, <1>4 DEF SoloInv, PassFiles, Journaled, Differing, Working
    <3>. QED
      BY <3>2, <3>3
  <2>. QED
    BY <2>1, <2>2
<1>6. OriginIsPre'
  BY OriginStands DEF RecoverFile, SoloInv
<1>7. BackupIsPost' /\ OneInterrupted'
  BY BackupStands DEF RecoverFile, SoloInv
<1>8. TodoComplete(p)'
  BY <1>2 DEF SoloInv, TodoComplete, Abandoned, RestoringUndos, Journaled
<1>9. PassAlone(p)'
  BY <1>2 DEF SoloInv, PassAlone, RestoringUndos
<1>. QED
  BY <1>5, <1>6, <1>7, <1>8, <1>9, SoloFrom

\* SoloInv is kept by the done transaction of _restore.
LEMMA SoloUndoCommit ==
  ASSUME Solo, IndInv, SoloInv, NEW p \in Proc, UndoCommit(p)
  PROVE  SoloInv'
<1>1. undo[p] \in UndoId /\ target[p] \in TurnId /\ RestoringUndos = {undo[p]}
  BY DEF UndoCommit, IndInv, PassHasRow, SoloInv, PassAlone, OneInterrupted, RestoringUndos, Working
<1>2. pc'[p] = "idle" /\ undo'[p] = 0
  BY DEF UndoCommit, Return, IndInv, TypeOK
<1>3. OriginIsPre'
  BY OriginStands DEF UndoCommit, SoloInv
<1>4. RestoringUndos' = {}
  BY <1>1 DEF UndoCommit, IndInv, TypeOK, RestoringUndos
<1>5. BackupIsPost' /\ OneInterrupted'
  BY <1>4 DEF BackupIsPost, OneInterrupted
<1>. QED
  BY <1>2, <1>3, <1>5, IdleSolo, SoloFrom

\* SoloInv is kept by the rolled_back transaction.
LEMMA SoloRollbackCommit ==
  ASSUME Solo, IndInv, SoloInv, NEW p \in Proc, RollbackCommit(p)
  PROVE  SoloInv'
<1>1. undo[p] \in UndoId /\ RestoringUndos = {undo[p]}
  BY DEF RollbackCommit, IndInv, PassHasRow, SoloInv, PassAlone, OneInterrupted, RestoringUndos, Working
<1>2. pc'[p] = "idle" /\ undo'[p] = 0
  BY DEF RollbackCommit, Return, IndInv, TypeOK
<1>3. OriginIsPre'
  BY OriginStands DEF RollbackCommit, SoloInv
<1>4. RestoringUndos' = {}
  BY <1>1 DEF RollbackCommit, IndInv, TypeOK, RestoringUndos
<1>5. BackupIsPost' /\ OneInterrupted'
  BY <1>4 DEF BackupIsPost, OneInterrupted
<1>. QED
  BY <1>2, <1>3, <1>5, IdleSolo, SoloFrom

\* SoloInv is kept by an OSError in _restore.
LEMMA SoloUndoFileFails ==
  ASSUME Solo, IndInv, SoloInv, NEW p \in Proc, UndoFileFails(p)
  PROVE  SoloInv'
<1>1. /\ pc[p] = "restore" /\ pc'[p] = "rollback" /\ left'[p] = Differing(target[p])
      /\ UNCHANGED <<fileVars, turnRows, undoRows, session, inflight, undo, target>>
  BY DEF UndoFileFails, IndInv, TypeOK
<1>2. OriginIsPre'
  BY OriginStands DEF UndoFileFails, SoloInv
<1>3. BackupIsPost' /\ OneInterrupted'
  BY BackupStands DEF UndoFileFails, SoloInv
<1>4. TodoComplete(p)'
  BY <1>1 DEF TodoComplete
<1>5. PassAlone(p)'
  BY <1>1 DEF SoloInv, PassAlone, Working
<1>6. PassFiles(p)'
  BY <1>1 DEF SoloInv, PassFiles, Journaled, Differing, Working
<1>. QED
  BY <1>2, <1>3, <1>4, <1>5, <1>6, SoloFrom

\* SoloInv is kept by an exception in the rollback.
LEMMA SoloUndoRaises ==
  ASSUME Solo, IndInv, SoloInv, NEW p \in Proc, UndoRaises(p)
  PROVE  SoloInv'
<1>1. pc'[p] = "idle" /\ undo'[p] = 0
  BY DEF UndoRaises, Return, IndInv, TypeOK
<1>2. OriginIsPre'
  BY OriginStands DEF UndoRaises, SoloInv
<1>3. BackupIsPost' /\ OneInterrupted'
  BY BackupStands DEF UndoRaises, SoloInv
<1>. QED
  BY <1>1, <1>2, <1>3, IdleSolo, SoloFrom

\* SoloInv is kept by a process that starts.
LEMMA SoloStart ==
  ASSUME Solo, IndInv, SoloInv, NEW p \in Proc, Start(p)
  PROVE  SoloInv'
<1>1. /\ pc[p] = "off" /\ pc'[p] = "close" /\ todo'[p] = Abandoned
      /\ UNCHANGED <<fileVars, turnRows, undoRows, inflight, undo>>
  BY DEF Start, IndInv, TypeOK
<1>2. OriginIsPre'
  BY OriginStands DEF Start, SoloInv
<1>3. BackupIsPost' /\ OneInterrupted'
  BY BackupStands DEF Start, SoloInv
<1>4. TodoComplete(p)'
  BY <1>1 DEF TodoComplete, Abandoned
<1>5. PassAlone(p)'
  BY <1>1 DEF SoloInv, PassAlone, Working
<1>6. PassFiles(p)'
  BY <1>1 DEF PassFiles, Working
<1>. QED
  BY <1>2, <1>3, <1>4, <1>5, <1>6, SoloFrom

\* SoloInv is kept by the closing of an abandoned turn.
LEMMA SoloRecoverClose ==
  ASSUME Solo, IndInv, SoloInv, NEW p \in Proc, RecoverClose(p)
  PROVE  SoloInv'
<1>1. PICK t \in todo[p] : CloseTurn(t) /\ todo' = [todo EXCEPT ![p] = @ \ {t}]
  BY DEF RecoverClose
<1>2. t \in TurnId /\ turnState[t] \in {"open", "deleted"} /\ pc[p] = "close"
  BY DEF RecoverClose, IndInv, TodoStands, SoloInv, TodoComplete
<1>3. \A u \in RestoringUndos : undoTurn[u] \in TurnId /\ undoTurn[u] # t
  BY <1>2 DEF IndInv, UndoRowsComplete, RestoringUndos, SoloInv, BackupIsPost, Settled
<1>4. /\ turnState'[t] # "open"
      /\ \A x \in TurnId \ {t} : turnState'[x] = turnState[x] /\ post'[x] = post[x]
  BY <1>1, <1>2 DEF CloseTurn, IndInv, TypeOK
<1>5. /\ todo'[p] = todo[p] \ {t} /\ UNCHANGED <<pc, undoState, undoTurn, backup, pre, inflight, undo>>
      /\ UNCHANGED <<ranCommand, origin, turnOwner, turnSession>>
  BY <1>1 DEF RecoverClose, CloseTurn, IndInv, TypeOK
<1>6. OriginIsPre'
  BY <1>5, OriginStands DEF SoloInv
<1>7. BackupIsPost' /\ OneInterrupted'
  BY <1>3, <1>4, <1>5, BackupStands DEF SoloInv
<1>8. TodoComplete(p)'
  <2>1. Abandoned \subseteq todo[p] /\ \A x \in todo[p] : x \in TurnId /\ turnState[x] \in {"open", "deleted"}
    BY <1>2 DEF SoloInv, TodoComplete, IndInv, TodoStands
  <2>2. Abandoned' \subseteq todo'[p]
    BY <2>1, <1>4, <1>5 DEF Abandoned
  <2>3. \A x \in todo'[p] : turnState'[x] \in {"open", "deleted"}
    BY <2>1, <1>4, <1>5
  <2>. QED
    BY <2>2, <2>3, <1>2, <1>5 DEF TodoComplete
<1>9. PassAlone(p)'
  BY <1>2, <1>5 DEF SoloInv, PassAlone, Working
<1>10. PassFiles(p)'
  BY <1>2, <1>5 DEF PassFiles, Working
<1>. QED
  BY <1>6, <1>7, <1>8, <1>9, <1>10, SoloFrom

\* SoloInv is kept by the list of interrupted undos.
LEMMA SoloRecoverList ==
  ASSUME Solo, IndInv, SoloInv, NEW p \in Proc, RecoverList(p)
  PROVE  SoloInv'
<1>1. /\ pc[p] = "close" /\ pc'[p] = "pick" /\ todo[p] = {} /\ todo'[p] = RestoringUndos
      /\ UNCHANGED <<fileVars, turnRows, undoRows, inflight, undo>>
  BY DEF RecoverList, IndInv, TypeOK
<1>2. OriginIsPre'
  BY OriginStands DEF RecoverList, SoloInv
<1>3. BackupIsPost' /\ OneInterrupted'
  BY BackupStands DEF RecoverList, SoloInv
<1>4. TodoComplete(p)'
  BY <1>1 DEF SoloInv, TodoComplete, Abandoned, RestoringUndos, Journaled
<1>5. PassAlone(p)'
  BY <1>1 DEF SoloInv, PassAlone, Working
<1>6. PassFiles(p)'
  BY <1>1 DEF PassFiles, Working
<1>. QED
  BY <1>2, <1>3, <1>4, <1>5, <1>6, SoloFrom

\* SoloInv is kept by the choice of an undo to resolve.
LEMMA SoloRecoverPick ==
  ASSUME Solo, IndInv, SoloInv, NEW p \in Proc, RecoverPick(p)
  PROVE  SoloInv'
<1>1. PICK u \in todo[p] \cap UndoId : PickDeleted(p, u) \/ PickPending(p, u) \/ PickResolve(p, u)
  BY DEF RecoverPick
<1>2. pc[p] = "pick" /\ UNCHANGED <<fileVars, turnRows, undoRows, inflight, origin>>
  BY DEF RecoverPick
<1>3. OriginIsPre'
  BY <1>2, OriginStands DEF SoloInv
<1>4. BackupIsPost' /\ OneInterrupted'
  BY <1>2, BackupStands DEF SoloInv
<1>5. CASE PickDeleted(p, u)
  <2>1. pc'[p] = "off" /\ undo' = undo
    BY <1>5 DEF PickDeleted, IndInv, TypeOK
  <2>2. PassAlone(p)'
    BY <2>1, <1>2 DEF SoloInv, PassAlone, Working
  <2>3. TodoComplete(p)' /\ PassFiles(p)'
    BY <2>1 DEF TodoComplete, PassFiles, Working
  <2>. QED
    BY <1>3, <1>4, <2>2, <2>3, SoloFrom
<1>6. CASE PickPending(p, u)
  <2>1. /\ pc' = pc /\ undo' = undo /\ todo'[p] = todo[p] \ {u}
        /\ Journaled(undoTurn[u]) \cap blocked # {}
    BY <1>6 DEF PickPending, IndInv, TypeOK
  <2>2. PassAlone(p)'
    BY <2>1, <1>2 DEF SoloInv, PassAlone, Working
  <2>3. TodoComplete(p)'
    BY <2>1, <1>2 DEF SoloInv, TodoComplete, Abandoned, RestoringUndos, Journaled
  <2>4. PassFiles(p)'
    BY <2>1, <1>2 DEF PassFiles, Working
  <2>. QED
    BY <1>3, <1>4, <2>2, <2>3, <2>4, SoloFrom
<1>7. CASE PickResolve(p, u)
  <2>. DEFINE t == undoTurn[u]
  <2>1. /\ pc'[p] = "redo" /\ undo'[p] = u /\ target'[p] = t /\ todo'[p] = todo[p] \ {u}
        /\ Journaled(t) \cap blocked = {}
    BY <1>7 DEF PickResolve, IndInv, TypeOK
  <2>2. undoState[u] = "restoring"
    BY <1>2, <1>7 DEF PickResolve, SoloInv, TodoComplete
  <2>3. PassAlone(p)'
    BY <2>1, <2>2, <1>2 DEF SoloInv, PassAlone, Working
  <2>4. TodoComplete(p)'
    <3>1. undo[p] = 0 /\ 0 \notin UndoId
      BY <1>2 DEF SoloInv, PassAlone, Working
    <3>. QED
      BY <2>1, <3>1, <1>2 DEF SoloInv, TodoComplete, Abandoned, RestoringUndos, Journaled
  <2>5. \A f \in Journaled(t) : Digest(f) = fs[f]
    BY <2>1 DEF Digest
  <2>6. PassFiles(p)'
    <3>1. CASE RollsForward(t)
      <4>1. forward'[p] = TRUE /\ left'[p] = {f \in Journaled(t) : Class(t, f) = "post"}
        BY <1>7, <3>1 DEF PickResolve, IndInv, TypeOK
      <4>2. \A f \in Journaled(t) : fs[f] = IF f \in left'[p] THEN post[t][f] ELSE pre[t][f]
        BY <2>5, <3>1, <4>1 DEF RollsForward, Class
      <4>. QED
        BY <2>1, <4>1, <4>2, <1>2 DEF PassFiles, Journaled, Working
    <3>2. CASE ~RollsForward(t)
      <4>1. forward'[p] = FALSE /\ left'[p] = {f \in Differing(t) : Class(t, f) = "pre"}
        BY <1>7, <3>2 DEF PickResolve, RollsForward, IndInv, TypeOK
      <4>2. \A f \in Differing(t) : f \in left'[p] <=> fs[f] = pre[t][f]
        BY <2>5, <4>1 DEF Class, Differing
      <4>. QED
        BY <2>1, <4>1, <4>2, <1>2 DEF PassFiles, Journaled, Differing, Working
    <3>. QED
      BY <3>1, <3>2
  <2>. QED
    BY <1>3, <1>4, <2>3, <2>4, <2>6, SoloFrom
<1>. QED
  BY <1>1, <1>5, <1>6, <1>7

\* SoloInv is kept by the final transaction of _recover_undo.
LEMMA SoloRecoverCommit ==
  ASSUME Solo, IndInv, SoloInv, NEW p \in Proc, RecoverCommit(p)
  PROVE  SoloInv'
<1>. DEFINE u0 == undo[p]
            t0 == target[p]
<1>1. /\ u0 \in UndoId /\ t0 \in TurnId /\ undoTurn[u0] = t0 /\ undoState[u0] # "none"
      /\ pc[p] = "redo"
  BY DEF RecoverCommit, IndInv, PassHasRow, Working
<1>2. /\ pc'[p] = "pick" /\ undo'[p] = 0
      /\ UNCHANGED <<fileVars, todo, inflight, origin, turnOwner, ranCommand, pre, post, undoTurn, backup>>
  BY DEF RecoverCommit, Return, IndInv, TypeOK
<1>3. /\ undoState'[u0] \in {"deleted", "done", "rolled_back"}
      /\ \A u \in UndoId \ {u0} : undoState'[u] = undoState[u]
  BY <1>1 DEF RecoverCommit, IndInv, TypeOK
<1>4. /\ \A t \in TurnId \ {t0} : turnState'[t] = turnState[t]
      /\ turnState[t0] = "deleted" => turnState'[t0] = "deleted"
      /\ turnState'[t0] # turnState[t0] => turnState'[t0] = "undone"
  BY <1>1 DEF RecoverCommit, IndInv, TypeOK
<1>5. OriginIsPre'
  BY <1>2, OriginStands DEF SoloInv
<1>6. RestoringUndos' = RestoringUndos \ {u0}
  BY <1>1, <1>3 DEF RestoringUndos
<1>7. OneInterrupted'
  BY <1>6 DEF SoloInv, OneInterrupted
<1>8. BackupIsPost'
  <2>. SUFFICES ASSUME NEW u \in RestoringUndos, u # u0
                PROVE  undoTurn[u] \in TurnId /\ turnState'[undoTurn[u]] = turnState[undoTurn[u]]
    BY <1>2, <1>6 DEF SoloInv, BackupIsPost, Journaled
  <2>1. undoTurn[u] \in TurnId /\ turnState[undoTurn[u]] = "closed"
    BY DEF IndInv, UndoRowsComplete, RestoringUndos, SoloInv, BackupIsPost
  <2>2. undoState[u0] # "restoring"
    BY <1>1 DEF SoloInv, OneInterrupted, RestoringUndos
  <2>3. turnState[t0] = "deleted"
    BY <1>1, <2>2 DEF SoloInv, PassAlone
  <2>. QED
    BY <1>4, <2>1, <2>3
<1>9. TodoComplete(p)'
  <2>1. Abandoned' = {}
    BY <1>1, <1>2, <1>4 DEF SoloInv, TodoComplete, Abandoned
  <2>2. \A u \in todo'[p] : u \in UndoId /\ undoState[u] \in {"restoring", "deleted"}
    BY <1>1, <1>2 DEF SoloInv, TodoComplete, IndInv, TodoStands
  <2>4. u0 \notin todo[p]
    BY <1>1 DEF SoloInv, TodoComplete
  <2>. QED
    BY <1>1, <1>2, <1>3, <1>6, <2>1, <2>2, <2>4 DEF SoloInv, TodoComplete, Journaled
<1>10. PassAlone(p)'
  BY <1>1, <1>2 DEF SoloInv, PassAlone, Working
<1>11. PassFiles(p)'
  BY <1>2 DEF PassFiles, Working
<1>. QED
  BY <1>5, <1>7, <1>8, <1>9, <1>10, <1>11, SoloFrom

\* SoloInv is kept by the end of recover and the admission.
LEMMA SoloRecoverDone ==
  ASSUME Solo, IndInv, SoloInv, NEW p \in Proc, RecoverDone(p)
  PROVE  SoloInv'
<1>1. pc'[p] = "idle" /\ undo'[p] = 0
  BY DEF RecoverDone, IndInv, TypeOK, SoloInv, PassAlone, Working
<1>2. OriginIsPre'
  BY OriginStands DEF RecoverDone, SoloInv
<1>3. BackupIsPost' /\ OneInterrupted'
  BY BackupStands DEF RecoverDone, SoloInv
<1>. QED
  BY <1>1, <1>2, <1>3, IdleSolo, SoloFrom

\* SoloInv is kept by the end of a process, wherever it is.
LEMMA SoloDies ==
  ASSUME Solo, IndInv, SoloInv, NEW p \in Proc, Dies(p)
  PROVE  SoloInv'
<1>1. pc'[p] = "off" /\ undo'[p] = 0 /\ inflight'[p] = None
  BY DEF Dies, Return, IndInv, TypeOK
<1>2. OriginIsPre'
  BY OriginStands DEF Dies, SoloInv
<1>3. BackupIsPost' /\ OneInterrupted'
  BY BackupStands DEF Dies, SoloInv
<1>4. TodoComplete(p)' /\ PassAlone(p)' /\ PassFiles(p)'
  BY <1>1 DEF TodoComplete, PassAlone, PassFiles, Working
<1>. QED
  BY <1>2, <1>3, <1>4, SoloFrom

\* An edit comes between no two steps of a pass, so SoloInv is kept.
LEMMA SoloEdit ==
  ASSUME Solo, IndInv, SoloInv, NEW f \in File, NEW v \in Value, Edit(f, v)
  PROVE  SoloInv'
<1>1. /\ \A p \in Proc : pc[p] \notin {"preflighted", "restore", "rollback", "redo"}
      /\ UNCHANGED <<blocked, turnRows, undoRows, pc, memory, locals, origin>>
  BY DEF Solo, Edit, Quiet
<1>2. OriginIsPre'
  BY <1>1, OriginStands DEF SoloInv
<1>3. BackupIsPost' /\ OneInterrupted'
  BY <1>1, BackupStands DEF SoloInv
<1>4. ASSUME NEW p \in Proc PROVE TodoComplete(p)' /\ PassAlone(p)' /\ PassFiles(p)'
  <2>1. TodoComplete(p)'
    BY <1>1 DEF SoloInv, TodoComplete, Abandoned, RestoringUndos, Journaled
  <2>2. PassAlone(p)'
    BY <1>1 DEF SoloInv, PassAlone, RestoringUndos
  <2>3. PassFiles(p)'
    BY <1>1 DEF PassFiles, Working
  <2>. QED
    BY <2>1, <2>2, <2>3
<1>. QED
  BY <1>2, <1>3, <1>4 DEF SoloInv

\* So does a path that becomes a link.
LEMMA SoloSwapLink ==
  ASSUME Solo, IndInv, SoloInv, NEW f \in File, SwapLink(f)
  PROVE  SoloInv'
<1>1. /\ \A p \in Proc : pc[p] \in {"off", "idle"}
      /\ UNCHANGED <<fs, turnRows, undoRows, pc, memory, locals, origin>>
  BY DEF SwapLink
<1>2. OriginIsPre'
  BY <1>1, OriginStands DEF SoloInv
<1>3. BackupIsPost' /\ OneInterrupted'
  BY <1>1, BackupStands DEF SoloInv
<1>4. ASSUME NEW p \in Proc PROVE TodoComplete(p)' /\ PassAlone(p)' /\ PassFiles(p)'
  BY <1>1 DEF SoloInv, TodoComplete, PassAlone, PassFiles, Working
<1>. QED
  BY <1>2, <1>3, <1>4 DEF SoloInv

\* A session that is deleted takes its turns and its undos along, and is not the one of a pass.
LEMMA SoloDeleteSession ==
  ASSUME Solo, IndInv, SoloInv, NEW s \in Session, DeleteSession(s)
  PROVE  SoloInv'
<1>1. UNCHANGED <<fileVars, nTurns, turnSession, turnOwner, ranCommand, pre, post, nUndos, undoTurn,
                 backup, pc, memory, locals, origin>>
  BY DEF DeleteSession
<1>2. \A t \in TurnId : turnState'[t] = IF turnSession[t] = s THEN "deleted" ELSE turnState[t]
  BY DEF DeleteSession
<1>3. \A u \in UndoId : undoState'[u] = IF undoTurn[u] # 0 /\ turnSession[undoTurn[u]] = s
                                        THEN "deleted" ELSE undoState[u]
  BY DEF DeleteSession
<1>4. \A u \in RestoringUndos : undoTurn[u] \in TurnId /\ undoTurn[u] # 0
  BY DEF IndInv, UndoRowsComplete, RestoringUndos
<1>5. RestoringUndos' = {u \in RestoringUndos : turnSession[undoTurn[u]] # s}
  BY <1>3, <1>4 DEF RestoringUndos
<1>6. OriginIsPre'
  BY <1>1, OriginStands DEF SoloInv
<1>7. BackupIsPost'
  BY <1>1, <1>2, <1>4, <1>5 DEF SoloInv, BackupIsPost, Journaled
<1>8. OneInterrupted'
  BY <1>5 DEF SoloInv, OneInterrupted
<1>9. ASSUME NEW p \in Proc PROVE TodoComplete(p)' /\ PassAlone(p)' /\ PassFiles(p)'
  <2>1. TodoComplete(p)'
    <3>1. Abandoned' \subseteq Abandoned
      BY <1>1, <1>2 DEF Abandoned
    <3>2. CASE pc[p] = "close"
      BY <3>1, <3>2, <1>1, <1>2 DEF SoloInv, TodoComplete, IndInv, TodoStands
    <3>3. CASE pc[p] \in {"pick", "redo"}
      BY <3>1, <3>3, <1>1, <1>3, <1>5 DEF SoloInv, TodoComplete, IndInv, TodoStands, Journaled
    <3>. QED
      BY <3>2, <3>3, <1>1 DEF TodoComplete
  <2>2. PassAlone(p)'
    <3>1. CASE pc[p] \in {"preflighted", "restore", "rollback"}
      <4>1. target[p] \in TurnId /\ turnSession[target[p]] = session[p] /\ session[p] # s
        BY <3>1 DEF SoloInv, PassAlone, IndInv, PassHasRow, Working, DeleteSession
      <4>2. pc[p] \in Working => undo[p] \in UndoId /\ undoTurn[undo[p]] = target[p]
        BY DEF IndInv, PassHasRow
      <4>3. pc[p] \in Working => undoState'[undo[p]] = undoState[undo[p]]
        BY <1>3, <4>1, <4>2
      <4>. QED
        BY <3>1, <4>1, <4>3, <1>1, <1>2, <1>5 DEF SoloInv, PassAlone, Working
    <3>2. CASE pc[p] = "redo"
      <4>1. target[p] \in TurnId /\ undo[p] \in UndoId /\ undoTurn[undo[p]] = target[p]
        BY <3>2 DEF IndInv, PassHasRow, Working
      <4>2. target[p] # 0
        BY <4>1
      <4>. QED
        BY <3>2, <4>1, <4>2, <1>1, <1>2, <1>3 DEF SoloInv, PassAlone, Working
    <3>3. CASE pc[p] \notin {"preflighted", "restore", "rollback", "redo"}
      BY <3>3, <1>1 DEF SoloInv, PassAlone, Working
    <3>. QED
      BY <3>1, <3>2, <3>3
  <2>3. PassFiles(p)'
    <3>1. pc[p] = "redo" => undo[p] \in UndoId
      BY DEF IndInv, PassHasRow, Working
    <3>2. pc[p] = "redo" /\ undoState'[undo[p]] = "restoring" => undoState[undo[p]] = "restoring"
      BY <3>1, <1>3
    <3>. QED
      BY <3>2, <1>1 DEF SoloInv, PassFiles, Journaled, Differing, Working
  <2>. QED
    BY <2>1, <2>2, <2>3
<1>. QED
  BY <1>6, <1>7, <1>8, <1>9 DEF SoloInv

\* SoloInv holds at first.
LEMMA SoloInit == Init => SoloInv
  BY DEF Init, SoloInv, OriginIsPre, BackupIsPost, OneInterrupted, RestoringUndos, TodoComplete,
         PassAlone, PassFiles, Working

\* It is kept by every step, and by one that changes nothing.
LEMMA SoloNext ==
  ASSUME Solo, IndInv, SoloInv, [Next]_vars
  PROVE  SoloInv'
<1>1. ASSUME NEW p \in Proc, TurnStep(p) PROVE SoloInv'
  BY <1>1, SoloBeginTurn, SoloEnsureTurn, SoloEndTurn, SoloEndTurnFails, SoloJournal, SoloMutate,
     SoloMutateFails, SoloRunCommand DEF TurnStep
<1>2. ASSUME NEW p \in Proc, RecoveryStep(p) PROVE SoloInv'
  BY <1>2, SoloRecoverClose, SoloRecoverList, SoloRecoverPick, SoloRecoverFile, SoloRecoverCommit,
     SoloRecoverDone DEF RecoveryStep
<1>3. ASSUME NEW p \in Proc, UndoStep(p) PROVE SoloInv'
  BY <1>3, SoloUndoBegin, SoloUndoFile, SoloUndoCommit, SoloRollbackFile, SoloRollbackCommit
     DEF UndoStep
<1>4. ASSUME NEW p \in Proc, FailStep(p) PROVE SoloInv'
  BY <1>4, SoloUndoFileFails, SoloUndoRaises, SoloDies DEF FailStep, RecoverFileFails, Crash
<1>5. ASSUME NEW p \in Proc,
             Start(p) \/ UndoPreflight(p) \/ Exit(p) \/ \E s \in Session : SwitchSession(p, s)
      PROVE  SoloInv'
  BY <1>5, SoloStart, SoloUndoPreflight, SoloDies, SoloSwitchSession DEF Exit
<1>6. CASE World
  BY <1>6, SoloEdit, SoloSwapLink, SoloDeleteSession DEF World
<1>7. CASE UNCHANGED vars
  <2>1. UNCHANGED <<fs, blocked, turnState, turnSession, turnOwner, ranCommand, pre, post, undoState,
                    undoTurn, backup, pc, session, inflight, todo, undo, target, left, forward, origin>>
    BY <1>7
  <2>2. OriginIsPre' /\ BackupIsPost' /\ OneInterrupted'
    BY <2>1, OriginStands, BackupStands DEF SoloInv
  <2>3. ASSUME NEW p \in Proc PROVE TodoComplete(p)' /\ PassAlone(p)' /\ PassFiles(p)'
    BY <2>1 DEF SoloInv, TodoComplete, PassAlone, PassFiles, Abandoned, RestoringUndos, Journaled, Differing
  <2>. QED
    BY <2>2, <2>3 DEF SoloInv
<1>. QED
  BY <1>1, <1>2, <1>3, <1>4, <1>5, <1>6, <1>7 DEF Next

\* A turn becomes undone by the last transaction of an undo or of a recovery, no other way.
LEMMA UndoneByCommit ==
  ASSUME IndInv, [Next]_vars, NEW t \in TurnId, Becomes(turnState, t, "undone")
  PROVE  \E p \in Proc : t = target[p] /\ (UndoCommit(p) \/ (RecoverCommit(p) /\ forward[p]))
<1>. USE DEF Becomes
<1>1. ASSUME NEW p \in Proc, TurnStep(p) PROVE FALSE
  <2>1. CASE EnsureTurn(p)
    BY <2>1 DEF EnsureTurn, IndInv, TypeOK
  <2>2. CASE EndTurn(p)
    BY <2>2 DEF EndTurn, CloseTurn, IndInv, TypeOK
  <2>. QED
    BY <1>1, <2>1, <2>2 DEF TurnStep, BeginTurn, EndTurnFails, Journal, Mutate, MutateFails, RunCommand
<1>2. ASSUME NEW p \in Proc, RecoveryStep(p), ~RecoverCommit(p) PROVE FALSE
  BY <1>2 DEF RecoveryStep, RecoverClose, CloseTurn, RecoverList, RecoverPick, RecoverFile, RecoverDone,
     IndInv, TypeOK
<1>3. ASSUME NEW p \in Proc, UndoStep(p), ~UndoCommit(p) PROVE FALSE
  BY <1>3 DEF UndoStep, UndoBegin, UndoFile, RollbackFile, RollbackCommit
<1>4. ASSUME NEW p \in Proc, FailStep(p) PROVE FALSE
  BY <1>4 DEF FailStep, UndoFileFails, UndoRaises, RecoverFileFails, Crash, Dies
<1>5. ASSUME NEW p \in Proc,
             Start(p) \/ UndoPreflight(p) \/ Exit(p) \/ \E s \in Session : SwitchSession(p, s)
      PROVE  FALSE
  BY <1>5 DEF Start, UndoPreflight, Exit, Dies, SwitchSession
<1>6. CASE World
  BY <1>6 DEF World, Edit, SwapLink, DeleteSession
<1>7. CASE UNCHANGED vars
  BY <1>7
<1>8. ASSUME NEW p \in Proc, UndoCommit(p) PROVE t = target[p]
  BY <1>8 DEF UndoCommit, IndInv, TypeOK
<1>9. ASSUME NEW p \in Proc, RecoverCommit(p) PROVE t = target[p] /\ forward[p]
  BY <1>9 DEF RecoverCommit, IndInv, TypeOK
<1>. QED
  BY <1>1, <1>2, <1>3, <1>4, <1>5, <1>6, <1>7, <1>8, <1>9 DEF Next

\* An undo that is rolled back is so by its own process or by a recovery.
LEMMA RolledBackByCommit ==
  ASSUME IndInv, [Next]_vars, NEW u \in UndoId, Becomes(undoState, u, "rolled_back")
  PROVE  \E p \in Proc : u = undo[p] /\ (RollbackCommit(p) \/ (RecoverCommit(p) /\ ~forward[p]))
<1>. USE DEF Becomes
<1>1. ASSUME NEW p \in Proc, TurnStep(p) PROVE FALSE
  BY <1>1 DEF TurnStep, BeginTurn, EnsureTurn, EndTurn, EndTurnFails, Journal, Mutate,
     MutateFails, RunCommand
<1>2. ASSUME NEW p \in Proc, RecoveryStep(p), ~RecoverCommit(p) PROVE FALSE
  BY <1>2 DEF RecoveryStep, RecoverClose, RecoverList, RecoverPick, RecoverFile, RecoverDone
<1>3. ASSUME NEW p \in Proc, UndoStep(p), ~RollbackCommit(p) PROVE FALSE
  BY <1>3 DEF UndoStep, UndoBegin, UndoFile, UndoCommit, RollbackFile, IndInv, TypeOK
<1>4. ASSUME NEW p \in Proc, FailStep(p) PROVE FALSE
  BY <1>4 DEF FailStep, UndoFileFails, UndoRaises, RecoverFileFails, Crash, Dies
<1>5. ASSUME NEW p \in Proc,
             Start(p) \/ UndoPreflight(p) \/ Exit(p) \/ \E s \in Session : SwitchSession(p, s)
      PROVE  FALSE
  BY <1>5 DEF Start, UndoPreflight, Exit, Dies, SwitchSession
<1>6. CASE World
  BY <1>6 DEF World, Edit, SwapLink, DeleteSession
<1>7. CASE UNCHANGED vars
  BY <1>7
<1>8. ASSUME NEW p \in Proc, RollbackCommit(p) PROVE u = undo[p]
  BY <1>8 DEF RollbackCommit, IndInv, TypeOK
<1>9. ASSUME NEW p \in Proc, RecoverCommit(p) PROVE u = undo[p] /\ ~forward[p]
  BY <1>9 DEF RecoverCommit, IndInv, TypeOK
<1>. QED
  BY <1>1, <1>2, <1>3, <1>4, <1>5, <1>6, <1>7, <1>8, <1>9 DEF Next

\* What a file holds when a turn is undone.
LEMMA UndoneStep ==
  ASSUME Solo, IndInv, SoloInv, [Next]_vars, NEW t \in TurnId, Becomes(turnState, t, "undone"), NEW f \in File
  PROVE  IF ranCommand[t] THEN f \in Journaled(t) => fs'[f] = pre[t][f]
         ELSE origin[t][f] # None => fs'[f] = origin[t][f]
<1>1. PICK p \in Proc : t = target[p] /\ (UndoCommit(p) \/ (RecoverCommit(p) /\ forward[p]))
  BY UndoneByCommit
<1>2. fs' = fs /\ left[p] = {} /\ (pc[p] = "restore" \/ (pc[p] = "redo" /\ forward[p]))
  BY <1>1 DEF UndoCommit, RecoverCommit
<1>3. f \in Journaled(t) => fs[f] = pre[t][f]
  BY <1>1, <1>2 DEF SoloInv, PassFiles
<1>4. ~ranCommand[t] => origin[t] = pre[t]
  BY DEF SoloInv, OriginIsPre
<1>. QED
  BY <1>2, <1>3, <1>4 DEF Journaled

\* What is left of an undo that is rolled back.
LEMMA RolledBackStep ==
  ASSUME Solo, IndInv, SoloInv, [Next]_vars, NEW u \in UndoId, Becomes(undoState, u, "rolled_back")
  PROVE  /\ turnState'[undoTurn[u]] = "closed"
         /\ \A f \in Differing(undoTurn[u]) : fs'[f] # pre[undoTurn[u]][f]
<1>1. PICK p \in Proc : u = undo[p] /\ (RollbackCommit(p) \/ (RecoverCommit(p) /\ ~forward[p]))
  BY RolledBackByCommit
<1>2. /\ fs' = fs /\ left[p] = {}
      /\ pc[p] \in {"rollback", "redo"} /\ (pc[p] = "redo" => ~forward[p])
  BY <1>1 DEF RollbackCommit, RecoverCommit
<1>3. undoTurn[u] = target[p] /\ target[p] \in TurnId
  BY <1>1, <1>2 DEF IndInv, PassHasRow, Working
<1>4. undoState[u] = "restoring"
  <2>1. CASE RollbackCommit(p)
    BY <1>1, <2>1 DEF RollbackCommit, SoloInv, PassAlone
  <2>2. CASE RecoverCommit(p)
    <3>1. undoState[u] # "deleted"
      BY <1>1, <2>2 DEF RecoverCommit, Becomes, IndInv, TypeOK
    <3>. QED
      BY <1>1, <2>2, <3>1 DEF RecoverCommit, SoloInv, PassAlone
  <2>. QED
    BY <1>1, <2>1, <2>2
<1>5. turnState[undoTurn[u]] = "closed"
  BY <1>4 DEF SoloInv, BackupIsPost, RestoringUndos
<1>6. turnState' = turnState
  BY <1>1, <1>2 DEF RollbackCommit, RecoverCommit, IndInv, TypeOK
<1>7. \A f \in Differing(target[p]) : fs[f] # pre[target[p]][f]
  BY <1>1, <1>2, <1>4 DEF SoloInv, PassFiles
<1>. QED
  BY <1>2, <1>3, <1>5, <1>6, <1>7

\* An undo by a process with the files to itself.
LEMMA OverwriteStep ==
  ASSUME Solo, IndInv, SoloInv, [Next]_vars, NEW f \in File, fs'[f] # fs[f], writes' = writes
  PROVE  \E p \in Proc : target[p] # 0 /\ fs[f] \in {pre[target[p]][f], post[target[p]][f]}
<1>1. ASSUME NEW p \in Proc, TurnStep(p) PROVE FALSE
  BY <1>1 DEF TurnStep, BeginTurn, EnsureTurn, EndTurn, EndTurnFails, Journal, Mutate,
     MutateFails, RunCommand, IndInv, TypeOK
<1>2. ASSUME NEW p \in Proc, RecoveryStep(p), ~RecoverFile(p) PROVE FALSE
  BY <1>2 DEF RecoveryStep, RecoverClose, RecoverList, RecoverPick, RecoverCommit, RecoverDone
<1>3. ASSUME NEW p \in Proc, UndoStep(p), ~UndoFile(p), ~RollbackFile(p) PROVE FALSE
  BY <1>3 DEF UndoStep, UndoBegin, UndoCommit, RollbackCommit
<1>4. ASSUME NEW p \in Proc, FailStep(p) PROVE FALSE
  BY <1>4 DEF FailStep, UndoFileFails, UndoRaises, RecoverFileFails, Crash, Dies
<1>5. ASSUME NEW p \in Proc,
             Start(p) \/ UndoPreflight(p) \/ Exit(p) \/ \E s \in Session : SwitchSession(p, s)
      PROVE  FALSE
  BY <1>5 DEF Start, UndoPreflight, Exit, Dies, SwitchSession
<1>6. CASE World
  BY <1>6 DEF World, Edit, SwapLink, DeleteSession, IndInv, TypeOK
<1>7. CASE UNCHANGED vars
  BY <1>7
<1>8. ASSUME NEW p \in Proc, UndoFile(p) \/ RollbackFile(p) \/ RecoverFile(p)
      PROVE  target[p] # 0 /\ fs[f] \in {pre[target[p]][f], post[target[p]][f]}
  <2>1. target[p] \in TurnId /\ left[p] \subseteq Journaled(target[p]) /\ Journaled(target[p]) \cap blocked = {}
    BY <1>8 DEF UndoFile, RollbackFile, RecoverFile, IndInv, PassHasRow, SoloInv, PassFiles, Working
  <2>2. CASE UndoFile(p)
    <3>1. f \in left[p]
      BY <2>2 DEF UndoFile, IndInv, TypeOK
    <3>. QED
      BY <2>1, <2>2, <3>1 DEF UndoFile, SoloInv, PassFiles
  <2>3. CASE RollbackFile(p)
    BY <2>1, <2>3 DEF RollbackFile, Digest, IndInv, TypeOK
  <2>4. CASE RecoverFile(p)
    <3>1. f \in left[p]
      BY <2>4 DEF RecoverFile, IndInv, TypeOK
    <3>2. pc[p] = "redo"
      BY <2>4 DEF RecoverFile
    <3>. QED
      BY <2>1, <3>1, <3>2 DEF SoloInv, PassFiles
  <2>. QED
    BY <1>8, <2>1, <2>2, <2>3, <2>4
<1>. QED
  BY <1>1, <1>2, <1>3, <1>4, <1>5, <1>6, <1>7, <1>8 DEF Next

\* What was decided about an undo stays decided.
LEMMA FinishedStep ==
  ASSUME Solo, IndInv, SoloInv, [Next]_vars, NEW u \in UndoId, undoState[u] \in {"done", "rolled_back"}
  PROVE  undoState'[u] \in {undoState[u], "deleted"}
<1>1. ASSUME NEW p \in Proc, TurnStep(p) PROVE undoState' = undoState
  BY <1>1 DEF TurnStep, BeginTurn, EnsureTurn, EndTurn, EndTurnFails, Journal, Mutate,
     MutateFails, RunCommand
<1>2. ASSUME NEW p \in Proc, RecoveryStep(p), ~RecoverCommit(p) PROVE undoState' = undoState
  BY <1>2 DEF RecoveryStep, RecoverClose, RecoverList, RecoverPick, RecoverFile, RecoverDone
<1>3. ASSUME NEW p \in Proc, FailStep(p) PROVE undoState' = undoState
  BY <1>3 DEF FailStep, UndoFileFails, UndoRaises, RecoverFileFails, Crash, Dies
<1>4. ASSUME NEW p \in Proc,
             Start(p) \/ UndoPreflight(p) \/ Exit(p) \/ \E s \in Session : SwitchSession(p, s)
      PROVE  undoState' = undoState
  BY <1>4 DEF Start, UndoPreflight, Exit, Dies, SwitchSession
<1>5. CASE World
  BY <1>5 DEF World, Edit, SwapLink, DeleteSession
<1>6. ASSUME NEW p \in Proc, UndoFile(p) \/ RollbackFile(p) PROVE undoState' = undoState
  BY <1>6 DEF UndoFile, RollbackFile
<1>7. ASSUME NEW p \in Proc, UndoBegin(p) PROVE undoState'[u] = undoState[u]
  BY <1>7, ConstAssumption DEF UndoBegin, IndInv, RowsInOrder, TypeOK, ConstAssumption
<1>8. ASSUME NEW p \in Proc, UndoCommit(p) \/ RollbackCommit(p) \/ RecoverCommit(p)
      PROVE  undoState'[u] = undoState[u]
  <2>1. undo[p] # u
    BY <1>8 DEF UndoCommit, RollbackCommit, RecoverCommit, SoloInv, PassAlone
  <2>. QED
    BY <1>8, <2>1 DEF UndoCommit, RollbackCommit, RecoverCommit, IndInv, TypeOK
<1>. QED
  BY <1>1, <1>2, <1>3, <1>4, <1>5, <1>6, <1>7, <1>8 DEF Next, UndoStep, RecoveryStep

\* A start that is over has settled what it found.
LEMMA CompleteStep ==
  ASSUME Solo, IndInv, SoloInv, NEW p \in Proc, pc[p] = "pick", [Next]_vars, pc'[p] = "idle"
  PROVE  /\ Abandoned = {}
         /\ \A u \in RestoringUndos : Journaled(undoTurn[u]) \cap blocked # {}
<1>0. \A q \in Proc : q = p
  BY DEF Solo
<1>1. RecoverDone(p)
  <2>1. ~TurnStep(p)
    BY DEF TurnStep, BeginTurn, EnsureTurn, EndTurn, EndTurnFails, Journal, Mutate,
     MutateFails, RunCommand, SoloInv, PassAlone
  <2>2. RecoveryStep(p) => RecoverDone(p)
    BY DEF RecoveryStep, RecoverClose, RecoverList, RecoverPick, PickDeleted, PickPending, PickResolve,
           RecoverFile, RecoverCommit, IndInv, TypeOK
  <2>3. ~UndoStep(p)
    BY DEF UndoStep, UndoBegin, UndoFile, UndoCommit, RollbackFile, RollbackCommit
  <2>4. ~FailStep(p)
    BY DEF FailStep, UndoFileFails, UndoRaises, RecoverFileFails, Crash, Dies, Return, IndInv, TypeOK
  <2>5. ~Start(p) /\ ~UndoPreflight(p) /\ ~Exit(p) /\ \A s \in Session : ~SwitchSession(p, s)
    BY DEF Start, UndoPreflight, Exit, SwitchSession
  <2>6. ~World
    BY DEF World, Edit, SwapLink, DeleteSession
  <2>. QED
    BY <1>0, <2>1, <2>2, <2>3, <2>4, <2>5, <2>6 DEF Next
<1>2. todo[p] = {} /\ undo[p] = 0 /\ 0 \notin UndoId
  BY <1>1 DEF RecoverDone, SoloInv, PassAlone, Working
<1>. QED
  BY <1>2 DEF SoloInv, TodoComplete, RestoringUndos

\* One process that restarts as often as it likes keeps SoloInv.
THEOREM SoloInvariant == ASSUME Solo PROVE Spec => []SoloInv
<1>1. IndInv /\ SoloInv /\ [Next]_vars => SoloInv'
  BY SoloNext
<1>. QED
  BY Inductive, SoloInit, <1>1, PTL DEF Spec

\* An undo, wherever a crash or a failure cuts it short and whichever start resumes it, puts
\* back every file of its turn or none (undo_last, _restore, _recover_undo): UndoAllOrNothing
\* of the runs, for one process and any number of turns, undos, failures and link swaps.
THEOREM UndoIsWhole == ASSUME Solo PROVE Spec => UndoAllOrNothing
<1>1. IndInv /\ SoloInv /\ [Next]_vars =>
        [\A t \in TurnId : Becomes(turnState, t, "undone") =>
           \A f \in File :
             IF ranCommand[t] THEN f \in Journaled(t) => fs'[f] = pre[t][f]
             ELSE origin[t][f] # None => fs'[f] = origin[t][f]]_vars
  BY UndoneStep
<1>2. IndInv /\ SoloInv /\ [Next]_vars =>
        [\A u \in UndoId : Becomes(undoState, u, "rolled_back") =>
           /\ turnState'[undoTurn[u]] = "closed"
           /\ \A f \in Differing(undoTurn[u]) : fs'[f] # pre[undoTurn[u]][f]]_vars
  BY RolledBackStep
<1>. QED
  BY Inductive, SoloInvariant, <1>1, <1>2, PTL
     DEF Spec, UndoAllOrNothing, UndoneMeansOriginal, RolledBackMeansNothing

\* Undo and recovery write a file only while it holds what the turn recorded of it
\* (_preflight, _classify), for one process and edits outside its passes over files.
THEOREM EditsSurvive == ASSUME Solo PROVE Spec => NoEditOverwritten
<1>1. IndInv /\ SoloInv /\ [Next]_vars =>
        [\A f \in File : fs'[f] # fs[f] /\ writes' = writes =>
           \E p \in Proc : target[p] # 0 /\ fs[f] \in {pre[target[p]][f], post[target[p]][f]}]_vars
  BY OverwriteStep
<1>. QED
  BY Inductive, SoloInvariant, <1>1, PTL DEF Spec, NoEditOverwritten

\* A start that is over has closed every abandoned turn and resolved every interrupted undo
\* whose paths are safe, and has changed no undo that was decided (recover).
THEOREM StartsSettle == ASSUME Solo PROVE Spec => RecoverySettles
<1>1. IndInv /\ SoloInv /\ [Next]_vars =>
        [\A p \in Proc :
           pc[p] = "pick" /\ pc'[p] = "idle" /\ (\A q \in Proc \ {p} : pc[q] = "off") =>
             /\ Abandoned = {}
             /\ \A u \in RestoringUndos : Journaled(undoTurn[u]) \cap blocked # {}]_vars
  BY CompleteStep
<1>2. IndInv /\ SoloInv /\ [Next]_vars =>
        [\A u \in UndoId : undoState[u] \in {"done", "rolled_back"} =>
           undoState'[u] \in {undoState[u], "deleted"}]_vars
  BY FinishedStep
<1>. QED
  BY Inductive, SoloInvariant, <1>1, <1>2, PTL
     DEF Spec, RecoverySettles, RecoveryComplete, FinishedUndoStands

-----------------------------------------------------------------------------
(* One process, and nothing but its own end fails *)

\* Rows that stay as they are stay calm.
LEMMA CalmRowsStand ==
  ASSUME NothingFailed, TurnsWhole, UndoNewest,
         UNCHANGED <<blocked, turnState, turnSession, pre, post, undoState, undoTurn>>
  PROVE  (NothingFailed /\ TurnsWhole /\ UndoNewest)'
  BY DEF NothingFailed, TurnsWhole, UndoNewest, Newest, RestoringUndos, Journaled

\* What is to be shown about a step of the one process.
LEMMA CalmFrom ==
  ASSUME Solo, NEW p \in Proc, NothingFailed', TurnsWhole', UndoNewest', ProcessCalm(p)'
  PROVE  CalmInv'
<1>1. \A q \in Proc : q = p
  BY DEF Solo
<1>. QED
  BY <1>1 DEF CalmInv

\* Where nothing fails the failing steps do not happen.
LEMMA CalmDisables ==
  ASSUME Calm, IndInv, CalmInv, NEW p \in Proc
  PROVE  /\ ~MutateFails(p) /\ ~EndTurnFails(p) /\ (FailStep(p) => Crash(p))
         /\ ~RollbackFile(p) /\ ~RollbackCommit(p)
         /\ \A f \in File : ~SwapLink(f)
         /\ \A s \in Session : ~DeleteSession(s)
<1>1. ~(fails < MaxFail) /\ ~(dbFails < MaxDbFail) /\ ~(blocks < MaxBlock) /\ ~(deletes < MaxDelete)
  BY DEF Calm, IndInv, TypeOK
<1>2. pc[p] # "rollback"
  BY DEF CalmInv, ProcessCalm
<1>. QED
  BY <1>1, <1>2 DEF MutateFails, EndTurnFails, FailStep, UndoFileFails, UndoRaises, RecoverFileFails,
                    RollbackFile, RollbackCommit, SwapLink, DeleteSession

\* Steps that leave the rows alone.
LEMMA CalmQuietRows ==
  ASSUME Solo, IndInv, SoloInv, CalmInv, NEW p \in Proc,
         \/ BeginTurn(p) \/ (\E c \in Content : Mutate(p, c))
         \/ (\E f \in File, v \in Value : RunCommand(p, f, v))
         \/ UndoPreflight(p) \/ UndoFile(p) \/ Start(p) \/ RecoverList(p) \/ RecoverPick(p)
         \/ RecoverFile(p) \/ RecoverDone(p) \/ (\E s \in Session : SwitchSession(p, s))
  PROVE  CalmInv'
<1>1. UNCHANGED <<blocked, turnState, turnSession, turnOwner, pre, post, undoState, undoTurn, turn>>
  BY DEF BeginTurn, Mutate, RunCommand, UndoPreflight, UndoFile, Start, RecoverList, RecoverPick,
         RecoverFile, RecoverDone, SwitchSession
<1>2. (NothingFailed /\ TurnsWhole /\ UndoNewest)'
  BY <1>1, CalmRowsStand DEF CalmInv
<1>3. ProcessCalm(p)
  BY DEF CalmInv
<1>4. pc[p] # "idle" => turn[p] = 0
  BY DEF IndInv, TurnWhileIdle
<1>5. 0 \notin TurnId
  OBVIOUS
<1>6. RestoringUndos' = RestoringUndos
  BY <1>1 DEF RestoringUndos
<1>7. \A t \in TurnId : Newest(t)' = Newest(t)
  BY <1>1 DEF Newest
<1>8. CASE BeginTurn(p) \/ (\E c \in Content : Mutate(p, c)) \/ (\E f \in File, v \in Value : RunCommand(p, f, v))
  <2>1. UNCHANGED <<pc, session, target>>
    BY <1>8 DEF BeginTurn, Mutate, RunCommand
  <2>2. pc[p] = "idle"
    BY <1>8 DEF BeginTurn, Mutate, RunCommand, SoloInv, PassAlone
  <2>3. ProcessCalm(p)'
    BY <1>1, <1>3, <1>6, <2>1, <2>2 DEF ProcessCalm
  <2>. QED
    BY <1>2, <2>3, CalmFrom
<1>9. CASE UndoPreflight(p)
  <2>1. PICK t \in TurnId : IsLatest(t, session[p]) /\ target'[p] = t
    BY <1>9 DEF UndoPreflight, IndInv, TypeOK
  <2>2. /\ pc[p] = "idle" /\ pc'[p] = "preflighted" /\ turn[p] = 0 /\ session' = session
    BY <1>9 DEF UndoPreflight, IndInv, TypeOK
  <2>3. Newest(t)
    BY <2>1 DEF IsLatest, Undoable, Newest
  <2>4. ProcessCalm(p)'
    BY <1>1, <1>3, <1>5, <1>6, <1>7, <2>1, <2>2, <2>3 DEF ProcessCalm
  <2>. QED
    BY <1>2, <2>4, CalmFrom
<1>10. CASE UndoFile(p) \/ RecoverFile(p)
  <2>1. UNCHANGED <<pc, session, target>>
    BY <1>10 DEF UndoFile, RecoverFile
  <2>2. ProcessCalm(p)'
    BY <1>1, <1>3, <1>6, <2>1, <1>10 DEF ProcessCalm, UndoFile, RecoverFile
  <2>. QED
    BY <1>2, <2>2, CalmFrom
<1>11. CASE Start(p)
  <2>1. pc[p] = "off" /\ pc'[p] = "close"
    BY <1>11 DEF Start, IndInv, TypeOK
  <2>2. ProcessCalm(p)'
    BY <1>1, <1>3, <1>4, <1>5, <2>1 DEF ProcessCalm
  <2>. QED
    BY <1>2, <2>2, CalmFrom
<1>12. CASE RecoverList(p)
  <2>1. pc[p] = "close" /\ pc'[p] = "pick" /\ todo[p] = {}
    BY <1>12 DEF RecoverList, IndInv, TypeOK
  <2>2. Abandoned = {}
    BY <2>1 DEF SoloInv, TodoComplete
  <2>3. ProcessCalm(p)'
    BY <1>1, <1>3, <1>4, <1>5, <2>1, <2>2 DEF ProcessCalm, Abandoned
  <2>. QED
    BY <1>2, <2>3, CalmFrom
<1>13. CASE RecoverPick(p)
  <2>1. PICK u \in UndoId : PickDeleted(p, u) \/ PickPending(p, u) \/ PickResolve(p, u)
    BY <1>13 DEF RecoverPick
  <2>2. PickResolve(p, u)
    BY <2>1 DEF PickDeleted, PickPending, CalmInv, NothingFailed
  <2>3. pc[p] = "pick" /\ pc'[p] = "redo"
    BY <1>13, <2>2 DEF RecoverPick, PickResolve, IndInv, TypeOK
  <2>4. ProcessCalm(p)'
    BY <1>1, <1>3, <1>4, <1>5, <2>3 DEF ProcessCalm
  <2>. QED
    BY <1>2, <2>4, CalmFrom
<1>14. CASE RecoverDone(p)
  <2>1. /\ pc[p] = "pick" /\ pc'[p] = "idle" /\ todo[p] = {} /\ session'[p] \in Session
    BY <1>14 DEF RecoverDone, IndInv, TypeOK
  <2>2. undo[p] = 0 /\ 0 \notin UndoId
    BY <2>1 DEF SoloInv, PassAlone, Working
  <2>3. RestoringUndos = {}
    BY <2>1, <2>2 DEF SoloInv, TodoComplete, RestoringUndos, CalmInv, NothingFailed
  <2>4. ProcessCalm(p)'
    BY <1>1, <1>3, <1>4, <1>5, <1>6, <2>1, <2>3 DEF ProcessCalm
  <2>. QED
    BY <1>2, <2>4, CalmFrom
<1>15. CASE \E s \in Session : SwitchSession(p, s)
  <2>1. pc[p] = "idle" /\ pc' = pc /\ session'[p] \in Session
    BY <1>15 DEF SwitchSession, IndInv, TypeOK
  <2>2. ProcessCalm(p)'
    BY <1>1, <1>3, <1>6, <2>1 DEF ProcessCalm
  <2>. QED
    BY <1>2, <2>2, CalmFrom
<1>. QED
  BY <1>8, <1>9, <1>10, <1>11, <1>12, <1>13, <1>14, <1>15

\* A row that is inserted.
LEMMA CalmEnsureTurn ==
  ASSUME Solo, IndInv, CalmInv, NEW p \in Proc, EnsureTurn(p)
  PROVE  CalmInv'
<1>. DEFINE n == nTurns + 1
<1>1. n \in TurnId /\ turnState[n] = "none"
  BY ConstAssumption DEF EnsureTurn, IndInv, TypeOK, RowsInOrder, ConstAssumption
<1>2. /\ turnState'[n] = "open" /\ turnSession'[n] = session[p] /\ turn'[p] = n
      /\ \A t \in TurnId \ {n} : turnState'[t] = turnState[t] /\ turnSession'[t] = turnSession[t]
      /\ UNCHANGED <<blocked, pc, session, target, pre, post, undoState, undoTurn>>
  BY <1>1 DEF EnsureTurn, IndInv, TypeOK
<1>3. pc[p] = "idle" /\ turn[p] = 0 /\ session[p] \in Session /\ RestoringUndos = {} /\ 0 \notin TurnId
  BY DEF EnsureTurn, CalmInv, ProcessCalm
<1>4. \A t \in TurnId : turnState[t] # "open"
  BY <1>3 DEF CalmInv, ProcessCalm
<1>5. NothingFailed'
  BY <1>1, <1>2 DEF CalmInv, NothingFailed
<1>6. TurnsWhole'
  BY <1>1, <1>2, <1>3 DEF CalmInv, TurnsWhole, Journaled
<1>7. RestoringUndos' = {}
  BY <1>2, <1>3 DEF RestoringUndos
<1>8. UndoNewest'
  BY <1>7 DEF UndoNewest
<1>9. ProcessCalm(p)'
  BY <1>1, <1>2, <1>3, <1>4, <1>7 DEF ProcessCalm
<1>. QED
  BY <1>5, <1>6, <1>8, <1>9, CalmFrom

\* A pre-image of the open turn.
LEMMA CalmJournal ==
  ASSUME Solo, IndInv, CalmInv, NEW p \in Proc, NEW f \in File, Journal(p, f)
  PROVE  CalmInv'
<1>1. pc[p] = "idle" /\ turn[p] \in TurnId /\ turnState[turn[p]] = "open" /\ RestoringUndos = {}
  BY DEF Journal, IndInv, TypeOK, LiveTurnOpen, CalmInv, ProcessCalm
<1>2. /\ \A t \in TurnId \ {turn[p]} : pre'[t] = pre[t]
      /\ UNCHANGED <<blocked, pc, session, target, turn, turnOwner, turnState, turnSession, post, undoState, undoTurn>>
  BY <1>1 DEF Journal, IndInv, TypeOK
<1>3. NothingFailed'
  BY <1>2 DEF CalmInv, NothingFailed
<1>4. TurnsWhole'
  BY <1>1, <1>2 DEF CalmInv, TurnsWhole, Journaled
<1>5. RestoringUndos' = {}
  BY <1>1, <1>2 DEF RestoringUndos
<1>6. UndoNewest'
  BY <1>5 DEF UndoNewest
<1>7. ProcessCalm(p)'
  BY <1>1, <1>2, <1>5 DEF CalmInv, ProcessCalm
<1>. QED
  BY <1>3, <1>4, <1>6, <1>7, CalmFrom

\* A turn is closed while no undo is interrupted, by its process or by recovery.
LEMMA CalmClose ==
  ASSUME IndInv, CalmInv, NEW t \in TurnId, turnState[t] = "open", CloseTurn(t),
         UNCHANGED <<blocked, undoState, undoTurn>>
  PROVE  /\ (NothingFailed /\ TurnsWhole /\ UndoNewest)' /\ RestoringUndos' = {}
         /\ turnState'[t] = "closed" /\ \A x \in TurnId \ {t} : turnState'[x] = turnState[x]
<1>1. RestoringUndos = {}
  BY DEF CalmInv, UndoNewest
<1>2. /\ turnState'[t] = "closed"
      /\ \A x \in TurnId \ {t} : turnState'[x] = turnState[x] /\ post'[x] = post[x]
      /\ UNCHANGED <<turnSession, pre>>
  BY DEF CloseTurn, IndInv, TypeOK
<1>3. RestoringUndos' = {}
  BY <1>1 DEF RestoringUndos
<1>4. NothingFailed'
  BY <1>2 DEF CalmInv, NothingFailed
<1>5. TurnsWhole'
  BY <1>2 DEF CalmInv, TurnsWhole, Journaled
<1>6. UndoNewest'
  BY <1>3 DEF UndoNewest
<1>. QED
  BY <1>2, <1>3, <1>4, <1>5, <1>6

\* A turn that ends.
LEMMA CalmEndTurn ==
  ASSUME Solo, IndInv, CalmInv, NEW p \in Proc, EndTurn(p)
  PROVE  CalmInv'
<1>1. pc[p] = "idle" /\ pc' = pc /\ session' = session /\ RestoringUndos = {} /\ 0 \notin TurnId
  BY DEF EndTurn, CalmInv, ProcessCalm
<1>2. CASE turn[p] = 0
  <2>1. UNCHANGED <<blocked, turnState, turnSession, turnOwner, pre, post, undoState, undoTurn>> /\ turn'[p] = 0
    BY <1>2 DEF EndTurn, IndInv, TypeOK
  <2>2. (NothingFailed /\ TurnsWhole /\ UndoNewest)'
    BY <2>1, CalmRowsStand DEF CalmInv
  <2>3. ProcessCalm(p)'
    BY <1>1, <1>2, <2>1 DEF CalmInv, ProcessCalm, RestoringUndos
  <2>. QED
    BY <2>2, <2>3, CalmFrom
<1>3. CASE turn[p] # 0
  <2>1. turn[p] \in TurnId /\ turnState[turn[p]] = "open"
    BY <1>3 DEF IndInv, TypeOK, LiveTurnOpen
  <2>2. CloseTurn(turn[p]) /\ UNCHANGED <<blocked, undoState, undoTurn>>
    BY <1>3 DEF EndTurn
  <2>3. /\ (NothingFailed /\ TurnsWhole /\ UndoNewest)' /\ RestoringUndos' = {}
        /\ turnState'[turn[p]] = "closed" /\ \A x \in TurnId \ {turn[p]} : turnState'[x] = turnState[x]
    BY <2>1, <2>2, CalmClose
  <2>4. ProcessCalm(p)'
    BY <1>1, <2>1, <2>3 DEF CalmInv, ProcessCalm
  <2>. QED
    BY <2>3, <2>4, CalmFrom
<1>. QED
  BY <1>2, <1>3

\* An abandoned turn that recovery closes.
LEMMA CalmRecoverClose ==
  ASSUME Solo, IndInv, SoloInv, CalmInv, NEW p \in Proc, RecoverClose(p)
  PROVE  CalmInv'
<1>1. PICK t \in todo[p] : CloseTurn(t)
  BY DEF RecoverClose
<1>2. pc[p] = "close" /\ t \in TurnId /\ turnState[t] = "open"
  BY DEF RecoverClose, IndInv, TodoStands, SoloInv, TodoComplete, CalmInv, NothingFailed
<1>3. UNCHANGED <<blocked, undoState, undoTurn, pc, session, turn, turnOwner>>
  BY <1>1 DEF RecoverClose, CloseTurn
<1>4. /\ (NothingFailed /\ TurnsWhole /\ UndoNewest)' /\ RestoringUndos' = {}
      /\ turnState'[t] = "closed" /\ \A x \in TurnId \ {t} : turnState'[x] = turnState[x]
  BY <1>1, <1>2, <1>3, CalmClose
<1>5. ProcessCalm(p)'
  BY <1>2, <1>3, <1>4 DEF CalmInv, ProcessCalm
<1>. QED
  BY <1>4, <1>5, CalmFrom

\* The undo row.
LEMMA CalmUndoBegin ==
  ASSUME Solo, IndInv, SoloInv, CalmInv, NEW p \in Proc, UndoBegin(p)
  PROVE  CalmInv'
<1>. DEFINE u0 == nUndos + 1
<1>1. u0 \in UndoId
  BY ConstAssumption DEF UndoBegin, IndInv, TypeOK, ConstAssumption
<1>2. /\ pc[p] = "preflighted" /\ RestoringUndos = {} /\ Newest(target[p]) /\ session[p] \in Session
      /\ turn[p] = 0 /\ 0 \notin TurnId
  BY DEF UndoBegin, CalmInv, ProcessCalm, IndInv, TurnWhileIdle
<1>3. /\ pc'[p] = "restore" /\ undoState'[u0] = "restoring" /\ undoTurn'[u0] = target[p]
      /\ \A u \in UndoId \ {u0} : undoState'[u] = undoState[u]
      /\ UNCHANGED <<blocked, turnState, turnSession, turnOwner, pre, post, session, turn>>
  BY <1>1 DEF UndoBegin, IndInv, TypeOK
<1>4. RestoringUndos' = {u0}
  BY <1>1, <1>2, <1>3 DEF RestoringUndos
<1>5. \A t \in TurnId : turnState[t] # "open"
  BY <1>2 DEF CalmInv, ProcessCalm
<1>6. NothingFailed'
  BY <1>1, <1>3 DEF CalmInv, NothingFailed
<1>7. TurnsWhole'
  BY <1>3 DEF CalmInv, TurnsWhole, Journaled
<1>8. UndoNewest'
  BY <1>2, <1>3, <1>4, <1>5 DEF UndoNewest, Newest
<1>9. ProcessCalm(p)'
  BY <1>2, <1>3, <1>5 DEF ProcessCalm
<1>. QED
  BY <1>6, <1>7, <1>8, <1>9, CalmFrom

\* An undo that is decided.
LEMMA CalmCommit ==
  ASSUME Solo, IndInv, SoloInv, CalmInv, NEW p \in Proc, UndoCommit(p) \/ RecoverCommit(p)
  PROVE  CalmInv'
<1>1. /\ undo[p] \in UndoId /\ target[p] \in TurnId /\ undoTurn[undo[p]] = target[p]
      /\ pc[p] \in {"restore", "redo"}
  BY DEF UndoCommit, RecoverCommit, IndInv, PassHasRow, Working
<1>2. undoState[undo[p]] = "restoring" /\ turnState[target[p]] = "closed"
  BY <1>1 DEF UndoCommit, RecoverCommit, SoloInv, PassAlone, BackupIsPost, RestoringUndos, CalmInv, NothingFailed
<1>3. RestoringUndos = {undo[p]}
  BY <1>1, <1>2 DEF SoloInv, OneInterrupted, RestoringUndos
<1>4. /\ undoState'[undo[p]] \in {"done", "rolled_back"} /\ turnState'[target[p]] \in {"closed", "undone"}
      /\ \A u \in UndoId \ {undo[p]} : undoState'[u] = undoState[u]
      /\ \A t \in TurnId \ {target[p]} : turnState'[t] = turnState[t]
  <2>1. undoState \in [UndoId -> {"none", "restoring", "done", "rolled_back", "deleted"}]
        /\ turnState \in [TurnId -> {"none", "open", "closed", "undone", "deleted"}]
    BY DEF IndInv, TypeOK
  <2>2. CASE UndoCommit(p)
    BY <1>1, <1>2, <2>1, <2>2 DEF UndoCommit
  <2>3. CASE RecoverCommit(p)
    <3>1. undoState' = [undoState EXCEPT ![undo[p]] = IF forward[p] THEN "done" ELSE "rolled_back"]
      BY <1>2, <2>3 DEF RecoverCommit
    <3>2. turnState' = [turnState EXCEPT ![target[p]] = IF forward[p] THEN "undone" ELSE "closed"]
      BY <1>2, <2>3 DEF RecoverCommit
    <3>. QED
      BY <1>1, <2>1, <3>1, <3>2
  <2>. QED
    BY <2>2, <2>3
<1>5. /\ UNCHANGED <<blocked, turnSession, turnOwner, pre, post, undoTurn, session, turn>>
       /\ pc'[p] = IF pc[p] = "restore" THEN "idle" ELSE "pick"
  <2>1. CASE UndoCommit(p)
    BY <2>1 DEF UndoCommit, Return, IndInv, TypeOK
  <2>2. CASE RecoverCommit(p)
    BY <2>2 DEF RecoverCommit, Return, IndInv, TypeOK
  <2>. QED
    BY <2>1, <2>2
<1>6. RestoringUndos' = {}
  BY <1>3, <1>4 DEF RestoringUndos
<1>7. turn[p] = 0 /\ 0 \notin TurnId
  BY <1>1 DEF IndInv, TurnWhileIdle
<1>8. \A t \in TurnId : turnState[t] # "open"
  BY <1>1, <1>7 DEF CalmInv, ProcessCalm
<1>9. NothingFailed'
  BY <1>4, <1>5 DEF CalmInv, NothingFailed
<1>10. TurnsWhole'
  BY <1>2, <1>4, <1>5 DEF CalmInv, TurnsWhole, Journaled
<1>11. UndoNewest'
  BY <1>6 DEF UndoNewest
<1>12. ProcessCalm(p)'
  BY <1>1, <1>4, <1>5, <1>6, <1>8 DEF CalmInv, ProcessCalm
<1>. QED
  BY <1>9, <1>10, <1>11, <1>12, CalmFrom

\* The end of a process.
LEMMA CalmDies ==
  ASSUME Solo, IndInv, CalmInv, NEW p \in Proc, Dies(p)
  PROVE  CalmInv'
<1>1. /\ pc'[p] = "off" /\ turn'[p] = 0
      /\ UNCHANGED <<blocked, turnState, turnSession, pre, post, undoState, undoTurn>>
  BY DEF Dies, Return, IndInv, TypeOK
<1>2. \A t \in TurnId : turnState[t] = "open" => turnOwner'[t] = Gone
  BY DEF Dies, CalmInv, ProcessCalm, IndInv, LiveTurnOpen, TypeOK
<1>3. (NothingFailed /\ TurnsWhole /\ UndoNewest)'
  BY <1>1, CalmRowsStand DEF CalmInv
<1>4. ProcessCalm(p)'
  BY <1>1, <1>2 DEF ProcessCalm
<1>. QED
  BY <1>3, <1>4, CalmFrom

\* An edit, or nothing at all.
LEMMA CalmElse ==
  ASSUME Solo, IndInv, CalmInv, (\E f \in File, v \in Value : Edit(f, v)) \/ UNCHANGED vars
  PROVE  CalmInv'
<1>1. UNCHANGED <<blocked, turnState, turnSession, turnOwner, pre, post, undoState, undoTurn, pc, session,
                  turn, target>>
  BY DEF Edit
<1>2. (NothingFailed /\ TurnsWhole /\ UndoNewest)'
  BY <1>1, CalmRowsStand DEF CalmInv
<1>3. ASSUME NEW p \in Proc PROVE ProcessCalm(p)'
  BY <1>1 DEF CalmInv, ProcessCalm, Newest, RestoringUndos
<1>. QED
  BY <1>2, <1>3 DEF CalmInv

\* Where nothing fails, the steps are these.
LEMMA CalmSteps ==
  ASSUME Calm, IndInv, CalmInv, [Next]_vars
  PROVE  \/ \E p \in Proc :
              \/ BeginTurn(p) \/ EnsureTurn(p) \/ EndTurn(p) \/ (\E f \in File : Journal(p, f))
              \/ (\E c \in Content : Mutate(p, c)) \/ (\E f \in File, v \in Value : RunCommand(p, f, v))
              \/ UndoPreflight(p) \/ UndoBegin(p) \/ UndoFile(p) \/ UndoCommit(p)
              \/ Start(p) \/ RecoverClose(p) \/ RecoverList(p) \/ RecoverPick(p) \/ RecoverFile(p)
              \/ RecoverCommit(p) \/ RecoverDone(p) \/ Dies(p)
              \/ (\E s \in Session : SwitchSession(p, s))
         \/ \E f \in File, v \in Value : Edit(f, v)
         \/ UNCHANGED vars
<1>1. CASE \E p \in Proc : TurnStep(p)
  <2>1. PICK p \in Proc : TurnStep(p)
    BY <1>1
  <2>2. ~MutateFails(p) /\ ~EndTurnFails(p)
    BY CalmDisables
  <2>. QED
    BY <2>1, <2>2 DEF TurnStep
<1>2. CASE \E p \in Proc : RecoveryStep(p)
  BY <1>2 DEF RecoveryStep
<1>3. CASE \E p \in Proc : UndoStep(p)
  BY <1>3, CalmDisables DEF UndoStep
<1>4. CASE \E p \in Proc : FailStep(p) \/ Exit(p)
  <2>1. PICK p \in Proc : Crash(p) \/ Exit(p)
    BY <1>4, CalmDisables
  <2>. QED
    BY <2>1 DEF Crash, Exit
<1>5. CASE World
  <2>1. (\A f \in File : ~SwapLink(f)) /\ (\A s \in Session : ~DeleteSession(s))
    BY DEF SwapLink, DeleteSession, Calm, IndInv, TypeOK
  <2>. QED
    BY <1>5, <2>1 DEF World
<1>. QED
  BY <1>1, <1>2, <1>3, <1>4, <1>5 DEF Next

\* CalmInv holds at first.
LEMMA CalmInit == Init => CalmInv
  BY DEF Init, CalmInv, NothingFailed, TurnsWhole, UndoNewest, ProcessCalm, RestoringUndos, Journaled

\* It is kept by every step.
LEMMA CalmNext ==
  ASSUME Solo, Calm, IndInv, SoloInv, CalmInv, [Next]_vars
  PROVE  CalmInv'
  BY CalmSteps, CalmQuietRows, CalmEnsureTurn, CalmJournal, CalmEndTurn, CalmRecoverClose, CalmUndoBegin,
     CalmCommit, CalmDies, CalmElse

\* One process to which nothing but its own end happens keeps CalmInv.
THEOREM CalmInvariant == ASSUME Solo, Calm PROVE Spec => []CalmInv
<1>1. IndInv /\ SoloInv /\ CalmInv /\ [Next]_vars => CalmInv'
  BY CalmNext
<1>. QED
  BY Inductive, SoloInvariant, CalmInit, <1>1, PTL DEF Spec

\* An undo that ends is that of the latest turn.
LEMMA LatestStep ==
  ASSUME Solo, IndInv, SoloInv, CalmInv, [Next]_vars, NEW t \in TurnId, Becomes(turnState, t, "undone"),
         NEW x \in TurnId, x > t, turnSession[x] = turnSession[t]
  PROVE  turnState[x] \in {"undone", "deleted"} \/ Journaled(x) = {}
<1>1. PICK p \in Proc : t = target[p] /\ (UndoCommit(p) \/ (RecoverCommit(p) /\ forward[p]))
  BY UndoneByCommit
<1>2. undo[p] \in UndoId /\ undoTurn[undo[p]] = t /\ pc[p] \in {"restore", "redo"}
  BY <1>1 DEF UndoCommit, RecoverCommit, IndInv, PassHasRow, Working
<1>3. undo[p] \in RestoringUndos
  BY <1>2 DEF RestoringUndos, SoloInv, PassAlone, CalmInv, NothingFailed
<1>4. turnState[x] \notin {"closed", "open"}
  BY <1>2, <1>3 DEF CalmInv, UndoNewest, Newest
<1>. QED
  BY <1>4 DEF IndInv, TypeOK, CalmInv, TurnsWhole

\* /undo, and the recovery of one, undoes a turn only when no later turn of its conversation
\* still has its changes in place (undo_last, latest_undoable).
THEOREM UndosAreLatest == ASSUME Solo, Calm PROVE Spec => UndoIsLatest
<1>1. IndInv /\ SoloInv /\ CalmInv /\ [Next]_vars =>
        [\A t \in TurnId : Becomes(turnState, t, "undone") =>
           \A x \in TurnId : x > t /\ turnSession[x] = turnSession[t] =>
             turnState[x] \in {"undone", "deleted"} \/ Journaled(x) = {}]_vars
  BY LatestStep
<1>. QED
  BY Inductive, SoloInvariant, CalmInvariant, <1>1, PTL DEF Spec, UndoIsLatest

-----------------------------------------------------------------------------
(* The refinement: what the atomic undo sees of a file *)

\* Without an interrupted undo, the file itself, before and after a step.
LEMMA PlainFiles ==
  ASSUME IndInv
  PROVE  /\ RestoringUndos = {} => AtomicFile = fs
         /\ RestoringUndos' = {} /\ IndInv' => AtomicFile' = fs'
<1>1. fs = [f \in File |-> fs[f]] /\ (IndInv' => fs' = [f \in File |-> fs'[f]])
  BY DEF IndInv, TypeOK
<1>2. RestoringUndos = {} => AtomicFile = fs
  BY <1>1 DEF AtomicFile
<1>3. RestoringUndos' = {} /\ IndInv' => AtomicFile' = fs'
  BY <1>1 DEF AtomicFile
<1>. QED
  BY <1>2, <1>3

\* What a file of an interrupted undo counts as.
Counts(u, f) ==
  IF f \in Journaled(undoTurn[u]) /\ fs[f] \in {pre[undoTurn[u]][f], backup[u][f]}
  THEN backup[u][f] ELSE fs[f]

\* With one interrupted undo, its backup where the file is one of the two the undo knows.
LEMMA UndoFiles ==
  ASSUME NEW u \in UndoId
  PROVE  /\ RestoringUndos = {u} => AtomicFile = [f \in File |-> Counts(u, f)]
         /\ RestoringUndos' = {u} => AtomicFile' = [f \in File |-> Counts(u, f)']
<1>1. (CHOOSE v \in {u} : TRUE) = u
  OBVIOUS
<1>2. RestoringUndos = {u} => AtomicFile = [f \in File |-> Counts(u, f)]
  BY <1>1 DEF AtomicFile, Counts
<1>3. RestoringUndos' = {u} => AtomicFile' = [f \in File |-> Counts(u, f)']
  BY <1>1 DEF AtomicFile, Counts
<1>. QED
  BY <1>2, <1>3

\* The first state.
LEMMA AtomicInit == Init => Atomic!Init
<1>. SUFFICES ASSUME Init PROVE Atomic!Init
  OBVIOUS
<1>1. RestoringUndos = {}
  BY DEF Init, RestoringUndos
<1>2. AtomicFile = [f \in File |-> fs[f]]
  BY <1>1 DEF AtomicFile
<1>3. AtomicFile \in [File -> Value]
  BY <1>2 DEF Init
<1>. QED
  BY <1>3 DEF Atomic!Init, Init

\* Steps the atomic undo does not see: the files and the rows it knows stay.
LEMMA Unseen ==
  ASSUME AtomicFile' = AtomicFile, UNCHANGED <<turnState, turnSession, pre, post, writes>>
  PROVE  UNCHANGED Atomic!vars
  BY DEF Atomic!vars

\* Steps that touch neither files nor rows.
LEMMA QuietUnseen ==
  ASSUME UNCHANGED <<fs, turnState, turnSession, pre, post, undoState, undoTurn, backup, writes>>
  PROVE  UNCHANGED Atomic!vars
<1>1. AtomicFile' = AtomicFile
  BY DEF AtomicFile, RestoringUndos, Journaled
<1>. QED
  BY <1>1, Unseen

\* A file a process changes while no undo is interrupted: by a tool or a command.
LEMMA ToolIsChange ==
  ASSUME IndInv, IndInv', CalmInv, SoloInv, NEW p \in Proc,
         (\E c \in Content : Mutate(p, c)) \/ (\E f \in File, v \in Value : RunCommand(p, f, v))
  PROVE  Atomic!Next
<1>1. RestoringUndos = {} /\ RestoringUndos' = {}
  BY DEF Mutate, RunCommand, SoloInv, PassAlone, CalmInv, ProcessCalm, RestoringUndos
<1>2. AtomicFile = fs /\ AtomicFile' = fs'
  BY <1>1, PlainFiles
<1>3. PICK f \in File, v \in Value : fs' = [fs EXCEPT ![f] = v]
  BY DEF Mutate, RunCommand, IndInv, TypeOK
<1>4. UNCHANGED <<turnState, turnSession, pre, post>> /\ writes' = writes + 1
  BY DEF Mutate, RunCommand
<1>5. Atomic!Change(f, v)
  BY <1>2, <1>3, <1>4 DEF Atomic!Change
<1>. QED
  BY <1>5 DEF Atomic!Next

\* A file another program changes, which may be one of an interrupted undo.
LEMMA EditIsChange ==
  ASSUME IndInv, IndInv', SoloInv, NEW f \in File, NEW v \in Value, Edit(f, v)
  PROVE  Atomic!Next
<1>1. /\ fs' = [fs EXCEPT ![f] = v] /\ writes' = writes + 1 /\ fs \in [File -> Value]
      /\ UNCHANGED <<turnState, turnSession, pre, post, undoState, undoTurn, backup>>
  BY DEF Edit, IndInv, TypeOK
<1>2. RestoringUndos' = RestoringUndos
  BY <1>1 DEF RestoringUndos
<1>3. \E w \in Value : AtomicFile' = [AtomicFile EXCEPT ![f] = w]
  <2>1. CASE RestoringUndos = {}
    BY <1>1, <1>2, <2>1, PlainFiles
  <2>2. CASE RestoringUndos # {}
    <3>1. PICK u \in UndoId : RestoringUndos = {u}
      BY <2>2 DEF SoloInv, OneInterrupted, RestoringUndos
    <3>2. /\ AtomicFile = [g \in File |-> Counts(u, g)]
          /\ AtomicFile' = [g \in File |-> Counts(u, g)']
      BY <1>2, <3>1, UndoFiles
    <3>3. \A g \in File \ {f} : Counts(u, g)' = Counts(u, g)
      BY <1>1 DEF Counts, Journaled
    <3>4. Counts(u, f)' \in Value
      <4>1. undoState[u] = "restoring"
        BY <3>1 DEF RestoringUndos
      <4>0. backup \in [UndoId -> [File -> Value \cup {None}]]
        BY DEF IndInv, TypeOK
      <4>2. f \in Journaled(undoTurn[u]) => backup[u][f] \in Value
        BY <4>0, <4>1 DEF IndInv, UndoRowsComplete
      <4>3. fs'[f] \in Value
        BY <1>1
      <4>. QED
        BY <1>1, <4>2, <4>3 DEF Counts, Journaled
    <3>5. AtomicFile' = [AtomicFile EXCEPT ![f] = Counts(u, f)']
      BY <3>2, <3>3
    <3>. QED
      BY <3>4, <3>5
  <2>. QED
    BY <2>1, <2>2
<1>4. \E w \in Value : Atomic!Change(f, w)
  BY <1>1, <1>3 DEF Atomic!Change
<1>. QED
  BY <1>4 DEF Atomic!Next

\* The row of a turn is inserted.
LEMMA EnsureTurnIsOpen ==
  ASSUME IndInv, IndInv', CalmInv, NEW p \in Proc, EnsureTurn(p)
  PROVE  Atomic!Next
<1>. DEFINE n == nTurns + 1
<1>1. n \in TurnId /\ turnState[n] = "none"
  BY ConstAssumption DEF EnsureTurn, IndInv, TypeOK, RowsInOrder, ConstAssumption
<1>2. session[p] \in Session
  BY DEF EnsureTurn, CalmInv, ProcessCalm
<1>3. AtomicFile' = AtomicFile
  BY DEF EnsureTurn, AtomicFile, RestoringUndos, Journaled
<1>4. Atomic!Open(n, session[p])
  BY <1>1, <1>3 DEF Atomic!Open, EnsureTurn
<1>. QED
  BY <1>1, <1>2, <1>4 DEF Atomic!Next

\* A pre-image is stored, unless the turn has one.
LEMMA JournalIsSave ==
  ASSUME IndInv, IndInv', CalmInv, NEW p \in Proc, NEW f \in File, Journal(p, f)
  PROVE  Atomic!Next \/ UNCHANGED Atomic!vars
<1>1. turn[p] \in TurnId /\ turnState[turn[p]] = "open" /\ pre \in [TurnId -> [File -> Value \cup {None}]]
  BY DEF Journal, IndInv, TypeOK, LiveTurnOpen
<1>2. RestoringUndos = {} /\ RestoringUndos' = {}
  BY DEF Journal, CalmInv, ProcessCalm, RestoringUndos
<1>3. AtomicFile = fs /\ AtomicFile' = fs'
  BY <1>2, PlainFiles
<1>4. /\ UNCHANGED <<fs, turnState, turnSession, post, writes>>
      /\ pre' = [pre EXCEPT ![turn[p]][f] = IF @ = None THEN fs[f] ELSE @]
  BY DEF Journal
<1>5. CASE pre[turn[p]][f] = None
  <2>1. Atomic!Save(turn[p], f)
    BY <1>1, <1>3, <1>4, <1>5 DEF Atomic!Save
  <2>. QED
    BY <1>1, <2>1 DEF Atomic!Next
<1>6. CASE pre[turn[p]][f] # None
  <2>1. pre' = pre
    BY <1>1, <1>4, <1>6
  <2>. QED
    BY <1>3, <1>4, <2>1, Unseen
<1>. QED
  BY <1>5, <1>6

\* A turn is closed, by its process or by the next start.
LEMMA CloseIsClose ==
  ASSUME IndInv, IndInv', CalmInv, NEW t \in TurnId, turnState[t] = "open", CloseTurn(t),
         UNCHANGED <<fileVars, undoRows, writes>>
  PROVE  Atomic!Next
<1>1. RestoringUndos = {} /\ RestoringUndos' = {}
  BY DEF CalmInv, UndoNewest, RestoringUndos
<1>2. AtomicFile = fs /\ AtomicFile' = fs
  BY <1>1, PlainFiles
<1>3. /\ \A f \in File : Digest(f) = fs[f] /\ post[t][f] = None
      /\ post' = [post EXCEPT ![t] = [f \in File |-> IF f \in Journaled(t) THEN Digest(f) ELSE post[t][f]]]
  BY DEF CalmInv, TurnsWhole, NothingFailed, Digest, CloseTurn
<1>4. Atomic!Saved(t) = Journaled(t)
  BY DEF Atomic!Saved, Journaled
<1>5. post' = [post EXCEPT ![t] = [f \in File |-> IF f \in Atomic!Saved(t) THEN fs[f] ELSE None]]
  BY <1>3, <1>4
<1>6. Atomic!Close(t)
  BY <1>2, <1>5 DEF Atomic!Close, CloseTurn
<1>. QED
  BY <1>6 DEF Atomic!Next

\* An undo begins: nothing is restored yet.
LEMMA UndoBeginUnseen ==
  ASSUME IndInv, IndInv', CalmInv, NEW p \in Proc, UndoBegin(p)
  PROVE  UNCHANGED Atomic!vars
<1>1. PICK u0 \in UndoId : u0 = nUndos + 1
  BY ConstAssumption DEF UndoBegin, IndInv, TypeOK, ConstAssumption
<1>2. RestoringUndos = {} /\ target[p] \in TurnId
  BY DEF UndoBegin, CalmInv, ProcessCalm, IndInv, PassHasRow
<1>3. /\ undoState'[u0] = "restoring" /\ undoTurn'[u0] = target[p]
      /\ backup'[u0] = [f \in File |-> IF f \in Journaled(target[p]) THEN fs[f] ELSE None]
      /\ \A u \in UndoId \ {u0} : undoState'[u] = undoState[u]
      /\ UNCHANGED <<fs, turnState, turnSession, pre, post, writes>>
  BY <1>1 DEF UndoBegin, IndInv, TypeOK
<1>4. RestoringUndos' = {u0}
  BY <1>1, <1>2, <1>3 DEF RestoringUndos
<1>5. AtomicFile = fs
  BY <1>2, PlainFiles
<1>6. AtomicFile' = [f \in File |-> Counts(u0, f)']
  BY <1>1, <1>4, UndoFiles
<1>7. \A f \in File : Counts(u0, f)' = fs[f]
  BY <1>3 DEF Counts, Journaled
<1>8. AtomicFile' = fs
  BY <1>6, <1>7 DEF IndInv, TypeOK
<1>. QED
  BY <1>3, <1>5, <1>8, Unseen

\* The undo of a process at work is the interrupted one.
LEMMA UndoAtWork ==
  ASSUME IndInv, SoloInv, CalmInv, NEW p \in Proc, pc[p] \in {"restore", "redo"}
  PROVE  /\ undo[p] \in UndoId /\ target[p] \in TurnId /\ undoTurn[undo[p]] = target[p]
         /\ RestoringUndos = {undo[p]} /\ undoState[undo[p]] = "restoring"
         /\ turnState[target[p]] = "closed"
         /\ \A f \in Journaled(target[p]) : backup[undo[p]][f] = post[target[p]][f]
         /\ left[p] \subseteq Journaled(target[p])
<1>1. /\ undo[p] \in UndoId /\ target[p] \in TurnId /\ undoTurn[undo[p]] = target[p]
      /\ left[p] \subseteq Journaled(target[p])
  BY DEF IndInv, PassHasRow, Working
<1>2. undoState[undo[p]] = "restoring"
  BY <1>1 DEF SoloInv, PassAlone, CalmInv, NothingFailed
<1>3. RestoringUndos = {undo[p]}
  BY <1>1, <1>2 DEF SoloInv, OneInterrupted, RestoringUndos
<1>4. /\ turnState[target[p]] = "closed"
      /\ \A f \in Journaled(target[p]) : backup[undo[p]][f] = post[target[p]][f]
  BY <1>1, <1>3 DEF SoloInv, BackupIsPost
<1>. QED
  BY <1>1, <1>2, <1>3, <1>4

\* A file of it is written: it counts as its backup before and after.
LEMMA UndoFileUnseen ==
  ASSUME IndInv, SoloInv, CalmInv, NEW p \in Proc, UndoFile(p) \/ RecoverFile(p)
  PROVE  UNCHANGED Atomic!vars
<1>0. pc[p] \in {"restore", "redo"}
  BY DEF UndoFile, RecoverFile
<1>1. PICK u \in UndoId, t \in TurnId : u = undo[p] /\ t = target[p]
  BY <1>0, UndoAtWork
<1>2. /\ u \in UndoId /\ undoTurn[u] = t /\ RestoringUndos = {u} /\ undoState[u] = "restoring"
      /\ \A f \in Journaled(t) : backup[u][f] = post[t][f]
      /\ left[p] \subseteq Journaled(t)
  BY <1>0, <1>1, UndoAtWork
<1>3. UNCHANGED <<turnState, turnSession, pre, post, writes, undoState, undoTurn, backup>>
  BY DEF UndoFile, RecoverFile
<1>4. PICK f \in left[p] : /\ fs' = [fs EXCEPT ![f] = IF pc[p] = "restore" \/ forward[p] THEN pre[t][f]
                                                   ELSE backup[u][f]]
  BY <1>1, <1>2 DEF UndoFile, RecoverFile
<1>5. f \in Journaled(t) /\ fs[f] \in {pre[t][f], backup[u][f]}
  <2>1. CASE pc[p] = "restore" \/ forward[p]
    BY <1>0, <1>1, <1>2, <1>4, <2>1 DEF SoloInv, PassFiles
  <2>2. CASE ~(pc[p] = "restore" \/ forward[p])
    BY <1>0, <1>1, <1>2, <1>4, <2>2 DEF SoloInv, PassFiles
  <2>. QED
    BY <2>1, <2>2
<1>6. f \in File /\ fs \in [File -> Value]
  BY <1>5 DEF Journaled, IndInv, TypeOK
<1>7. RestoringUndos' = {u}
  BY <1>2, <1>3 DEF RestoringUndos
<1>8. AtomicFile = [g \in File |-> Counts(u, g)] /\ AtomicFile' = [g \in File |-> Counts(u, g)']
  BY <1>2, <1>7, UndoFiles
<1>9. ASSUME NEW g \in File \ {f} PROVE Counts(u, g)' = Counts(u, g)
  BY <1>3, <1>4, <1>6 DEF Counts, Journaled
<1>10. Counts(u, f)' = backup[u][f] /\ Counts(u, f) = backup[u][f]
  <2>1. fs'[f] \in {pre[t][f], backup[u][f]}
    BY <1>4, <1>6
  <2>. QED
    BY <1>2, <1>3, <1>5, <2>1 DEF Counts, Journaled
<1>11. AtomicFile' = AtomicFile
  BY <1>8, <1>9, <1>10
<1>. QED
  BY <1>3, <1>11, Unseen

\* An undo is decided: all its files change at once, or none.
LEMMA CommitIsUndo ==
  ASSUME IndInv, IndInv', SoloInv, CalmInv, NEW p \in Proc, UndoCommit(p) \/ RecoverCommit(p)
  PROVE  Atomic!Next \/ UNCHANGED Atomic!vars
<1>0. pc[p] \in {"restore", "redo"} /\ left[p] = {}
  BY DEF UndoCommit, RecoverCommit
<1>1. PICK u \in UndoId, t \in TurnId : u = undo[p] /\ t = target[p]
  BY <1>0, UndoAtWork
<1>2. /\ u \in UndoId /\ t \in TurnId /\ undoTurn[u] = t /\ RestoringUndos = {u}
      /\ undoState[u] = "restoring" /\ turnState[t] = "closed"
      /\ \A f \in Journaled(t) : backup[u][f] = post[t][f]
  BY <1>0, <1>1, UndoAtWork
<1>3. UNCHANGED <<fs, turnSession, pre, post, writes>>
  BY DEF UndoCommit, RecoverCommit
<1>4. undoState \in [UndoId -> {"none", "restoring", "done", "rolled_back", "deleted"}]
  BY DEF IndInv, TypeOK
<1>5. RestoringUndos' = {}
  <2>1. undoState'[u] # "restoring" /\ \A x \in UndoId \ {u} : undoState'[x] = undoState[x]
    <3>1. CASE UndoCommit(p)
      BY <1>1, <1>2, <1>4, <3>1 DEF UndoCommit
    <3>2. CASE RecoverCommit(p)
      BY <1>1, <1>2, <1>4, <3>2 DEF RecoverCommit
    <3>. QED
      BY <3>1, <3>2
  <2>. QED
    BY <1>2, <2>1 DEF RestoringUndos
<1>6. AtomicFile = [f \in File |-> Counts(u, f)] /\ AtomicFile' = fs
  BY <1>2, <1>3, <1>5, UndoFiles, PlainFiles
<1>7. fs = [f \in File |-> fs[f]]
  BY DEF IndInv, TypeOK
<1>8. CASE pc[p] = "restore" \/ forward[p]
  <2>1. \A f \in Journaled(t) : fs[f] = pre[t][f]
    BY <1>0, <1>1, <1>8 DEF SoloInv, PassFiles
  <2>2. \A f \in File : AtomicFile[f] = IF f \in Journaled(t) THEN post[t][f] ELSE fs[f]
    BY <1>2, <1>6, <2>1 DEF Counts
  <2>3. Atomic!Saved(t) = Journaled(t)
    BY DEF Atomic!Saved, Journaled
  <2>4. AtomicFile' = [f \in File |-> IF f \in Atomic!Saved(t) THEN pre[t][f] ELSE AtomicFile[f]]
    BY <1>6, <1>7, <2>1, <2>2, <2>3
  <2>5. turnState' = [turnState EXCEPT ![t] = "undone"]
    BY <1>0, <1>1, <1>2, <1>8 DEF UndoCommit, RecoverCommit
  <2>6. \A x \in TurnId : x > t /\ turnSession[x] = turnSession[t] => turnState[x] # "closed"
    BY <1>2 DEF CalmInv, UndoNewest, Newest
  <2>7. \A f \in Atomic!Saved(t) : AtomicFile[f] = post[t][f]
    BY <2>2, <2>3 DEF Journaled
  <2>8. Atomic!Undo(t)
    BY <1>2, <1>3, <2>4, <2>5, <2>6, <2>7 DEF Atomic!Undo
  <2>. QED
    BY <1>2, <2>8 DEF Atomic!Next
<1>9. CASE ~(pc[p] = "restore" \/ forward[p])
  <2>1. turnState' = turnState
    <3>1. RecoverCommit(p) /\ ~forward[p]
      BY <1>9 DEF UndoCommit
    <3>2. turnState' = [turnState EXCEPT ![t] = turnState[t]]
      BY <1>1, <3>1 DEF RecoverCommit
    <3>3. turnState \in [TurnId -> {"none", "open", "closed", "undone", "deleted"}]
      BY DEF IndInv, TypeOK
    <3>. QED
      BY <3>2, <3>3
  <2>2. \A f \in Differing(t) : fs[f] # pre[t][f]
    BY <1>0, <1>1, <1>2, <1>9 DEF SoloInv, PassFiles
  <2>3. \A f \in File : Counts(u, f) = fs[f]
    BY <1>2, <2>2 DEF Counts, Differing
  <2>4. AtomicFile' = AtomicFile
    BY <1>6, <1>7, <2>3
  <2>. QED
    BY <1>3, <2>1, <2>4, Unseen
<1>. QED
  BY <1>8, <1>9

\* Every step of the store is a step of the atomic undo or none it sees.
LEMMA AtomicNext ==
  ASSUME Calm, IndInv, IndInv', SoloInv, CalmInv, [Next]_vars
  PROVE  [Atomic!Next]_(Atomic!vars)
<1>1. ASSUME NEW p \in Proc,
             \/ BeginTurn(p) \/ UndoPreflight(p) \/ Start(p) \/ RecoverList(p) \/ RecoverPick(p)
             \/ RecoverDone(p) \/ Dies(p) \/ \E s \in Session : SwitchSession(p, s)
      PROVE  UNCHANGED Atomic!vars
  BY <1>1, QuietUnseen DEF BeginTurn, UndoPreflight, Start, RecoverList, RecoverPick, RecoverDone, Dies,
     SwitchSession
<1>2. ASSUME NEW p \in Proc, EndTurn(p) PROVE Atomic!Next \/ UNCHANGED Atomic!vars
  <2>1. CASE turn[p] = 0
    BY <1>2, <2>1, QuietUnseen DEF EndTurn
  <2>2. CASE turn[p] # 0
    <3>1. turn[p] \in TurnId /\ turnState[turn[p]] = "open"
      BY <2>2 DEF IndInv, TypeOK, LiveTurnOpen
    <3>. QED
      BY <1>2, <2>2, <3>1, CloseIsClose DEF EndTurn
  <2>. QED
    BY <2>1, <2>2
<1>3. ASSUME NEW p \in Proc, RecoverClose(p) PROVE Atomic!Next
  <2>1. PICK t \in todo[p] : CloseTurn(t)
    BY <1>3 DEF RecoverClose
  <2>2. t \in TurnId /\ turnState[t] = "open"
    BY <1>3 DEF RecoverClose, IndInv, TodoStands, SoloInv, TodoComplete, CalmInv, NothingFailed
  <2>3. UNCHANGED <<fileVars, undoRows, writes>>
    BY <1>3 DEF RecoverClose
  <2>. QED
    BY <2>1, <2>2, <2>3, CloseIsClose
<1>4. CASE UNCHANGED vars
  BY <1>4, QuietUnseen
<1>. QED
  BY <1>1, <1>2, <1>3, <1>4, CalmSteps, EnsureTurnIsOpen, JournalIsSave, ToolIsChange, EditIsChange,
     UndoBeginUnseen, UndoFileUnseen, CommitIsUndo

\* Checkpoints implements AtomicUndo: whatever the crashes and restarts of the process, a turn
\* is undone in one step seen from outside, or not at all (ImplementsAtomicUndo of the runs).
THEOREM Refinement == ASSUME Solo, Calm PROVE Spec => ImplementsAtomicUndo
<1>1. IndInv /\ IndInv' /\ SoloInv /\ CalmInv /\ [Next]_vars => [Atomic!Next]_(Atomic!vars)
  BY AtomicNext
<1>. QED
  BY Inductive, SoloInvariant, CalmInvariant, AtomicInit, <1>1, PTL
     DEF Spec, ImplementsAtomicUndo, Atomic!Spec
================================================================================
