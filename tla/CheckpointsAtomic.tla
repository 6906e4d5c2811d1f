-------------------------- MODULE CheckpointsAtomic --------------------------
(***************************************************************************)
(* The journal, the undo and the recovery of Checkpoints implement the     *)
(* atomic undo of AtomicUndo, for one process that crashes and restarts.   *)
(***************************************************************************)
EXTENDS Checkpoints

\* While an undo is in the 'restoring' state its files count as what they were
\* when it began, whether they were restored yet or not, unless something else
\* put another content there; they all change when the undo is resolved.
AtomicFile ==
  [f \in File |->
     IF \E u \in RestoringUndos : f \in Journaled(undoTurn[u])
                                  /\ fs[f] \in {pre[undoTurn[u]][f], backup[u][f]}
     THEN backup[CHOOSE u \in RestoringUndos : TRUE][f] ELSE fs[f]]

Atomic == INSTANCE AtomicUndo WITH
            file <- AtomicFile, state <- turnState, session <- turnSession,
            saved <- pre, final <- post, changes <- writes

\* Wherever a process is cut off in an undo or in the recovery of one, a turn is undone
\* only as a whole and only while nothing else changed its files: every behaviour
\* of the store is one of the atomic undo (undo_last, _restore, _recover_undo).
ImplementsAtomicUndo == Atomic!Spec
=============================================================================
