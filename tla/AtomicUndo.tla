----------------------------- MODULE AtomicUndo -----------------------------
(***************************************************************************)
(* What /undo promises: the files a turn changed go back to what they were *)
(* before it, all in one step and only while all of them still hold what   *)
(* the turn left; otherwise nothing changes.  There is no crash, no        *)
(* half-done undo and no recovery here: Checkpoints has them, and          *)
(* CheckpointsAtomic maps its states to the states of this module.         *)
(***************************************************************************)
EXTENDS Naturals

CONSTANTS File, Value, TurnId, Session, None

VARIABLES
  file,     \* content of every file
  state,    \* none, open, closed or undone, for every turn
  session,  \* conversation a turn belongs to, None before it is opened
  saved,    \* content a file had when the turn first touched it, or None
  final,    \* content a saved file had when the turn ended, or None
  changes   \* how many changes were made, by tools, commands and other programs

vars == <<file, state, session, saved, final, changes>>

Saved(t) == {f \in File : saved[t][f] # None}

Init ==
  /\ file \in [File -> Value]
  /\ state = [t \in TurnId |-> "none"]
  /\ session = [t \in TurnId |-> None]
  /\ saved = [t \in TurnId |-> [f \in File |-> None]]
  /\ final = [t \in TurnId |-> [f \in File |-> None]]
  /\ changes = 0

Change(f, v) ==
  /\ file' = [file EXCEPT ![f] = v]
  /\ changes' = changes + 1
  /\ UNCHANGED <<state, session, saved, final>>

Open(t, s) ==
  /\ state[t] = "none"
  /\ state' = [state EXCEPT ![t] = "open"]
  /\ session' = [session EXCEPT ![t] = s]
  /\ UNCHANGED <<file, saved, final, changes>>

Save(t, f) ==
  /\ state[t] = "open" /\ saved[t][f] = None
  /\ saved' = [saved EXCEPT ![t][f] = file[f]]
  /\ UNCHANGED <<file, state, session, final, changes>>

Close(t) ==
  /\ state[t] = "open"
  /\ state' = [state EXCEPT ![t] = "closed"]
  /\ final' = [final EXCEPT ![t] = [f \in File |-> IF f \in Saved(t) THEN file[f] ELSE None]]
  /\ UNCHANGED <<file, session, saved, changes>>

\* the last closed turn of its conversation, untouched since, goes as a whole
Undo(t) ==
  /\ state[t] = "closed"
  /\ \A x \in TurnId : x > t /\ session[x] = session[t] => state[x] # "closed"
  /\ \A f \in Saved(t) : file[f] = final[t][f]
  /\ file' = [f \in File |-> IF f \in Saved(t) THEN saved[t][f] ELSE file[f]]
  /\ state' = [state EXCEPT ![t] = "undone"]
  /\ UNCHANGED <<session, saved, final, changes>>

Next ==
  \/ \E f \in File, v \in Value : Change(f, v)
  \/ \E t \in TurnId : Close(t) \/ Undo(t) \/ (\E s \in Session : Open(t, s)) \/ \E f \in File : Save(t, f)

Spec == Init /\ [][Next]_vars
=============================================================================
