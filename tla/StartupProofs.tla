----------------------------- MODULE StartupProofs -----------------------------
(***************************************************************************)
(* What starting and running a process promises, for any number of         *)
(* sessions, any versions of the files and any settings: what a            *)
(* conversation is sent under (SessionIdentity), the settings in force     *)
(* (Settings), the lines that are confirmed (CommandLine), all inside      *)
(* Startup.  The second part: what a conversation shows is true            *)
(* (Transcript).                                                           *)
(***************************************************************************)
EXTENDS Startup, Transcript, FiniteSetTheorems, SequenceTheorems, WellFoundedInduction, TLAPS

(* What is sent was stored, a process holds what is stored, and a session   *)
(* has a role to keep only once it has a row and a process works by it.     *)
SentIsSaved == \A s \in Session : sent[s] # None => LastingOf(saved[s]) = sent[s].lasting
CacheIsSaved ==
  win # None => \A s \in Session : win.cache[s] # None => win.cache[s].lasting = LastingOf(saved[s])
KeptIsSaved == \A s \in Session : kept[s] # None => s \in row /\ saved[s].role = kept[s]
WindowKeeps ==
  win # None /\ win.sid # None =>
    win.sid \in row /\ (win.override = None /\ kept[win.sid] # None => win.role = kept[win.sid])
IInv == IdentityTypeOK /\ OneRole /\ SentIsSaved /\ CacheIsSaved /\ KeptIsSaved /\ WindowKeeps

(* A change of what a session is sent under, or of its role.                *)
StepStands ==
  \A s \in Session : sent[s] # None /\ sent'[s] # sent[s] =>
    sent'[s] = [sent[s] EXCEPT !.role = kept'[s]] /\ (kept[s] # sent[s].role \/ win.override # None)
StepKeeps ==
  \A s \in Session : sent'[s] # None /\ win' # None /\ win'.sid = s /\ kept'[s] # kept[s] /\ kept[s] # None =>
    win.override # None \/ win'.role # win.role

-----------------------------------------------------------------------------
(* Taking a snapshot keeps the type of the state and whatever it has.       *)
LEMMA SnapshotKeeps ==
  ASSUME IdentityTypeOK, NEW state \in State, NEW mode \in Mode
  PROVE  /\ Voice(mode) \in 0..MaxSoul /\ Template(mode) \in 0..MaxSoul
         /\ SoulAfter(state, mode) \in 0..MaxSoul
         /\ Snapshot(state, mode) \in State /\ Loaded(state, mode) \in State
         /\ Snapshot(state, mode).role = state.role /\ Loaded(state, mode).role = state.role
         /\ LastingOf(Loaded(state, mode)) \in Lasting
         /\ LastingOf(state) \in Lasting =>
              LastingOf(Snapshot(state, mode)) = LastingOf(state) /\ LastingOf(Loaded(state, mode)) = LastingOf(state)
<1>1. /\ Voice(mode) \in 0..MaxSoul /\ Template(mode) \in 0..MaxSoul
      /\ SoulAfter(state, mode) \in 0..MaxSoul
  BY IdentityAssumption DEF IdentityTypeOK, Voice, Template, SoulAfter, Mode, State, OrNone
<1>2. \A a \in OrNone(0..MaxProject) : First(a, project) \in 0..MaxProject /\ (a \in 0..MaxProject => First(a, project) = a)
  BY IdentityAssumption DEF IdentityTypeOK, First, OrNone
<1>3. \A a \in OrNone(0..MaxSoul) : First(a, Voice(mode)) \in 0..MaxSoul /\ (a \in 0..MaxSoul => First(a, Voice(mode)) = a)
  BY <1>1, IdentityAssumption DEF First, OrNone
<1>4. /\ Snapshot(state, mode).facts = state.facts /\ Snapshot(state, mode).role = state.role
      /\ Snapshot(state, mode).instructions = First(state.instructions, project)
      /\ Snapshot(state, mode).soul = First(state.soul, Voice(mode))
  BY DEF Snapshot, State
<1>5. /\ Loaded(state, mode).facts = First(state.facts, project) /\ Loaded(state, mode).role = state.role
      /\ Loaded(state, mode).instructions = First(state.instructions, project)
      /\ Loaded(state, mode).soul = First(state.soul, Voice(mode))
  BY DEF Snapshot, Loaded, State
<1>6. /\ state.facts \in OrNone(0..MaxProject) /\ state.instructions \in OrNone(0..MaxProject)
      /\ state.soul \in OrNone(0..MaxSoul) /\ state.role \in OrNone(RoleName)
  BY DEF State
<1>7. /\ First(state.facts, project) \in 0..MaxProject /\ First(state.instructions, project) \in 0..MaxProject
      /\ First(state.soul, Voice(mode)) \in 0..MaxSoul
  BY <1>2, <1>3, <1>6
<1>8. Snapshot(state, mode) \in State /\ Loaded(state, mode) \in State
  BY <1>6, <1>7 DEF State, OrNone, Snapshot, Loaded
<1>9. LastingOf(Loaded(state, mode)) \in Lasting
  BY <1>5, <1>7 DEF Lasting, LastingOf
<1>10. ASSUME LastingOf(state) \in Lasting
       PROVE  LastingOf(Snapshot(state, mode)) = LastingOf(state) /\ LastingOf(Loaded(state, mode)) = LastingOf(state)
  <2>1. state.facts \in 0..MaxProject /\ state.instructions \in 0..MaxProject /\ state.soul \in 0..MaxSoul
    BY <1>10 DEF Lasting, LastingOf
  <2>2. QED
    BY <1>2, <1>3, <1>4, <1>5, <1>6, <2>1 DEF LastingOf
<1>11. Snapshot(state, mode).role = state.role /\ Loaded(state, mode).role = state.role
  BY <1>4, <1>5
<1>12. QED
  BY <1>1, <1>8, <1>9, <1>10, <1>11

(* The role of a session that has one and is not overridden is that one.    *)
LEMMA RoleForIsRole ==
  ASSUME IdentityTypeOK, NEW s \in OrNone(Session), NEW fresh \in BOOLEAN,
         NEW override \in OrNone(RoleName), NEW default \in RoleName
  PROVE  /\ RoleFor(s, fresh, override, default) \in RoleName
         /\ override = None /\ ~fresh /\ s \in Session /\ saved[s].role # None =>
              RoleFor(s, fresh, override, default) = saved[s].role
BY IdentityAssumption DEF IdentityTypeOK, RoleFor, SavedRole, First, OrNone, State

(* Engine.set_role gives the engine, the gate and every copy the one role,  *)
(* and touches nothing else.                                                *)
LEMMA UnderIsUnder ==
  ASSUME NEW w \in Window, NEW role \in RoleName
  PROVE  /\ Under(w, role) \in Window
         /\ Under(w, role).role = role /\ Under(w, role).gate = role
         /\ Under(w, role).sid = w.sid /\ Under(w, role).override = w.override
         /\ \A s \in Session : Under(w, role).cache[s] # None =>
              /\ w.cache[s] # None /\ Under(w, role).cache[s].role = role
              /\ Under(w, role).cache[s].lasting = w.cache[s].lasting
<1> DEFINE cache == [s \in Session |-> IF w.cache[s] = None THEN None ELSE [w.cache[s] EXCEPT !.role = role]]
<1>1. \A s \in Session : cache[s] \in OrNone(Prefix)
  BY DEF Window, OrNone, Prefix
<1>2. cache \in [Session -> OrNone(Prefix)]
  BY <1>1
<1>3. Under(w, role) = [w EXCEPT !.role = role, !.gate = role, !.cache = cache]
  BY DEF Under
<1>4. \A s \in Session : cache[s] # None =>
        w.cache[s] # None /\ cache[s].role = role /\ cache[s].lasting = w.cache[s].lasting
  BY DEF Window, OrNone, Prefix
<1> HIDE DEF cache
<1>5. Under(w, role) \in Window
  BY <1>2, <1>3 DEF Window
<1>6. /\ Under(w, role).role = role /\ Under(w, role).gate = role /\ Under(w, role).cache = cache
      /\ Under(w, role).sid = w.sid /\ Under(w, role).override = w.override
  BY <1>3 DEF Window
<1>7. QED
  BY <1>4, <1>5, <1>6

-----------------------------------------------------------------------------
(* A directory in which no process has run yet.                              *)
LEMMA InitInv == IdentityInit => IInv
BY IdentityAssumption DEF IdentityInit, IInv, IdentityTypeOK, OneRole, SentIsSaved, CacheIsSaved, KeptIsSaved,
   WindowKeeps, NoState, State, OrNone

(* The constructor: the snapshots it stores, and the role it works by.      *)
LEMMA OpenInv ==
  ASSUME IInv, NEW s \in OrNone(Session), NEW default \in RoleName, NEW override \in OrNone(RoleName),
         NEW mode \in Mode, Open(s, default, override, mode)
  PROVE  IInv'
<1> DEFINE role == RoleFor(s, s \notin row, override, default)
<1>1. role \in RoleName /\ (override = None /\ s \in row /\ saved[s].role # None => role = saved[s].role)
  <2>1. row \subseteq Session
    BY DEF IInv, IdentityTypeOK
  <2>2. QED
    BY <2>1, RoleForIsRole DEF IInv
<1>2. /\ win'.sid = s /\ win'.override = override /\ win'.role = role /\ win'.gate = role
      /\ \A t \in Session : win'.cache[t] = None
  BY DEF Open
<1>3. win' \in Window
  BY <1>1 DEF Open, Window, OrNone
<1>a. starts' \in 0..MaxStarts
  BY IdentityAssumption DEF IInv, IdentityTypeOK, Open
<1>4. CASE s = None
  <2>1. Template(mode) \in 0..MaxSoul
    BY IdentityAssumption DEF IInv, IdentityTypeOK, Template
  <2>2. IdentityTypeOK'
    BY <1>3, <1>4, <1>a, <2>1 DEF IInv, IdentityTypeOK, Open, OrNone
  <2>3. SentIsSaved' /\ KeptIsSaved'
    BY <1>4 DEF IInv, Open, SentIsSaved, KeptIsSaved
  <2>4. CacheIsSaved' /\ OneRole' /\ WindowKeeps'
    BY <1>2, <1>4 DEF CacheIsSaved, OneRole, WindowKeeps
  <2>5. QED
    BY <2>2, <2>3, <2>4 DEF IInv
<1>5. CASE s # None
  <2>1. s \in Session /\ saved[s] \in State
    BY <1>5 DEF OrNone, IInv, IdentityTypeOK
  <2>2. /\ Snapshot(saved[s], mode) \in State /\ Snapshot(saved[s], mode).role = saved[s].role
        /\ SoulAfter(saved[s], mode) \in 0..MaxSoul
        /\ LastingOf(saved[s]) \in Lasting => LastingOf(Snapshot(saved[s], mode)) = LastingOf(saved[s])
    BY <2>1, SnapshotKeeps DEF IInv
  <2>3. saved' = [saved EXCEPT ![s] = Snapshot(saved[s], mode)] /\ row' = row \cup {s} /\ UNCHANGED <<sent, kept>>
    BY <1>5 DEF Open
  <2>4. IdentityTypeOK'
    <3>1. saved' \in [Session -> State] /\ row' \subseteq Session
      BY <2>1, <2>2, <2>3 DEF IInv, IdentityTypeOK
    <3>2. soul' \in 0..MaxSoul /\ project' = project
      BY <1>5, <2>2 DEF Open
    <3>3. QED
      BY <1>3, <1>a, <2>3, <3>1, <3>2 DEF IInv, IdentityTypeOK, OrNone
  <2>5. SentIsSaved'
    <3>1. \A t \in Session : sent[t] # None => sent[t].lasting \in Lasting
      BY DEF IInv, IdentityTypeOK, OrNone, Prefix
    <3>2. QED
      BY <2>1, <2>2, <2>3, <3>1 DEF IInv, SentIsSaved, IdentityTypeOK
  <2>6. KeptIsSaved'
    BY <2>1, <2>2, <2>3 DEF IInv, KeptIsSaved, IdentityTypeOK
  <2>7. CacheIsSaved' /\ OneRole'
    BY <1>2 DEF CacheIsSaved, OneRole
  <2>8. WindowKeeps'
    <3>1. SUFFICES ASSUME override = None, kept[s] # None PROVE role = kept[s]
      BY <1>2, <2>1, <2>3 DEF WindowKeeps
    <3>2. s \in row /\ saved[s].role = kept[s]
      BY <2>1, <3>1 DEF IInv, KeptIsSaved
    <3>3. QED
      BY <1>1, <3>1, <3>2
  <2>9. QED
    BY <2>4, <2>5, <2>6, <2>7, <2>8 DEF IInv
<1>6. QED
  BY <1>4, <1>5

(* A step of storing that fills in what is missing, whatever it stores,     *)
(* leaves a sent prefix, a copy and a kept role as they are.                *)
LEMMA FillInv ==
  ASSUME IInv, NEW s \in Session, NEW state \in State,
         state.role = saved[s].role, LastingOf(saved[s]) \in Lasting => LastingOf(state) = LastingOf(saved[s]),
         saved' = [saved EXCEPT ![s] = state], row' = row \cup {s}, win' = None,
         soul' \in 0..MaxSoul, starts' \in 0..MaxStarts, UNCHANGED <<project, sent, kept>>
  PROVE  IInv'
<1>1. saved' \in [Session -> State] /\ row' \subseteq Session
  BY DEF IInv, IdentityTypeOK
<1>2. IdentityTypeOK'
  BY <1>1 DEF IInv, IdentityTypeOK, OrNone
<1>3. SentIsSaved'
  <2>1. \A t \in Session : sent[t] # None => sent[t].lasting \in Lasting
    BY DEF IInv, IdentityTypeOK, OrNone, Prefix
  <2>2. QED
    BY <2>1 DEF IInv, SentIsSaved, IdentityTypeOK
<1>4. KeptIsSaved'
  BY DEF IInv, KeptIsSaved, IdentityTypeOK
<1>5. QED
  BY <1>2, <1>3, <1>4 DEF IInv, OneRole, CacheIsSaved, WindowKeeps

(* What the two deaths have stored by then: at most what was missing.       *)
LEMMA PartKeeps ==
  ASSUME IInv, NEW s \in Session, NEW state \in State,
         state.facts = saved[s].facts \/ saved[s].facts = None,
         state.instructions = saved[s].instructions \/ saved[s].instructions = None,
         state.soul = saved[s].soul
  PROVE  LastingOf(saved[s]) \in Lasting => LastingOf(state) = LastingOf(saved[s])
<1>1. SUFFICES ASSUME LastingOf(saved[s]) \in Lasting PROVE LastingOf(state) = LastingOf(saved[s])
  OBVIOUS
<1>2. saved[s].facts # None /\ saved[s].instructions # None
  BY <1>1, IdentityAssumption DEF LastingOf, Lasting
<1>3. QED
  BY <1>2 DEF LastingOf

(* A process that dies while it opens a session.                            *)
LEMMA DieOpeningInv == ASSUME IInv, NEW s \in Session, DieOpening(s) PROVE IInv'
<1> DEFINE state == [saved[s] EXCEPT !.instructions = First(@, project)]
<1>1. saved[s] \in State
  BY DEF IInv, IdentityTypeOK
<1>2. First(saved[s].instructions, project) \in OrNone(0..MaxProject)
  BY <1>1 DEF First, OrNone, IInv, IdentityTypeOK, State
<1>3. /\ state \in State /\ state.facts = saved[s].facts /\ state.role = saved[s].role /\ state.soul = saved[s].soul
      /\ state.instructions = First(saved[s].instructions, project)
  BY <1>1, <1>2 DEF State
<1>4. LastingOf(saved[s]) \in Lasting => LastingOf(state) = LastingOf(saved[s])
  <2> HIDE DEF state
  <2>1. QED
    BY <1>3, PartKeeps DEF First
<1>5. /\ saved' = [saved EXCEPT ![s] = state] /\ row' = row \cup {s} /\ win' = None
      /\ starts' \in 0..MaxStarts /\ UNCHANGED <<project, soul, sent, kept>>
  BY IdentityAssumption DEF DieOpening, IInv, IdentityTypeOK
<1>6. soul' \in 0..MaxSoul
  BY <1>5 DEF IInv, IdentityTypeOK
<1>7. QED
  <2> HIDE DEF state
  <2>1. QED
    BY <1>3, <1>4, <1>5, <1>6, FillInv

(* A process that dies before the first request of its engine's session.    *)
LEMMA DieInTurnInv == ASSUME IInv, DieInTurn PROVE IInv'
<1>1. PICK s \in Session, written \in {"row", "facts", "instructions"} :
        /\ row' = row \cup {s}
        /\ saved' = [saved EXCEPT
             ![s].facts = IF written = "row" THEN @ ELSE First(@, project),
             ![s].instructions = IF written = "instructions" THEN First(@, project) ELSE @]
  BY DEF DieInTurn
<1> DEFINE facts == IF written = "row" THEN saved[s].facts ELSE First(saved[s].facts, project)
<1> DEFINE instructions == IF written = "instructions" THEN First(saved[s].instructions, project) ELSE saved[s].instructions
<1> DEFINE state == [saved[s] EXCEPT !.facts = facts, !.instructions = instructions]
<1>2. saved[s] \in State
  BY DEF IInv, IdentityTypeOK
<1>3. facts \in OrNone(0..MaxProject) /\ instructions \in OrNone(0..MaxProject)
  BY <1>2 DEF First, OrNone, IInv, IdentityTypeOK, State
<1>4. /\ state \in State /\ state.role = saved[s].role /\ state.soul = saved[s].soul
      /\ state.facts = facts /\ state.instructions = instructions
  BY <1>2, <1>3 DEF State
<1>5. LastingOf(saved[s]) \in Lasting => LastingOf(state) = LastingOf(saved[s])
  <2> HIDE DEF state
  <2>1. QED
    BY <1>4, PartKeeps DEF First
<1>6. saved' = [saved EXCEPT ![s] = state]
  BY <1>1, <1>2 DEF State, IInv, IdentityTypeOK
<1>7. win' = None /\ soul' \in 0..MaxSoul /\ starts' \in 0..MaxStarts /\ UNCHANGED <<project, sent, kept>>
  BY DEF DieInTurn, IInv, IdentityTypeOK
<1>8. QED
  <2> HIDE DEF state
  <2>1. QED
    BY <1>1, <1>4, <1>5, <1>6, <1>7, FillInv

(* A turn: what it sends is what was sent before, by the copy or by the     *)
(* state, and what it stores is what it sent.                               *)
LEMMA TurnInv == ASSUME IInv, Turn
                 PROVE  /\ IInv' /\ StepStands
                        /\ \A s \in Session : kept[s] # None /\ kept'[s] # kept[s] => win.override # None
<1>1. PICK s \in Session : TurnIn(s)
  BY DEF Turn
<1> DEFINE cached == win.cache[s] # None
<1> DEFINE state == IF cached THEN saved[s] ELSE Loaded(saved[s], win.mode)
<1> DEFINE copy == IF cached THEN win.cache[s] ELSE PrefixOf(state, win.role)
<1> DEFINE written == [state EXCEPT !.role = win.role]
<1>2. win # None /\ win \in Window /\ UNCHANGED <<project, starts>>
  BY DEF Turn, IInv, IdentityTypeOK, OrNone
<1>3. /\ win.mode \in Mode /\ win.role \in RoleName /\ saved[s] \in State
      /\ win.cache[s] \in OrNone(Prefix)
  BY <1>2 DEF Window, IInv, IdentityTypeOK
<1>4. /\ state \in State /\ LastingOf(state) \in Lasting /\ soul' \in 0..MaxSoul
      /\ LastingOf(saved[s]) \in Lasting => LastingOf(state) = LastingOf(saved[s])
      /\ cached => win.cache[s] \in Prefix /\ win.cache[s].lasting = LastingOf(saved[s])
  <2>1. cached => win.cache[s] \in Prefix /\ win.cache[s].lasting = LastingOf(saved[s])
    BY <1>2, <1>3 DEF IInv, CacheIsSaved, OrNone
  <2>2. CASE cached
    BY <1>1, <1>3, <2>1, <2>2 DEF IInv, IdentityTypeOK, Prefix, TurnIn
  <2>3. CASE ~cached
    BY <1>1, <1>3, <2>3, SnapshotKeeps DEF IInv, TurnIn
  <2>4. QED
    BY <2>1, <2>2, <2>3
<1>5. copy \in Prefix /\ copy.lasting = LastingOf(state) /\ copy.role = win.role
  BY <1>2, <1>3, <1>4 DEF IInv, OneRole, Prefix, PrefixOf
<1>6. written \in State /\ written.role = win.role /\ LastingOf(written) = LastingOf(state)
  BY <1>3, <1>4 DEF State, OrNone, LastingOf
<1>a. StateOf(s) = state /\ CopyOf(s) = copy
  BY DEF StateOf, CopyOf
<1>7. /\ saved' = [saved EXCEPT ![s] = written] /\ row' = row \cup {s}
      /\ win' = [win EXCEPT !.sid = s, !.cache[s] = copy]
      /\ sent' = [sent EXCEPT ![s] = copy] /\ kept' = [kept EXCEPT ![s] = copy.role]
  BY <1>1, <1>a DEF TurnIn
<1> HIDE DEF written, copy, state, cached
<1>8. /\ win' \in Window /\ win'.sid = s /\ win'.role = win.role /\ win'.gate = win.gate /\ win'.override = win.override
      /\ win'.cache = [win.cache EXCEPT ![s] = copy] /\ win' # None
  <2>1. [win.cache EXCEPT ![s] = copy] \in [Session -> OrNone(Prefix)]
    BY <1>2, <1>5 DEF Window, OrNone
  <2>2. win' \in Window /\ win'.sid = s /\ win'.role = win.role /\ win'.gate = win.gate /\ win'.override = win.override
        /\ win'.cache = [win.cache EXCEPT ![s] = copy]
    BY <1>2, <1>7, <2>1 DEF Window, OrNone
  <2>3. QED
    BY <2>2, IdentityAssumption
<1>9. \A t \in Session : sent[t] # None =>
        sent[t] \in Prefix /\ sent[t].lasting \in Lasting /\ sent[t].lasting = LastingOf(saved[t])
  BY DEF IInv, IdentityTypeOK, OrNone, SentIsSaved, Prefix
<1>10. sent[s] # None => copy = [sent[s] EXCEPT !.role = copy.role]
  <2>1. SUFFICES ASSUME sent[s] # None PROVE copy = [sent[s] EXCEPT !.role = copy.role]
    OBVIOUS
  <2>2. copy \in Prefix /\ sent[s] \in Prefix /\ copy.lasting = sent[s].lasting
    BY <1>4, <1>5, <1>9, <2>1
  <2>3. QED
    BY <2>2 DEF Prefix
<1>11. \A t \in Session : kept[t] # None /\ kept'[t] # kept[t] => win.override # None
  <2>1. SUFFICES ASSUME kept[s] # None, copy.role # kept[s] PROVE win.override # None
    BY <1>7 DEF IInv, IdentityTypeOK
  <2>2. s \in row
    BY <2>1 DEF IInv, KeptIsSaved
  <2>3. win.sid = s
    BY <1>1, <2>2 DEF TurnIn
  <2>4. QED
    BY <1>2, <1>5, <2>1, <2>3, IdentityAssumption DEF IInv, WindowKeeps
<1>12. StepStands
  <2>1. /\ \A t \in Session : t # s => sent'[t] = sent[t]
        /\ sent'[s] = copy /\ kept'[s] = copy.role
    BY <1>7 DEF IInv, IdentityTypeOK
  <2>2. SUFFICES ASSUME sent[s] # None, copy # sent[s], win.override = None PROVE kept[s] # sent[s].role
    BY <1>10, <2>1 DEF StepStands
  <2>3. sent[s].role # None
    BY <1>9, <2>2, IdentityAssumption DEF Prefix
  <2>4. copy.role # sent[s].role
    BY <1>9, <1>10, <2>2 DEF Prefix
  <2>5. QED
    BY <1>11, <2>1, <2>2, <2>3, <2>4
<1>13. IdentityTypeOK'
  <2>1. saved' \in [Session -> State] /\ sent' \in [Session -> OrNone(Prefix)] /\ kept' \in [Session -> OrNone(RoleName)]
    BY <1>5, <1>6, <1>7 DEF IInv, IdentityTypeOK, OrNone, Prefix
  <2>2. row' \subseteq Session
    BY <1>7 DEF IInv, IdentityTypeOK
  <2>3. QED
    BY <1>2, <1>4, <1>8, <2>1, <2>2 DEF IInv, IdentityTypeOK, OrNone
<1>14. SentIsSaved'
  BY <1>4, <1>5, <1>6, <1>7, <1>9 DEF IInv, IdentityTypeOK, SentIsSaved
<1>15. CacheIsSaved' /\ OneRole'
  <2>1. \A t \in Session : win'.cache[t] = IF t = s THEN copy ELSE win.cache[t]
    BY <1>2, <1>8 DEF Window
  <2>2. \A t \in Session : saved'[t] = IF t = s THEN written ELSE saved[t]
    BY <1>7 DEF IInv, IdentityTypeOK
  <2>3. QED
    BY <1>2, <1>5, <1>6, <1>8, <2>1, <2>2 DEF IInv, CacheIsSaved, OneRole
<1>16. KeptIsSaved' /\ WindowKeeps'
  BY <1>5, <1>6, <1>7, <1>8 DEF IInv, IdentityTypeOK, KeptIsSaved, WindowKeeps
<1>17. QED
  BY <1>11, <1>12, <1>13, <1>14, <1>15, <1>16 DEF IInv

(* The process goes over to the role it is given, and with it the copies    *)
(* and, if it has one, the stored session it is at.                         *)
LEMMA SetRoleInv ==
  ASSUME IInv, NEW role \in RoleName, SetRole(role)
  PROVE  /\ IInv'
         /\ UNCHANGED sent
         /\ \A s \in Session : win'.sid = s /\ kept'[s] # kept[s] /\ kept[s] # None =>
              win'.override # None \/ win'.role # win.role
<1>1. win # None /\ win \in Window /\ win' = Under(win, role) /\ UNCHANGED <<row, project, soul, starts, sent>>
  BY DEF SetRole, IInv, IdentityTypeOK, OrNone
<1>2. /\ win' \in Window /\ win'.role = role /\ win'.gate = role /\ win'.sid = win.sid
      /\ win'.override = win.override
      /\ \A s \in Session : win'.cache[s] # None =>
           win.cache[s] # None /\ win'.cache[s].role = role /\ win'.cache[s].lasting = win.cache[s].lasting
  BY <1>1, UnderIsUnder
<1>3. win' # None
  BY <1>2, IdentityAssumption
<1>4. CASE win.sid = None
  <2>1. UNCHANGED <<saved, kept>>
    BY <1>4 DEF SetRole
  <2>2. IdentityTypeOK' /\ SentIsSaved' /\ KeptIsSaved'
    BY <1>1, <1>2, <2>1 DEF IInv, IdentityTypeOK, SentIsSaved, KeptIsSaved, OrNone
  <2>3. CacheIsSaved' /\ OneRole' /\ WindowKeeps'
    BY <1>1, <1>2, <1>4, <2>1 DEF IInv, CacheIsSaved, OneRole, WindowKeeps
  <2>4. QED
    BY <1>1, <2>1, <2>2, <2>3 DEF IInv
<1>5. CASE win.sid # None
  <2>1. win.sid \in Session /\ saved[win.sid] \in State
    BY <1>1, <1>5 DEF Window, OrNone, IInv, IdentityTypeOK
  <2> DEFINE written == [saved[win.sid] EXCEPT !.role = role]
  <2>2. written \in State /\ written.role = role /\ LastingOf(written) = LastingOf(saved[win.sid])
    BY <2>1 DEF State, OrNone, LastingOf
  <2>3. saved' = [saved EXCEPT ![win.sid] = written] /\ kept' = [kept EXCEPT ![win.sid] = role]
    BY <1>5 DEF SetRole
  <2> HIDE DEF written
  <2>4. \A t \in Session : saved'[t] = IF t = win.sid THEN written ELSE saved[t]
    BY <2>3 DEF IInv, IdentityTypeOK
  <2>5. \A t \in Session : kept'[t] = IF t = win.sid THEN role ELSE kept[t]
    BY <2>3 DEF IInv, IdentityTypeOK
  <2>6. saved' \in [Session -> State] /\ kept' \in [Session -> OrNone(RoleName)]
    BY <2>2, <2>3 DEF IInv, IdentityTypeOK, OrNone
  <2>7. IdentityTypeOK'
    BY <1>1, <1>2, <2>6 DEF IInv, IdentityTypeOK, OrNone
  <2>8. SentIsSaved' /\ CacheIsSaved' /\ OneRole'
    BY <1>1, <1>2, <2>2, <2>4 DEF IInv, SentIsSaved, CacheIsSaved, OneRole
  <2>9. WindowKeeps'
    BY <1>1, <1>2, <1>5, <2>1, <2>5 DEF IInv, WindowKeeps
  <2>10. ASSUME win.override = None, kept[win.sid] # None, role # kept[win.sid] PROVE win'.role # win.role
    BY <1>1, <1>2, <1>5, <2>10 DEF IInv, WindowKeeps
  <2>11. KeptIsSaved'
    <3>1. win.sid \in row
      BY <1>1, <1>5 DEF IInv, WindowKeeps
    <3>2. QED
      BY <1>1, <2>2, <2>4, <2>5, <3>1 DEF IInv, KeptIsSaved
  <2>12. QED
    BY <1>1, <1>2, <2>5, <2>7, <2>8, <2>9, <2>10, <2>11 DEF IInv
<1>6. QED
  BY <1>4, <1>5

(* A switch to another session, resumed or new: its role is the one it last *)
(* had, the override or the default.                                        *)
LEMMA SwitchInv ==
  ASSUME IInv, NEW s \in Session, Resume(s) \/ New(s)
  PROVE  IInv' /\ UNCHANGED <<sent, kept>>
<1> DEFINE fresh == s \notin row
<1> DEFINE role == RoleFor(s, fresh, win.override, win.default)
<1> DEFINE moved == [win EXCEPT !.sid = s]
<1>1. /\ win # None /\ win \in Window /\ row' = row \cup {s} /\ win' = Under(moved, role)
      /\ UNCHANGED <<saved, project, soul, starts, sent, kept>>
  BY DEF Resume, New, Switched, IInv, IdentityTypeOK, OrNone
<1>2. /\ role \in RoleName
      /\ win.override = None /\ s \in row /\ saved[s].role # None => role = saved[s].role
  <2>1. win.default \in RoleName /\ win.override \in OrNone(RoleName) /\ s \in OrNone(Session) /\ fresh \in BOOLEAN
    BY <1>1 DEF Window, OrNone
  <2>2. IdentityTypeOK /\ (fresh <=> s \notin row)
    BY DEF IInv
  <2> HIDE DEF fresh
  <2>3. QED
    BY <2>1, <2>2, RoleForIsRole
<1>3. moved \in Window /\ moved.sid = s /\ moved.override = win.override /\ moved.cache = win.cache
  BY <1>1 DEF Window, OrNone
<1> HIDE DEF moved, role
<1>4. /\ win' \in Window /\ win'.role = role /\ win'.gate = role /\ win'.sid = s /\ win'.override = win.override
      /\ \A t \in Session : win'.cache[t] # None =>
           win.cache[t] # None /\ win'.cache[t].role = role /\ win'.cache[t].lasting = win.cache[t].lasting
  BY <1>1, <1>2, <1>3, UnderIsUnder
<1>5. win' # None
  BY <1>4, IdentityAssumption
<1>6. IdentityTypeOK'
  BY <1>1, <1>4 DEF IInv, IdentityTypeOK, OrNone
<1>7. SentIsSaved' /\ KeptIsSaved' /\ CacheIsSaved' /\ OneRole'
  BY <1>1, <1>4 DEF IInv, SentIsSaved, KeptIsSaved, CacheIsSaved, OneRole
<1>8. WindowKeeps'
  <2>1. kept[s] # None => s \in row /\ saved[s].role = kept[s]
    BY DEF IInv, KeptIsSaved
  <2>2. QED
    BY <1>1, <1>2, <1>4, <2>1 DEF WindowKeeps
<1>9. QED
  BY <1>1, <1>6, <1>7, <1>8 DEF IInv

(* The process ends, or a file is edited: nothing of any session changes.   *)
LEMMA AsideInv ==
  ASSUME IInv, Close \/ EditProject \/ EditSoul
  PROVE  IInv' /\ UNCHANGED <<sent, kept>>
<1>1. UNCHANGED <<saved, row, starts, sent, kept>> /\ (win' = win \/ win' = None)
  BY DEF Close, EditProject, EditSoul
<1>2. project' \in 0..MaxProject /\ soul' \in 0..MaxSoul
  BY IdentityAssumption DEF Close, EditProject, EditSoul, IInv, IdentityTypeOK
<1>3. IdentityTypeOK'
  BY <1>1, <1>2 DEF IInv, IdentityTypeOK, OrNone
<1>4. SentIsSaved' /\ KeptIsSaved' /\ CacheIsSaved' /\ OneRole' /\ WindowKeeps'
  BY <1>1 DEF IInv, SentIsSaved, KeptIsSaved, CacheIsSaved, OneRole, WindowKeeps
<1>5. QED
  BY <1>1, <1>3, <1>4 DEF IInv

-----------------------------------------------------------------------------
(* The default role of a process that starts on the settings of a           *)
(* conversation is a role.                                                  *)
LEMMA DefaultIsRole ==
  ASSUME Conversing, NEW its, its = [Empty EXCEPT !.role = "code"],
         NEW named \in {"unset", "typo"}, NEW env, env = [Empty EXCEPT !.role = named]
  PROVE  Resolve(Content, its, env, Empty).role \in RoleName
<1>1. Content.role \in {"unset", "plan"}
  BY DEF Conversing, Content, Empty
<1>2. Laid(Defaults, Content).role \in RoleName
  BY <1>1 DEF Laid, Defaults, RoleName
<1>3. Tightened(Laid(Defaults, Content), its).role \in RoleName
  BY <1>2 DEF Tightened, Laid
<1>4. Laid(Tightened(Laid(Defaults, Content), its), env).role \in RoleName
  BY <1>3 DEF Laid, Empty
<1>5. QED
  BY <1>4 DEF Resolve, Laid, Empty

(* Every step of the conversations, one by one.                             *)
LEMMA TalkInv == ASSUME IInv, TalkStep PROVE IInv' /\ StepStands /\ StepKeeps
<1>1. CASE Turn
  BY <1>1, TurnInv DEF StepStands, StepKeeps
<1>2. CASE DieInTurn
  BY <1>2, DieInTurnInv DEF StepStands, StepKeeps, DieInTurn
<1>3. CASE Close \/ EditProject \/ EditSoul
  BY <1>3, AsideInv DEF StepStands, StepKeeps
<1>4. CASE \E role \in RoleName : SetRole(role)
  <2>1. PICK role \in RoleName : SetRole(role)
    BY <1>4
  <2>2. win'.override = win.override
    BY <2>1, UnderIsUnder DEF SetRole, IInv, IdentityTypeOK, OrNone
  <2>3. QED
    BY <2>1, <2>2, SetRoleInv DEF StepStands, StepKeeps
<1>5. CASE \E s \in Session : DieOpening(s)
  BY <1>5, DieOpeningInv DEF StepStands, StepKeeps, DieOpening
<1>6. CASE \E s \in Session : Resume(s) \/ New(s)
  BY <1>6, SwitchInv DEF StepStands, StepKeeps
<1>7. QED
  BY <1>1, <1>2, <1>3, <1>4, <1>5, <1>6 DEF TalkStep

(* Every step of the whole, stuttering included.                            *)
LEMMA StepInv == ASSUME IInv, [Next]_startup PROVE IInv' /\ StepStands /\ StepKeeps
<1>1. CASE OpenProcess
  <2>1. PICK s \in OrNone(Session), mode \in Mode, override \in OrNone(RoleName), named \in {"unset", "typo"} :
          Open(s, Resolve(Content, [Empty EXCEPT !.role = "code"], [Empty EXCEPT !.role = named], Empty).role,
               override, mode)
    BY <1>1 DEF OpenProcess
  <2>2. Resolve(Content, [Empty EXCEPT !.role = "code"], [Empty EXCEPT !.role = named], Empty).role \in RoleName
    BY <1>1, DefaultIsRole DEF OpenProcess
  <2>3. IInv'
    BY <2>1, <2>2, OpenInv
  <2>4. UNCHANGED <<sent, kept>>
    BY <2>1 DEF Open
  <2>5. QED
    BY <2>3, <2>4 DEF StepStands, StepKeeps
<1>2. CASE Talk
  BY <1>2, TalkInv DEF Talk
<1>3. CASE UNCHANGED identity
  <2>1. IInv'
    BY <1>3 DEF identity, IInv, IdentityTypeOK, OneRole, SentIsSaved, CacheIsSaved, KeptIsSaved, WindowKeeps
  <2>2. QED
    BY <1>3, <2>1 DEF identity, StepStands, StepKeeps
<1>4. QED
  BY <1>1, <1>2, <1>3 DEF Next, Settle, startup

(* The strengthening is inductive.                                          *)
THEOREM IdentityInvariant == Spec => []IInv
<1>1. Init => IInv
  BY InitInv DEF Init
<1>2. IInv /\ [Next]_startup => IInv'
  BY StepInv
<1>3. QED
  BY <1>1, <1>2, PTL DEF Spec

(* Whatever sessions are opened, resumed or died in, the role the model is  *)
(* shown, the engine's and the gate's are one.                              *)
THEOREM RolesAreOne == Spec => []OneRole
<1>1. IInv => OneRole
  BY DEF IInv
<1>2. QED
  BY <1>1, IdentityInvariant, PTL

(* The requests of a session begin alike, but for the prompt of a role it   *)
(* was given.                                                               *)
THEOREM PrefixHolds == Spec => PrefixStands
<1>1. IInv /\ [Next]_startup =>
        [\A s \in Session : sent[s] # None /\ sent'[s] # sent[s] =>
           /\ sent'[s] = [sent[s] EXCEPT !.role = kept'[s]]
           /\ kept[s] # sent[s].role \/ win.override # None]_identity
  BY StepInv DEF StepStands
<1>2. QED
  BY <1>1, IdentityInvariant, PTL DEF Spec, PrefixStands

(* Every place has one role, and a session keeps it until /role or --role   *)
(* gives it another.                                                        *)
THEOREM RolesHold == Spec => RolesStand
<1>1. IInv /\ [Next]_startup =>
        [\A s \in Session : sent'[s] # None /\ win' # None /\ win'.sid = s /\ kept'[s] # kept[s] /\ kept[s] # None =>
           win.override # None \/ win'.role # win.role]_identity
  BY StepInv DEF StepKeeps
<1>2. Spec => RoleStands
  BY <1>1, IdentityInvariant, PTL DEF Spec, RoleStands
<1>3. IInv => IdentityTypeOK /\ OneRole
  BY DEF IInv
<1>4. QED
  BY <1>2, <1>3, IdentityInvariant, PTL DEF RolesStand

-----------------------------------------------------------------------------
(* The settings, for any number of commands, edits and deaths.  What a      *)
(* command has in hand at each of its steps: its terms and what they allow  *)
(* it to write, the builds it has staged and tried, the text it writes, the *)
(* copy of the file it is about to replace.                                 *)
Steps == {"prepare", "stage-worker", "stage-router", "verify", "copy-worker", "copy-router",
          "read", "write", "backup", "replace", "clean"}
UseSteps == {"read", "write", "backup", "replace", "clean"}
Writing == {"write", "backup", "replace"}
Agreement == [host : BOOLEAN, exec : BOOLEAN, refused : BOOLEAN]
IsCommand(c) == c = [kind |-> c.kind, at |-> c.at, said |-> c.said, choice |-> c.choice, text |-> c.text,
                     second |-> c.second]
CommandOK ==
  cmd # Nothing =>
    /\ IsCommand(cmd) /\ cmd.kind \in {"setup", "use"} /\ cmd.at \in Steps
    /\ cmd.kind = "use" => cmd.at \in UseSteps
    /\ cmd.at # "clean" => Readable
Covers(said, choice) ==
  /\ choice = Nothing => ~said.refused
  /\ choice # Nothing =>
       /\ choice.host = "yes" => said.host
       /\ choice.risk = "execute" => said.exec
       /\ said.refused => choice.host = "no" /\ choice.risk = "write"
ChoiceOK ==
  cmd # Nothing =>
    /\ cmd.said \in Agreement
    /\ cmd.kind = "use" => cmd.choice \in {"alias", "other"} /\ ~cmd.said.refused
    /\ cmd.kind = "setup" => cmd.choice \in Consent \cup {Nothing} /\ Covers(cmd.said, cmd.choice)
Tried(model) == server[model] # Nothing /\ server[model].good
BuildsOK ==
  cmd # Nothing =>
    /\ cmd.at \in {"stage-router", "verify"} => server["worker-next"] # Nothing
    /\ cmd.at = "verify" => server["router-next"] # Nothing
    /\ cmd.at \in {"copy-worker", "copy-router"} => Tried("worker-next") /\ Tried("router-next")
    /\ cmd.at = "copy-router" => server["worker"] # Nothing
    /\ cmd.at = "read" /\ (cmd.kind = "setup" \/ cmd.choice = "alias") =>
         server["worker"] # Nothing
    /\ cmd.at \in Writing /\ cmd.text \in Doc /\ cmd.text.coder = "alias" => server["worker"] # Nothing
BackupsOK ==
  cmd # Nothing /\ cmd.at = "replace" /\ file # Absent => cmd.second \in Second /\ backups[cmd.second] = file
Allowed(said, old, new) ==
  /\ new.role = old.role
  /\ old.rest # "nested" => new.rest = old.rest
  /\ new.host = "yes" => said.host \/ (old.host = "yes" /\ ~said.refused)
  /\ new.risk = "execute" => said.exec \/ (old.risk = "execute" /\ ~said.refused)
Written(said, old, text) ==
  IF old.rest = "awkward" THEN text = Garbled ELSE text \in Doc /\ Allowed(said, old, text)
TextOK ==
  cmd # Nothing =>
    /\ cmd.at \in Writing => Written(cmd.said, Content, cmd.text)
    /\ cmd.at \in {"backup", "replace"} => candidate = cmd.text
SettingsInv ==
  /\ TypeOK /\ FileWhole /\ ReplacedKept /\ WorkerReady
  /\ CommandOK /\ ChoiceOK /\ BuildsOK /\ BackupsOK /\ TextOK

-----------------------------------------------------------------------------
(* A step of a command keeps its other fields.                              *)
LEMMA GoKeeps ==
  ASSUME IsCommand(cmd), NEW step, Go(step)
  PROVE  /\ IsCommand(cmd') /\ cmd'.at = step
         /\ cmd'.kind = cmd.kind /\ cmd'.said = cmd.said /\ cmd'.choice = cmd.choice
         /\ cmd'.text = cmd.text /\ cmd'.second = cmd.second
<1>1. cmd' = [kind |-> cmd.kind, at |-> step, said |-> cmd.said, choice |-> cmd.choice, text |-> cmd.text,
              second |-> cmd.second]
  BY DEF Go, IsCommand
<1>2. QED
  BY <1>1 DEF IsCommand

(* A file that is not there reads as an empty one, and a command has a      *)
(* document before it.                                                      *)
LEMMA ContentIsDoc == ASSUME TypeOK, Readable PROVE Content \in Doc
<1>1. Empty \in Doc
  BY DEF Empty, Doc, Worker, Risk, Host, Role, Rest
<1>2. QED
  BY <1>1 DEF TypeOK, Readable, Content

(* A step of a command that only moves on, or works on the server's models. *)
LEMMA GoInv ==
  ASSUME SettingsInv, cmd # Nothing, cmd.at \notin {"replace", "clean"}, NEW step \in Steps \ Writing, Go(step),
         cmd.kind = "use" => step \in UseSteps, UNCHANGED <<file, candidate, backups>>, Same,
         server' \in [Name -> Build \cup {Nothing}]
  PROVE  TypeOK' /\ FileWhole' /\ ReplacedKept' /\ CommandOK' /\ ChoiceOK' /\ BackupsOK' /\ TextOK'
<1>1. /\ IsCommand(cmd') /\ cmd'.at = step
      /\ cmd'.kind = cmd.kind /\ cmd'.said = cmd.said /\ cmd'.choice = cmd.choice
      /\ cmd'.text = cmd.text /\ cmd'.second = cmd.second
  BY GoKeeps DEF SettingsInv, CommandOK
<1>2. UNCHANGED <<file, candidate, backups, commands, edits, deaths, given, reused>>
  BY DEF Same, replaced
<1>3. CommandOK'
  BY <1>1, <1>2 DEF SettingsInv, CommandOK, Readable
<1>4. ChoiceOK'
  BY <1>1 DEF SettingsInv, ChoiceOK, Covers
<1>5. BackupsOK'
  BY <1>1, <1>2 DEF SettingsInv, BackupsOK, Writing
<1>6. TextOK'
  BY <1>1 DEF TextOK, Writing
<1>7. TypeOK'
  BY <1>2, <1>3 DEF SettingsInv, TypeOK, CommandOK
<1>8. FileWhole' /\ ReplacedKept'
  BY <1>2 DEF SettingsInv, FileWhole, ReplacedKept
<1>9. QED
  BY <1>3, <1>4, <1>5, <1>6, <1>7, <1>8

-----------------------------------------------------------------------------
(* A first start, or one on the settings of an earlier setup.               *)
LEMMA SettingsInitInv == SettingsInit => SettingsInv
<1> SUFFICES ASSUME SettingsInit PROVE SettingsInv
  OBVIOUS
<1>1. /\ cmd = Nothing /\ given = {} /\ reused = {} /\ candidate = Absent
      /\ commands = 0 /\ edits = 0 /\ deaths = 0
  BY DEF SettingsInit
<1>2. backups \in [Second -> Doc \cup {Absent, Torn}]
  BY DEF SettingsInit
<1>3. file = Absent \/ file \in Doc
  BY DEF SettingsInit, Doc, Worker, Risk, Host, Role, Rest
<1>4. /\ server \in [Name -> Build \cup {Nothing}]
      /\ \A alias \in Alias : server[alias] # Nothing => server[alias].good
      /\ file \in Doc => server["worker"] # Nothing
  <2>1. CASE file = Absent /\ server = [n \in Name |-> Nothing]
    BY <2>1, SettingsAssumption DEF Name, Alias
  <2>2. CASE server = [n \in Name |-> IF n \in Alias THEN [good |-> TRUE] ELSE Nothing]
    <3>1. [good |-> TRUE] \in Build
      BY DEF Build
    <3>2. QED
      BY <2>2, <3>1, SettingsAssumption DEF Name, Alias
  <2>3. QED
    BY <2>1, <2>2 DEF SettingsInit
<1>5. TypeOK
  BY <1>1, <1>2, <1>3, <1>4, SettingsAssumption DEF TypeOK
<1>6. FileWhole
  BY <1>3, SettingsAssumption DEF FileWhole
<1>7. ReplacedKept /\ WorkerReady
  BY <1>1, <1>4 DEF ReplacedKept, WorkerReady
<1>8. CommandOK /\ ChoiceOK /\ BuildsOK /\ BackupsOK /\ TextOK
  BY <1>1, <1>2 DEF CommandOK, ChoiceOK, BuildsOK, BackupsOK, TextOK
<1>9. QED
  BY <1>5, <1>6, <1>7, <1>8 DEF SettingsInv

(* The owner saves the file while no command is between reading it and      *)
(* replacing it.                                                            *)
LEMMA EditInv == ASSUME SettingsInv, Edit PROVE SettingsInv'
<1>1. PICK role \in {"plan", "typo"}, risk \in {"unset", "execute"}, host \in {"no", "yes"} :
        file' = [Content EXCEPT !.role = role, !.risk = risk, !.host = host]
  BY DEF Edit
<1>2. /\ UNCHANGED <<candidate, backups, server, cmd, commands, deaths, given, reused>>
      /\ edits' = edits + 1 /\ edits < MaxEdits
  BY DEF Edit, replaced
<1>3. cmd # Nothing => cmd.at \notin Writing
  BY DEF Edit, Writing
<1>4. Content \in Doc
  BY ContentIsDoc DEF Edit, SettingsInv
<1>5. file' \in Doc /\ file'.coder = Content.coder
  BY <1>1, <1>4 DEF Doc, Risk, Host, Role
<1>6. edits' \in 0..MaxEdits
  BY <1>2, SettingsAssumption DEF SettingsInv, TypeOK
<1>7. TypeOK'
  BY <1>2, <1>5, <1>6 DEF SettingsInv, TypeOK
<1>8. FileWhole' /\ ReplacedKept'
  BY <1>2, <1>5, SettingsAssumption DEF SettingsInv, FileWhole, ReplacedKept
<1>9. WorkerReady'
  BY <1>2, <1>4, <1>5 DEF SettingsInv, WorkerReady, Content, Empty
<1>10. CommandOK'
  BY <1>2, <1>5, SettingsAssumption DEF SettingsInv, CommandOK, Readable
<1>11. ChoiceOK' /\ BuildsOK'
  BY <1>2 DEF SettingsInv, ChoiceOK, BuildsOK, Tried
<1>12. BackupsOK' /\ TextOK'
  BY <1>2, <1>3 DEF SettingsInv, BackupsOK, TextOK, Writing
<1>13. QED
  BY <1>7, <1>8, <1>9, <1>10, <1>11, <1>12 DEF SettingsInv

(* The owner leaves the file with a syntax error, no command at work.       *)
LEMMA BreakFileInv == ASSUME SettingsInv, BreakFile PROVE SettingsInv'
<1>1. /\ file' = Broken /\ edits' = edits + 1 /\ edits < MaxEdits /\ cmd' = Nothing
      /\ UNCHANGED <<candidate, backups, server, cmd, commands, deaths, given, reused>>
  BY DEF BreakFile, replaced
<1>2. edits' \in 0..MaxEdits /\ edits' > 0
  BY <1>1, SettingsAssumption DEF SettingsInv, TypeOK
<1>3. TypeOK'
  BY <1>1, <1>2 DEF SettingsInv, TypeOK
<1>4. FileWhole' /\ ReplacedKept' /\ WorkerReady'
  BY <1>1, <1>2, SettingsAssumption DEF SettingsInv, FileWhole, ReplacedKept, WorkerReady
<1>5. CommandOK' /\ ChoiceOK' /\ BuildsOK' /\ BackupsOK' /\ TextOK'
  BY <1>1 DEF SettingsInv, CommandOK, ChoiceOK, BuildsOK, BackupsOK, TextOK
<1>6. QED
  BY <1>3, <1>4, <1>5 DEF SettingsInv

(* What the terms decide is no more than what was said on them.             *)
LEMMA DecidedIsSaid ==
  ASSUME NEW t \in Terms, Possible(t)
  PROVE  Said(t) \in Agreement /\ Decide(t) \in Consent \cup {Nothing} /\ Covers(Said(t), Decide(t))
<1>1. /\ t.flagHost \in BOOLEAN /\ t.flagExec \in BOOLEAN /\ t.yes \in BOOLEAN /\ t.tty \in BOOLEAN
      /\ t.exec \in BOOLEAN /\ t.host \in BOOLEAN
  BY DEF Terms
<1>2. Questioned(t) \in BOOLEAN /\ Interactive(t) \in BOOLEAN
  BY DEF Questioned, Interactive
<1>3. Said(t) \in Agreement
  BY <1>1, <1>2 DEF Said, Agreement
<1>4. CASE t.flagHost
  <2>1. Decide(t) = [risk |-> "execute", host |-> "yes"]
    BY <1>4 DEF Decide, Questioned
  <2>2. Said(t).host /\ Said(t).exec /\ ~Said(t).refused
    BY <1>4 DEF Said, Questioned
  <2>3. QED
    BY <1>3, <2>1, <2>2, SettingsAssumption DEF Consent, Covers
<1>5. CASE ~t.flagHost /\ ~Questioned(t)
  <2>1. Decide(t) = IF t.probe = "isolated" /\ (t.flagExec \/ t.yes) THEN [risk |-> "execute", host |-> "unset"] ELSE Nothing
    BY <1>5 DEF Decide
  <2>2. ~Said(t).refused /\ (t.probe = "isolated" /\ (t.flagExec \/ t.yes) => Said(t).exec)
    BY <1>5 DEF Said
  <2>3. QED
    BY <1>3, <2>1, <2>2, SettingsAssumption DEF Consent, Covers
<1>6. CASE ~t.flagHost /\ Questioned(t)
  <2>1. Decide(t) = CASE t.exec -> [risk |-> "execute", host |-> "unset"]
                      [] t.host -> [risk |-> "execute", host |-> "yes"]
                      [] OTHER -> [risk |-> "write", host |-> "no"]
    BY <1>6 DEF Decide
  <2>2. t.host => ~t.exec
    BY DEF Possible
  <2>3. CASE t.exec
    <3>1. Decide(t) = [risk |-> "execute", host |-> "unset"]
      BY <2>1, <2>2, <2>3
    <3>2. Said(t).exec /\ ~Said(t).refused
      BY <2>3 DEF Said
    <3>3. QED
      BY <1>3, <3>1, <3>2, SettingsAssumption DEF Consent, Covers
  <2>4. CASE t.host
    <3>1. Decide(t) = [risk |-> "execute", host |-> "yes"]
      BY <2>1, <2>2, <2>4
    <3>2. Said(t).host /\ Said(t).exec /\ ~Said(t).refused
      BY <2>4 DEF Said
    <3>3. QED
      BY <1>3, <3>1, <3>2, SettingsAssumption DEF Consent, Covers
  <2>5. CASE ~t.exec /\ ~t.host
    <3>1. Decide(t) = [risk |-> "write", host |-> "no"]
      BY <2>1, <2>5
    <3>2. QED
      BY <1>3, <3>1, SettingsAssumption DEF Consent, Covers
  <2>6. QED
    BY <1>1, <2>3, <2>4, <2>5
<1>7. QED
  BY <1>1, <1>2, <1>4, <1>5, <1>6

(* A command begins with the terms it is given.                             *)
LEMMA BeginInv ==
  ASSUME SettingsInv, cmd = Nothing, commands < MaxCommands, Readable,
         IsCommand(cmd'), commands' = commands + 1,
         \/ cmd'.kind = "setup" /\ cmd'.at = "prepare"
         \/ cmd'.kind = "use" /\ cmd'.at = "read" /\ (cmd'.choice = "alias" => server["worker"] # Nothing),
         ChoiceOK', UNCHANGED <<file, candidate, backups, server, edits, deaths, given, reused>>
  PROVE  SettingsInv'
<1>1. commands' \in 0..MaxCommands
  BY SettingsAssumption DEF SettingsInv, TypeOK
<1>2. TypeOK'
  BY <1>1 DEF SettingsInv, TypeOK
<1>3. FileWhole' /\ ReplacedKept' /\ WorkerReady'
  BY DEF SettingsInv, FileWhole, ReplacedKept, WorkerReady
<1>4. CommandOK'
  BY SettingsAssumption DEF CommandOK, Steps, UseSteps, Readable, SettingsInv, TypeOK
<1>5. BuildsOK' /\ TextOK'
  BY DEF BuildsOK, TextOK, Writing
<1>6. BackupsOK'
  BY DEF BackupsOK
<1>7. QED
  BY <1>2, <1>3, <1>4, <1>5, <1>6 DEF SettingsInv

(* `nedster setup`, and `models install`, begin on the terms given.         *)
LEMMA BeginSetupInv == ASSUME SettingsInv, BeginSetup PROVE SettingsInv'
<1>1. PICK t \in Terms :
        /\ Possible(t)
        /\ cmd' = [kind |-> "setup", at |-> "prepare", said |-> Said(t), choice |-> Decide(t),
                   text |-> Nothing, second |-> Nothing]
  BY DEF BeginSetup
<1>2. /\ IsCommand(cmd') /\ cmd'.kind = "setup" /\ cmd'.at = "prepare" /\ cmd'.said = Said(t)
      /\ cmd'.choice = Decide(t)
  BY <1>1 DEF IsCommand
<1>3. ChoiceOK'
  BY <1>1, <1>2, DecidedIsSaid DEF ChoiceOK
<1>4. QED
  BY <1>2, <1>3, BeginInv DEF BeginSetup, replaced

(* `nedster models use` begins once the server has named the model.         *)
LEMMA BeginUseInv == ASSUME SettingsInv, BeginUse PROVE SettingsInv'
<1>1. PICK model \in {"alias", "other"} :
        /\ model = "alias" => server["worker"] # Nothing
        /\ cmd' = [kind |-> "use", at |-> "read", said |-> Silent, choice |-> model, text |-> Nothing,
                   second |-> Nothing]
  BY DEF BeginUse
<1>2. /\ IsCommand(cmd') /\ cmd'.kind = "use" /\ cmd'.at = "read" /\ cmd'.said = Silent
      /\ cmd'.choice = model
  BY <1>1 DEF IsCommand
<1>3. ChoiceOK'
  BY <1>2 DEF ChoiceOK, Silent, Agreement
<1>4. QED
  BY <1>1, <1>2, <1>3, BeginInv DEF BeginUse, replaced

-----------------------------------------------------------------------------
(* The service is up and the base models are pulled.                        *)
LEMMA PrepareInv == ASSUME SettingsInv, Prepare PROVE SettingsInv'
<1>1. /\ cmd # Nothing /\ cmd.at = "prepare" /\ Go("stage-worker") /\ Same
      /\ UNCHANGED <<file, candidate, backups, server>>
  BY DEF Prepare, At
<1>2. cmd.kind # "use"
  BY <1>1 DEF SettingsInv, CommandOK, UseSteps
<1>3. server' \in [Name -> Build \cup {Nothing}]
  BY <1>1 DEF SettingsInv, TypeOK
<1>4. TypeOK' /\ FileWhole' /\ ReplacedKept' /\ CommandOK' /\ ChoiceOK' /\ BackupsOK' /\ TextOK'
  BY <1>1, <1>2, <1>3, GoInv DEF Steps, Writing
<1>5. cmd'.at = "stage-worker"
  BY <1>1, GoKeeps DEF SettingsInv, CommandOK
<1>6. WorkerReady' /\ BuildsOK'
  BY <1>1, <1>5 DEF SettingsInv, WorkerReady, BuildsOK, Writing
<1>7. QED
  BY <1>4, <1>6 DEF SettingsInv

(* A build under a staged name: what is in use stays as it is.              *)
LEMMA StageInv == ASSUME SettingsInv, Stage PROVE SettingsInv'
<1>1. PICK alias \in Alias, good \in BOOLEAN :
        /\ At(Staging[alias])
        /\ server' = [server EXCEPT ![Staged[alias]] = [good |-> good]]
        /\ Go(IF alias = "worker" THEN "stage-router" ELSE "verify")
  BY DEF Stage
<1>2. /\ cmd # Nothing /\ Same /\ UNCHANGED <<file, candidate, backups>>
      /\ \/ alias = "worker" /\ cmd.at = "stage-worker" /\ Staged[alias] = "worker-next"
         \/ alias = "router" /\ cmd.at = "stage-router" /\ Staged[alias] = "router-next"
  BY <1>1 DEF Stage, At, Alias, Staging, Staged
<1>3. [good |-> good] \in Build /\ server \in [Name -> Build \cup {Nothing}]
  BY DEF Build, SettingsInv, TypeOK
<1>4. server' \in [Name -> Build \cup {Nothing}]
  BY <1>1, <1>2, <1>3 DEF Name, Alias
<1>5. /\ server'["worker"] = server["worker"] /\ server'["router"] = server["router"]
      /\ server'[Staged[alias]] # Nothing
      /\ alias = "router" => server'["worker-next"] = server["worker-next"]
  BY <1>1, <1>2, <1>3, SettingsAssumption DEF Name, Alias
<1>6. PICK step \in {"stage-router", "verify"} : Go(step) /\ step = IF alias = "worker" THEN "stage-router" ELSE "verify"
  BY <1>1
<1>7. cmd.kind # "use"
  BY <1>2 DEF SettingsInv, CommandOK, UseSteps
<1>8. TypeOK' /\ FileWhole' /\ ReplacedKept' /\ CommandOK' /\ ChoiceOK' /\ BackupsOK' /\ TextOK'
  BY <1>2, <1>4, <1>6, <1>7, GoInv DEF Steps, Writing
<1>9. cmd'.at = step
  BY <1>2, <1>6, GoKeeps DEF SettingsInv, CommandOK
<1>10. WorkerReady'
  BY <1>2, <1>5 DEF SettingsInv, WorkerReady, Alias
<1>11. BuildsOK'
  BY <1>2, <1>5, <1>6, <1>9 DEF SettingsInv, BuildsOK, Writing
<1>12. QED
  BY <1>8, <1>10, <1>11 DEF SettingsInv

(* Both staged builds answered their trial.                                 *)
LEMMA VerifyInv == ASSUME SettingsInv, Verify PROVE SettingsInv'
<1>1. /\ cmd # Nothing /\ cmd.at = "verify" /\ Go("copy-worker") /\ Same
      /\ UNCHANGED <<file, candidate, backups, server>>
  BY DEF Verify, At
<1>2. server["worker-next"].good /\ server["router-next"].good
  BY DEF Verify, Alias, Staged
<1>3. cmd.kind # "use"
  BY <1>1 DEF SettingsInv, CommandOK, UseSteps
<1>4. server' \in [Name -> Build \cup {Nothing}]
  BY <1>1 DEF SettingsInv, TypeOK
<1>5. TypeOK' /\ FileWhole' /\ ReplacedKept' /\ CommandOK' /\ ChoiceOK' /\ BackupsOK' /\ TextOK'
  BY <1>1, <1>3, <1>4, GoInv DEF Steps, Writing
<1>6. cmd'.at = "copy-worker"
  BY <1>1, GoKeeps DEF SettingsInv, CommandOK
<1>7. WorkerReady' /\ BuildsOK'
  BY <1>1, <1>2, <1>6 DEF SettingsInv, WorkerReady, BuildsOK, Tried, Writing
<1>8. QED
  BY <1>5, <1>7 DEF SettingsInv

(* Only a build that was tried comes into use.                              *)
LEMMA CopyInv == ASSUME SettingsInv, Copy PROVE SettingsInv'
<1>1. PICK alias \in Alias :
        /\ At(Copying[alias])
        /\ server' = [server EXCEPT ![alias] = server[Staged[alias]]]
        /\ Go(IF alias = "worker" THEN "copy-router" ELSE "read")
  BY DEF Copy
<1>2. /\ cmd # Nothing /\ Same /\ UNCHANGED <<file, candidate, backups>>
      /\ \/ alias = "worker" /\ cmd.at = "copy-worker" /\ Staged[alias] = "worker-next"
         \/ alias = "router" /\ cmd.at = "copy-router" /\ Staged[alias] = "router-next"
  BY <1>1 DEF Copy, At, Alias, Copying, Staged
<1>3. server \in [Name -> Build \cup {Nothing}] /\ Staged[alias] \in Name /\ alias \in Name
  BY <1>2 DEF SettingsInv, TypeOK, Name, Alias
<1>4. server' \in [Name -> Build \cup {Nothing}]
  BY <1>1, <1>3
<1>5. Tried("worker-next") /\ Tried("router-next")
  BY <1>2 DEF SettingsInv, BuildsOK
<1>6. /\ server'[alias] # Nothing /\ server'[alias].good
      /\ \A model \in Name : model # alias => server'[model] = server[model]
  BY <1>1, <1>2, <1>3, <1>5 DEF Tried
<1>7. PICK step \in {"copy-router", "read"} : Go(step) /\ step = IF alias = "worker" THEN "copy-router" ELSE "read"
  BY <1>1
<1>8. cmd.kind # "use"
  BY <1>2 DEF SettingsInv, CommandOK, UseSteps
<1>9. TypeOK' /\ FileWhole' /\ ReplacedKept' /\ CommandOK' /\ ChoiceOK' /\ BackupsOK' /\ TextOK'
  BY <1>2, <1>4, <1>7, <1>8, GoInv DEF Steps, Writing
<1>10. cmd'.at = step
  BY <1>2, <1>7, GoKeeps DEF SettingsInv, CommandOK
<1>11. alias = "router" => server["worker"] # Nothing
  BY <1>2 DEF SettingsInv, BuildsOK
<1>12. server'["worker"] # Nothing /\ Tried("worker-next")' /\ Tried("router-next")'
  BY <1>2, <1>5, <1>6, <1>11 DEF Tried, Name, Alias
<1>13. WorkerReady'
  BY <1>2, <1>6, <1>12 DEF SettingsInv, WorkerReady, Name, Alias
<1>14. BuildsOK'
  BY <1>7, <1>10, <1>12 DEF BuildsOK, Writing
<1>15. QED
  BY <1>9, <1>13, <1>14 DEF SettingsInv

-----------------------------------------------------------------------------
(* What the command will write is allowed by its terms, over the file as it *)
(* is read.                                                                 *)
LEMMA MergedIsAllowed ==
  ASSUME NEW doc \in Doc, NEW said \in Agreement, NEW choice \in Consent \cup {Nothing}, Covers(said, choice)
  PROVE  /\ Merged(doc, choice) \in Doc /\ Allowed(said, doc, Merged(doc, choice))
         /\ Merged(doc, choice).rest = doc.rest
<1> DEFINE risk == IF choice # Nothing THEN choice.risk ELSE Or(doc.risk, "write")
<1> DEFINE host == IF choice # Nothing /\ choice.host # "unset" THEN choice.host ELSE Or(doc.host, "no")
<1> DEFINE merged == Merged(doc, choice)
<1>1. merged = [doc EXCEPT !.coder = "alias", !.risk = risk, !.host = host]
  BY DEF Merged, Doc
<1>2. /\ doc.coder \in Worker /\ doc.risk \in Risk /\ doc.host \in Host /\ doc.role \in Role
      /\ choice # Nothing => choice.risk \in {"write", "execute"} /\ choice.host \in Host
  BY DEF Doc, Consent, Host
<1>3. risk \in Risk /\ host \in Host
  BY <1>2 DEF Or, Risk, Host
<1>4. /\ merged \in Doc /\ merged.role = doc.role /\ merged.risk = risk /\ merged.host = host
      /\ merged.rest = doc.rest
  BY <1>1, <1>3 DEF Doc, Worker
<1>5. host = "yes" => said.host \/ (doc.host = "yes" /\ ~said.refused)
  BY <1>2 DEF Covers, Or
<1>6. risk = "execute" => said.exec \/ (doc.risk = "execute" /\ ~said.refused)
  BY <1>2 DEF Covers, Or
<1>7. QED
  BY <1>4, <1>5, <1>6 DEF Allowed

(* Writing a document anew keeps it allowed, or garbles one that cannot be. *)
LEMMA DumpedIsWritten ==
  ASSUME NEW said, NEW old \in Doc, NEW doc \in Doc, Allowed(said, old, doc), doc.rest = old.rest
  PROVE  Written(said, old, Dumped(doc)) /\ (Dumped(doc) \in Doc => Dumped(doc).coder = doc.coder)
<1>1. CASE doc.rest = "awkward"
  BY <1>1, SettingsAssumption DEF Dumped, Written
<1>2. CASE doc.rest = "nested"
  <2>1. Dumped(doc) = [doc EXCEPT !.rest = "flat"]
    BY <1>2 DEF Dumped
  <2>2. /\ Dumped(doc) \in Doc /\ Dumped(doc).coder = doc.coder /\ Dumped(doc).role = doc.role
        /\ Dumped(doc).host = doc.host /\ Dumped(doc).risk = doc.risk
    BY <2>1 DEF Doc, Rest
  <2>3. QED
    BY <1>2, <2>2 DEF Written, Allowed
<1>3. CASE doc.rest \notin {"awkward", "nested"}
  BY <1>3 DEF Dumped, Written
<1>4. QED
  BY <1>1, <1>2, <1>3

(* The text of a command is made of the file as it is now.                  *)
LEMMA ReadExistingInv == ASSUME SettingsInv, ReadExisting PROVE SettingsInv'
<1> DEFINE doc == IF cmd.kind = "use" THEN [Content EXCEPT !.coder = cmd.choice] ELSE Merged(Content, cmd.choice)
<1> DEFINE text == Dumped(doc)
<1>1. /\ cmd # Nothing /\ cmd.at = "read" /\ cmd' = [cmd EXCEPT !.at = "write", !.text = text]
      /\ UNCHANGED <<file, candidate, backups, server, commands, edits, deaths, given, reused>>
  BY DEF ReadExisting, At, Same, replaced
<1>2. IsCommand(cmd) /\ cmd.kind \in {"setup", "use"} /\ cmd.said \in Agreement
  BY <1>1 DEF SettingsInv, CommandOK, ChoiceOK
<1>3. /\ IsCommand(cmd') /\ cmd'.at = "write" /\ cmd'.text = text
      /\ cmd'.kind = cmd.kind /\ cmd'.said = cmd.said /\ cmd'.choice = cmd.choice /\ cmd'.second = cmd.second
  <2> HIDE DEF text
  <2>1. cmd' = [kind |-> cmd.kind, at |-> "write", said |-> cmd.said, choice |-> cmd.choice, text |-> text,
                second |-> cmd.second]
    BY <1>1, <1>2 DEF IsCommand
  <2>2. QED
    BY <2>1 DEF IsCommand
<1>4. Content \in Doc
  BY ContentIsDoc DEF ReadExisting, SettingsInv
<1>a. /\ doc \in Doc /\ Allowed(cmd.said, Content, doc) /\ doc.rest = Content.rest
      /\ doc.coder = "alias" => server["worker"] # Nothing
  <2>1. CASE cmd.kind = "use"
    <3>1. cmd.choice \in {"alias", "other"} /\ ~cmd.said.refused
      BY <1>1, <2>1 DEF SettingsInv, ChoiceOK
    <3>2. doc = [Content EXCEPT !.coder = cmd.choice]
      BY <2>1
    <3>3. /\ doc \in Doc /\ doc.coder = cmd.choice /\ doc.role = Content.role
          /\ doc.host = Content.host /\ doc.risk = Content.risk /\ doc.rest = Content.rest
      BY <1>4, <3>1, <3>2 DEF Doc, Worker
    <3>4. QED
      BY <1>1, <3>1, <3>3 DEF Allowed, SettingsInv, BuildsOK
  <2>2. CASE cmd.kind = "setup"
    <3>1. cmd.choice \in Consent \cup {Nothing} /\ Covers(cmd.said, cmd.choice) /\ server["worker"] # Nothing
      BY <1>1, <2>2 DEF SettingsInv, ChoiceOK, BuildsOK
    <3>2. doc = Merged(Content, cmd.choice)
      BY <2>2
    <3>3. QED
      BY <1>2, <1>4, <3>1, <3>2, MergedIsAllowed
  <2>3. QED
    BY <1>2, <2>1, <2>2
<1> HIDE DEF doc
<1>5. Written(cmd.said, Content, text) /\ (text \in Doc /\ text.coder = "alias" => server["worker"] # Nothing)
  BY <1>4, <1>a, DumpedIsWritten
<1> HIDE DEF text
<1>6. Content' = Content
  BY <1>1 DEF Content
<1>7. CommandOK' /\ ChoiceOK'
  BY <1>1, <1>3 DEF SettingsInv, CommandOK, ChoiceOK, Covers, Steps, UseSteps, Readable
<1>8. TypeOK'
  BY <1>1, <1>2, <1>3 DEF SettingsInv, TypeOK
<1>9. FileWhole' /\ ReplacedKept' /\ WorkerReady'
  BY <1>1 DEF SettingsInv, FileWhole, ReplacedKept, WorkerReady
<1>10. BuildsOK' /\ BackupsOK' /\ TextOK'
  BY <1>1, <1>3, <1>5, <1>6 DEF SettingsInv, BuildsOK, BackupsOK, TextOK, Writing
<1>11. QED
  BY <1>7, <1>8, <1>9, <1>10 DEF SettingsInv

(* The candidate is torn until it is whole.                                 *)
LEMMA WriteCandidateInv == ASSUME SettingsInv, WriteCandidate PROVE SettingsInv'
<1>1. /\ cmd # Nothing /\ cmd.at = "write" /\ cmd.text \in Doc \cup {Garbled} /\ IsCommand(cmd)
      /\ UNCHANGED <<file, backups, server, commands, edits, deaths, given, reused>>
  BY DEF WriteCandidate, At, Same, replaced, SettingsInv, TextOK, CommandOK, Writing, Written
<1>2. FileWhole' /\ ReplacedKept' /\ WorkerReady' /\ Content' = Content
  BY <1>1 DEF SettingsInv, FileWhole, ReplacedKept, WorkerReady, Content
<1>3. CASE candidate' = Torn /\ UNCHANGED cmd
  <2>1. TypeOK'
    BY <1>1, <1>3 DEF SettingsInv, TypeOK
  <2>2. CommandOK' /\ ChoiceOK' /\ BackupsOK' /\ TextOK'
    BY <1>1, <1>2, <1>3 DEF SettingsInv, CommandOK, ChoiceOK, BackupsOK, TextOK, Readable
  <2>3. BuildsOK'
    BY <1>1, <1>3 DEF SettingsInv, BuildsOK, Writing
  <2>4. QED
    BY <1>2, <2>1, <2>2, <2>3 DEF SettingsInv
<1>4. CASE candidate' = cmd.text /\ Go("backup")
  <2>1. /\ IsCommand(cmd') /\ cmd'.at = "backup"
        /\ cmd'.kind = cmd.kind /\ cmd'.said = cmd.said /\ cmd'.choice = cmd.choice
        /\ cmd'.text = cmd.text /\ cmd'.second = cmd.second
    BY <1>1, <1>4, GoKeeps
  <2>2. CommandOK' /\ ChoiceOK'
    BY <1>1, <2>1 DEF SettingsInv, CommandOK, ChoiceOK, Covers, Steps, UseSteps, Readable
  <2>3. TypeOK'
    BY <1>1, <1>4, <2>2 DEF SettingsInv, TypeOK, CommandOK
  <2>4. BuildsOK' /\ BackupsOK' /\ TextOK'
    BY <1>1, <1>2, <1>4, <2>1 DEF SettingsInv, BuildsOK, BackupsOK, TextOK, Writing
  <2>5. QED
    BY <1>2, <2>2, <2>3, <2>4 DEF SettingsInv
<1>5. QED
  BY <1>3, <1>4 DEF WriteCandidate

(* What the copies of the file are after a step: each one that stands for   *)
(* something replaced still holds it, or was written over.                  *)
CopiesStand ==
  /\ backups' \in [Second -> Doc \cup {Absent, Torn}] /\ reused' \subseteq Second
  /\ \A old \in given : old.second \in reused' \/ backups'[old.second] = old.text

LEMMA KeepKeeps ==
  ASSUME SettingsInv, NEW now \in Second, NEW content \in Doc \cup {Torn}, Keep(now, content)
  PROVE  CopiesStand /\ backups'[now] = content
<1>1. backups \in [Second -> Doc \cup {Absent, Torn}] /\ reused \subseteq Second
  BY DEF SettingsInv, TypeOK
<1>2. /\ backups' \in [Second -> Doc \cup {Absent, Torn}] /\ backups'[now] = content
      /\ \A s \in Second : s # now => backups'[s] = backups[s]
  BY <1>1 DEF Keep
<1>3. reused \subseteq reused' /\ reused' \subseteq Second /\ (backups[now] # Absent => now \in reused')
  BY <1>1 DEF Keep
<1>4. ASSUME NEW old \in given PROVE old.second \in reused' \/ backups'[old.second] = old.text
  <2>1. old.second \in Second /\ old.text \in Doc /\ (old.second \in reused \/ backups[old.second] = old.text)
    BY <1>4 DEF SettingsInv, TypeOK, ReplacedKept
  <2>2. old.text # Absent
    BY <2>1, SettingsAssumption
  <2>3. QED
    BY <1>2, <1>3, <2>1, <2>2
<1>5. QED
  BY <1>2, <1>3, <1>4 DEF CopiesStand

(* So do they where no copy is made, and where one is cut off.              *)
LEMMA CopiesKeep == ASSUME SettingsInv, UNCHANGED <<backups, reused>> \/ CutCopy PROVE CopiesStand
<1>1. CASE UNCHANGED <<backups, reused>>
  BY <1>1 DEF CopiesStand, SettingsInv, TypeOK, ReplacedKept
<1>2. CASE \E now \in Second : Keep(now, Torn)
  BY <1>2, KeepKeeps
<1>3. QED
  BY <1>1, <1>2 DEF CutCopy

(* The old file is copied before the rename.                                *)
LEMMA BackupInv == ASSUME SettingsInv, Backup PROVE SettingsInv'
<1>1. /\ cmd # Nothing /\ cmd.at = "backup" /\ IsCommand(cmd)
      /\ UNCHANGED <<file, candidate, server, commands, edits, deaths, given>>
  BY DEF Backup, At, SettingsInv, CommandOK
<1>2. /\ IsCommand(cmd') /\ cmd'.at = "replace"
      /\ cmd'.kind = cmd.kind /\ cmd'.said = cmd.said /\ cmd'.choice = cmd.choice /\ cmd'.text = cmd.text
      /\ CopiesStand /\ (file # Absent => cmd'.second \in Second /\ backups'[cmd'.second] = file)
  <2>1. CASE file # Absent
    <3>1. PICK now \in Second : CopyAt(now)
      BY <2>1 DEF Backup
    <3>2. Keep(now, file) /\ cmd' = [cmd EXCEPT !.at = "replace", !.second = now]
      BY <3>1 DEF CopyAt
    <3>3. file \in Doc
      BY <1>1, <2>1 DEF SettingsInv, CommandOK, TypeOK, Readable
    <3>4. CopiesStand /\ backups'[now] = file
      BY <3>2, <3>3, KeepKeeps
    <3>5. cmd' = [kind |-> cmd.kind, at |-> "replace", said |-> cmd.said, choice |-> cmd.choice, text |-> cmd.text,
                  second |-> now]
      BY <1>1, <3>2 DEF IsCommand
    <3>6. QED
      BY <3>4, <3>5 DEF IsCommand
  <2>2. CASE file = Absent
    BY <1>1, <2>2, GoKeeps, CopiesKeep DEF Backup
  <2>3. QED
    BY <2>1, <2>2
<1>3. CommandOK' /\ ChoiceOK'
  BY <1>1, <1>2 DEF SettingsInv, CommandOK, ChoiceOK, Covers, Steps, UseSteps, Readable
<1>4. FileWhole' /\ WorkerReady' /\ Content' = Content
  BY <1>1 DEF SettingsInv, FileWhole, WorkerReady, Content
<1>5. BuildsOK' /\ TextOK'
  BY <1>1, <1>2, <1>4 DEF SettingsInv, BuildsOK, TextOK, Writing
<1>6. TypeOK' /\ ReplacedKept'
  BY <1>1, <1>2, <1>3 DEF SettingsInv, TypeOK, CommandOK, CopiesStand, ReplacedKept
<1>7. BackupsOK'
  BY <1>1, <1>2 DEF BackupsOK
<1>8. QED
  BY <1>3, <1>4, <1>5, <1>6, <1>7 DEF SettingsInv

(* The rename: what is replaced has its copy, and what replaces it is the   *)
(* text the terms allow.                                                    *)
LEMMA ReplaceInv ==
  ASSUME SettingsInv, Replace
  PROVE  SettingsInv' /\ Written(cmd.said, Content, file')
<1>1. /\ cmd # Nothing /\ cmd.at = "replace" /\ IsCommand(cmd) /\ Go("clean") /\ Readable
      /\ file' = candidate /\ candidate' = Absent
      /\ given' = IF file = Absent THEN given ELSE given \cup {[second |-> cmd.second, text |-> file]}
      /\ UNCHANGED <<backups, server, commands, edits, deaths, reused>>
  BY DEF Replace, At, SettingsInv, CommandOK
<1>2. /\ file' = cmd.text /\ Written(cmd.said, Content, file') /\ file' \in Doc \cup {Garbled}
      /\ file' \in Doc /\ file'.coder = "alias" => server["worker"] # Nothing
  BY <1>1 DEF SettingsInv, TextOK, BuildsOK, Writing, Written
<1>3. /\ IsCommand(cmd') /\ cmd'.at = "clean"
      /\ cmd'.kind = cmd.kind /\ cmd'.said = cmd.said /\ cmd'.choice = cmd.choice
      /\ cmd'.text = cmd.text /\ cmd'.second = cmd.second
  BY <1>1, GoKeeps
<1>4. CommandOK' /\ ChoiceOK'
  BY <1>1, <1>3 DEF SettingsInv, CommandOK, ChoiceOK, Covers, Steps, UseSteps
<1>5. file # Absent =>
        file \in Doc /\ cmd.second \in Second /\ backups[cmd.second] = file /\ Content = file
  BY <1>1 DEF SettingsInv, TypeOK, BackupsOK, Readable, Content
<1>6. TypeOK'
  BY <1>1, <1>2, <1>4, <1>5 DEF SettingsInv, TypeOK, CommandOK
<1>7. FileWhole'
  <2>1. ASSUME file' = Garbled PROVE \E old \in given' : old.text.rest = "awkward"
    <3>1. Content.rest = "awkward"
      BY <1>2, <2>1, SettingsAssumption DEF Written
    <3>2. file # Absent
      BY <3>1 DEF Content, Empty
    <3>3. [second |-> cmd.second, text |-> file] \in given'
      BY <1>1, <3>2
    <3>4. QED
      BY <1>5, <3>1, <3>2, <3>3
  <2>2. QED
    BY <1>2, <2>1, SettingsAssumption DEF FileWhole
<1>8. WorkerReady'
  BY <1>1, <1>2 DEF SettingsInv, WorkerReady
<1>9. ReplacedKept'
  BY <1>1, <1>5 DEF SettingsInv, ReplacedKept
<1>10. BuildsOK' /\ BackupsOK' /\ TextOK'
  BY <1>1, <1>3 DEF SettingsInv, BuildsOK, BackupsOK, TextOK, Writing
<1>11. QED
  BY <1>2, <1>4, <1>6, <1>7, <1>8, <1>9, <1>10 DEF SettingsInv

-----------------------------------------------------------------------------
(* The clean-up only takes what was staged.                                 *)
LEMMA UnstageKeeps ==
  ASSUME SettingsInv, cmd # Nothing, Unstage \/ UNCHANGED server
  PROVE  /\ server' \in [Name -> Build \cup {Nothing}]
         /\ \A alias \in Alias : server'[alias] = server[alias]
<1>1. server \in [Name -> Build \cup {Nothing}]
  BY DEF SettingsInv, TypeOK
<1>2. CASE UNCHANGED server
  BY <1>1, <1>2
<1>3. CASE ~ UNCHANGED server
  <2>1. PICK gone \in SUBSET Created : server' = [n \in Name |-> IF n \in gone THEN Nothing ELSE server[n]]
    BY <1>3 DEF Unstage
  <2>2. Created \subseteq {"worker-next", "router-next"}
    BY DEF Created, Staged, Alias
  <2>3. "worker" \notin gone /\ "router" \notin gone
    BY <2>2
  <2>4. QED
    BY <1>1, <2>1, <2>3 DEF Name, Alias
<1>4. QED
  BY <1>2, <1>3

(* However a command ends, what it leaves is as good as what it found.      *)
LEMMA EndInv ==
  ASSUME SettingsInv, cmd # Nothing, cmd' = Nothing, Unstage \/ UNCHANGED server, candidate' \in {Absent, candidate},
         UNCHANGED <<file, commands, edits, given>>, deaths' \in 0..MaxDeaths, CopiesStand
  PROVE  SettingsInv'
<1>1. server' \in [Name -> Build \cup {Nothing}] /\ \A alias \in Alias : server'[alias] = server[alias]
  BY UnstageKeeps
<1>2. TypeOK'
  BY <1>1 DEF SettingsInv, TypeOK, CopiesStand
<1>3. FileWhole' /\ ReplacedKept'
  BY DEF SettingsInv, FileWhole, ReplacedKept, CopiesStand
<1>4. WorkerReady'
  BY <1>1 DEF SettingsInv, WorkerReady, Alias
<1>5. CommandOK' /\ ChoiceOK' /\ BuildsOK' /\ BackupsOK' /\ TextOK'
  BY DEF CommandOK, ChoiceOK, BuildsOK, BackupsOK, TextOK
<1>6. QED
  BY <1>2, <1>3, <1>4, <1>5 DEF SettingsInv

(* The end of a command that went through.                                  *)
LEMMA FinishInv == ASSUME SettingsInv, Finish PROVE SettingsInv'
<1>1. /\ cmd # Nothing /\ cmd' = Nothing /\ Unstage
      /\ UNCHANGED <<file, candidate, backups, commands, edits, deaths, given, reused>>
  BY DEF Finish, At, Same, replaced
<1>2. deaths' \in 0..MaxDeaths
  BY <1>1 DEF SettingsInv, TypeOK
<1>3. QED
  BY <1>1, <1>2, CopiesKeep, EndInv

(* A step that fails ends the command, a torn copy at most left behind.     *)
LEMMA FailInv == ASSUME SettingsInv, Fail PROVE SettingsInv'
<1>1. /\ cmd # Nothing /\ cmd' = Nothing /\ Unstage /\ candidate' \in {Absent, candidate} /\ CutCopy
      /\ UNCHANGED <<file, commands, edits, deaths, given>>
  BY DEF Fail
<1>2. deaths' \in 0..MaxDeaths
  BY <1>1 DEF SettingsInv, TypeOK
<1>3. QED
  BY <1>1, <1>2, CopiesKeep, EndInv

(* A command that is killed or interrupted leaves what it had done.         *)
LEMMA DieInv == ASSUME SettingsInv, Die PROVE SettingsInv'
<1>1. /\ cmd # Nothing /\ cmd' = Nothing /\ (Unstage \/ UNCHANGED server) /\ CutCopy
      /\ UNCHANGED <<file, candidate, commands, edits, given>>
      /\ deaths < MaxDeaths /\ deaths' = deaths + 1
  BY DEF Die
<1>2. deaths' \in 0..MaxDeaths
  BY <1>1, SettingsAssumption DEF SettingsInv, TypeOK
<1>3. QED
  BY <1>1, <1>2, CopiesKeep, EndInv

-----------------------------------------------------------------------------
(* No step but the rename replaces the file for a command.                  *)
LEMMA SettingsStepInv == ASSUME SettingsInv, SettingsNext PROVE SettingsInv' /\ AsAgreed
<1>1. CASE Edit
  <2>1. edits' # edits
    BY <1>1, SettingsAssumption DEF Edit, SettingsInv, TypeOK
  <2>2. QED
    BY <1>1, <2>1, EditInv DEF AsAgreed
<1>2. CASE BreakFile
  BY <1>2, BreakFileInv DEF AsAgreed, BreakFile
<1>3. CASE BeginSetup
  BY <1>3, BeginSetupInv DEF AsAgreed, BeginSetup
<1>4. CASE BeginUse
  BY <1>4, BeginUseInv DEF AsAgreed, BeginUse
<1>5. CASE Prepare
  BY <1>5, PrepareInv DEF AsAgreed, Prepare
<1>6. CASE Stage
  BY <1>6, StageInv DEF AsAgreed, Stage
<1>7. CASE Verify
  BY <1>7, VerifyInv DEF AsAgreed, Verify
<1>8. CASE Copy
  BY <1>8, CopyInv DEF AsAgreed, Copy
<1>9. CASE ReadExisting
  BY <1>9, ReadExistingInv DEF AsAgreed, ReadExisting
<1>10. CASE WriteCandidate
  BY <1>10, WriteCandidateInv DEF AsAgreed, WriteCandidate
<1>11. CASE Backup
  BY <1>11, BackupInv DEF AsAgreed, Backup
<1>12. CASE Replace
  BY <1>12, ReplaceInv DEF AsAgreed, Allowed, Written
<1>13. CASE Finish
  BY <1>13, FinishInv DEF AsAgreed, Finish
<1>14. CASE Fail
  BY <1>14, FailInv DEF AsAgreed, Fail
<1>15. CASE Die
  BY <1>15, DieInv DEF AsAgreed, Die
<1>16. QED
  BY <1>1, <1>2, <1>3, <1>4, <1>5, <1>6, <1>7, <1>8, <1>9, <1>10, <1>11, <1>12, <1>13, <1>14, <1>15
     DEF SettingsNext, CommandStep

(* Every step of the whole keeps the settings as they must be.              *)
LEMMA SettingsStands == ASSUME SettingsInv, [Next]_startup PROVE SettingsInv' /\ [AsAgreed]_settings
<1>1. CASE Settle
  BY <1>1, SettingsStepInv DEF Settle
<1>2. CASE UNCHANGED settings
  <2>1. SettingsInv'
    <3>1. UNCHANGED <<file, candidate, backups, server, cmd, commands, edits, deaths, given, reused>>
      BY <1>2 DEF settings, replaced
    <3>2. (TypeOK /\ FileWhole /\ ReplacedKept /\ WorkerReady)'
      BY <3>1 DEF SettingsInv, TypeOK, FileWhole, ReplacedKept, WorkerReady
    <3>3. (CommandOK /\ ChoiceOK /\ BuildsOK)'
      BY <3>1 DEF SettingsInv, CommandOK, ChoiceOK, BuildsOK, Tried, Readable
    <3>4. (BackupsOK /\ TextOK)'
      BY <3>1 DEF SettingsInv, BackupsOK, TextOK, Content
    <3>5. QED
      BY <3>2, <3>3, <3>4 DEF SettingsInv
  <2>2. QED
    BY <1>2, <2>1
<1>3. QED
  BY <1>1, <1>2 DEF Next, OpenProcess, Talk, startup

(* What a command has in hand at each step is as it must be.                *)
THEOREM SettingsInvariant == Spec => []SettingsInv
<1>1. Init => SettingsInv
  BY SettingsInitInv DEF Init
<1>2. SettingsInv /\ [Next]_startup => SettingsInv'
  BY SettingsStands
<1>3. QED
  BY <1>1, <1>2, PTL DEF Spec

(* Whatever its flags and its terminal, no command line waits for an answer *)
(* that cannot come or deletes unasked, and none opens the full screen over *)
(* another output (_check_flags, _tui_or_help, _sessions_delete, _soul).    *)
THEOREM LinesConfirmed == Confirmed
<1>1. ASSUME NEW l \in Line, ~Misused(l)
      PROVE  /\ AsksYesNo(l) => l.stdin
             /\ \A agreed \in BOOLEAN : Changes(l, agreed) /\ l.action \in {"delete", "remember"} =>
                  Has(l, "yes") \/ (l.stdin /\ agreed)
  <2>1. /\ l.action = "delete" => Has(l, "dry-run") \/ Has(l, "yes") \/ l.stdin
        /\ l.action = "remember" => Has(l, "yes") \/ l.stdin
    BY <1>1 DEF Misused, Unanswerable
  <2>2. l.action = "delete" /\ ~Has(l, "yes") => Has(l, "dry-run") \/ AsksYesNo(l)
    BY DEF AsksYesNo
  <2>3. l.action = "remember" /\ ~Has(l, "yes") => AsksYesNo(l)
    BY DEF AsksYesNo
  <2>4. AsksYesNo(l) => l.stdin
    BY <2>1 DEF AsksYesNo, Admitted
  <2>5. ASSUME NEW agreed \in BOOLEAN, Changes(l, agreed), l.action \in {"delete", "remember"}
        PROVE  Has(l, "yes") \/ (l.stdin /\ agreed)
    <3>1. ~Has(l, "dry-run") /\ (AsksYesNo(l) => agreed)
      BY <2>5 DEF Changes, Previews
    <3>2. QED
      BY <2>2, <2>3, <2>4, <2>5, <3>1
  <2>6. QED
    BY <2>4, <2>5
<1>2. ASSUME NEW l \in Line, Misused(l)
      PROVE  \A agreed \in BOOLEAN : ~Changes(l, agreed)
  BY <1>2 DEF Changes
<1>3. ASSUME NEW l \in Line, OpensWindow(l)
      PROVE  l.stdin /\ l.stdout /\ Modes(l) = {}
  <2>1. l.stdin /\ l.stdout /\ ~Has(l, "json") /\ ~Has(l, "plain") /\ l.verb \in {"bare", "tui", "resume"}
    BY <1>3 DEF OpensWindow, Admitted
  <2>2. PICK verb \in Verb : \E action \in Actions(verb) : l \in LinesOf(verb, action)
    BY DEF Line
  <2>. PICK action \in Actions(verb) : l \in LinesOf(verb, action)
    BY <2>2
  <2>3. l.verb = verb /\ l.flags \subseteq Everywhere \cup OwnFlags(verb, action)
    BY DEF LinesOf
  <2>4. action = "none"
    BY <2>1, <2>3 DEF Actions
  <2>5. "jsonl" \notin l.flags
    BY <2>1, <2>3, <2>4 DEF OwnFlags, Everywhere
  <2>6. QED
    BY <2>1, <2>5 DEF Modes, Has
<1>4. QED
  BY <1>1, <1>2, <1>3 DEF Confirmed

(* Wherever a setup stops, by failing or by dying, the file is whole, what  *)
(* it replaced can be had back, the worker it names is there and was tried, *)
(* and it allows no more than the user agreed to.                           *)
THEOREM SettingsHold == Spec => SettingsStand
<1>1. SettingsInv => TypeOK /\ FileWhole /\ ReplacedKept /\ WorkerReady /\ Confirmed
  BY LinesConfirmed DEF SettingsInv
<1>2. SettingsInv /\ [Next]_startup => [AsAgreed]_settings
  BY SettingsStands
<1>3. Spec => OnlyAsAgreed
  BY <1>2, SettingsInvariant, PTL DEF Spec, OnlyAsAgreed
<1>4. QED
  BY <1>1, <1>3, SettingsInvariant, PTL DEF SettingsStand

-----------------------------------------------------------------------------
(* The layers, one key at a time.                                           *)
LEMMA RankIs == Rank["read"] = 0 /\ Rank["write"] = 1 /\ Rank["execute"] = 2
BY DEF Rank

Settled(base) ==
  base.risk \in {"read", "write", "execute"} /\ base.host \in BOOLEAN /\ base.role \in {"code", "plan"}

(* A layer of the owner's own replaces the keys it sets.                    *)
LEMMA LaidKeys ==
  ASSUME NEW base, NEW layer, layer.role \in Role, layer.risk \in Risk, layer.host \in Host, Settled(base)
  PROVE  /\ Settled(Laid(base, layer))
         /\ Laid(base, layer).risk = IF layer.risk = "unset" THEN base.risk ELSE layer.risk
         /\ Laid(base, layer).host = IF layer.host = "unset" THEN base.host ELSE layer.host = "yes"
         /\ Laid(base, layer).role = IF layer.role \in {"unset", "typo"} THEN base.role ELSE layer.role
BY DEF Laid, Or, Settled, Role, Risk, Host

(* A project's layer only takes away.                                       *)
LEMMA TightenedKeys ==
  ASSUME NEW user, NEW layer, user.role \in Role, user.risk \in Risk, user.host \in Host,
         layer.risk \in Risk, layer.host \in Host, NEW base, base = Laid(Defaults, user)
  PROVE  /\ Settled(base) /\ Settled(Tightened(base, layer))
         /\ Tightened(base, layer).role = base.role
         /\ Tightened(base, layer).host <=> base.host /\ layer.host # "no"
         /\ Tightened(base, layer).risk = IF layer.risk # "unset" /\ Rank[layer.risk] < Rank[base.risk]
                                          THEN layer.risk ELSE base.risk
<1>1. Settled(Defaults)
  BY DEF Settled, Defaults
<1>2. Settled(base)
  BY <1>1, LaidKeys
<1> DEFINE risk == IF layer.risk # "unset" /\ Rank[layer.risk] < Rank[base.risk] THEN layer.risk ELSE base.risk
<1> DEFINE host == base.host /\ layer.host # "no"
<1> DEFINE coder == Or(layer.coder, base.coder)
<1>3. base = [coder |-> base.coder, risk |-> base.risk, host |-> base.host, role |-> base.role]
  BY DEF Laid
<1>4. Tightened(base, layer) = [base EXCEPT !.coder = coder, !.risk = risk, !.host = host]
  BY <1>3 DEF Tightened
<1>5. risk \in {"read", "write", "execute"} /\ host \in BOOLEAN
  BY <1>2 DEF Settled, Risk
<1> HIDE DEF risk, host, coder
<1>6. Tightened(base, layer) = [coder |-> coder, risk |-> risk, host |-> host, role |-> base.role]
  BY <1>3, <1>4
<1>7. Tightened(base, layer).host = host /\ Tightened(base, layer).risk = risk /\ Tightened(base, layer).role = base.role
  BY <1>6
<1>8. Settled(Tightened(base, layer))
  BY <1>2, <1>5, <1>7 DEF Settled
<1>9. QED
  BY <1>2, <1>7, <1>8 DEF risk, host

(* What each layer leaves of a project's file: the environment's key, or    *)
(* the stricter of the project's and the owner's.                           *)
LEMMA ResolvedKeys ==
  ASSUME NEW user \in Doc, NEW its, its.risk \in Risk, its.host \in Host, NEW env \in Environment,
         NEW base, base = Laid(Defaults, user)
  PROVE  LET resolved == Resolve(user, its, env, Empty)
         IN  /\ Settled(base)
             /\ resolved.role = base.role
             /\ resolved.host <=> base.host /\ its.host # "no"
             /\ resolved.risk = IF env.risk # "unset" THEN env.risk
                               ELSE IF its.risk # "unset" /\ Rank[its.risk] < Rank[base.risk] THEN its.risk
                               ELSE base.risk
             /\ user.role = "plan" => base.role = "plan"
<1>1. user.role \in Role /\ user.risk \in Risk /\ user.host \in Host
  BY DEF Doc
<1>2. env.risk \in {"unset", "execute"} /\ env.host = "unset" /\ env.role \in {"unset", "typo"}
  BY DEF Environment
<1>3. env.role \in Role /\ env.risk \in Risk /\ env.host \in Host
  BY <1>2 DEF Role, Risk, Host
<1>4. Empty.risk = "unset" /\ Empty.host = "unset" /\ Empty.role = "unset"
  BY DEF Empty
<1>5. Empty.role \in Role /\ Empty.risk \in Risk /\ Empty.host \in Host
  BY <1>4 DEF Role, Risk, Host
<1> DEFINE strict == Tightened(base, its)
<1> DEFINE wanted == Laid(strict, env)
<1> DEFINE resolved == Laid(wanted, Empty)
<1>6. /\ Settled(base) /\ Settled(strict) /\ strict.role = base.role
      /\ strict.host <=> base.host /\ its.host # "no"
      /\ strict.risk = IF its.risk # "unset" /\ Rank[its.risk] < Rank[base.risk] THEN its.risk ELSE base.risk
  BY <1>1, TightenedKeys
<1> HIDE DEF strict
<1>7. /\ Settled(wanted) /\ wanted.role = strict.role /\ wanted.host = strict.host
      /\ wanted.risk = IF env.risk = "unset" THEN strict.risk ELSE env.risk
  BY <1>2, <1>3, <1>6, LaidKeys
<1> HIDE DEF wanted
<1>8. resolved.role = wanted.role /\ resolved.host = wanted.host /\ resolved.risk = wanted.risk
  BY <1>4, <1>5, <1>7, LaidKeys
<1>9. Resolve(user, its, env, Empty) = resolved
  BY DEF Resolve, wanted, strict
<1>10. user.role = "plan" => base.role = "plan"
  <2>1. Settled(Defaults)
    BY DEF Settled, Defaults
  <2>2. QED
    BY <1>1, <2>1, LaidKeys
<1> HIDE DEF resolved
<1>11. QED
  BY <1>6, <1>7, <1>8, <1>9, <1>10

(* No file of a project, whatever it says, lets more be done than without   *)
(* it, nor picks the role, nor does a misspelt one widen it.                *)
THEOREM ProjectOnlyTightens == Spec => []ProjectTightens
<1>1. ASSUME SettingsInv PROVE ProjectTightens
  <2>1. SUFFICES ASSUME Readable, NEW env \in Environment, NEW its \in Layer
                 PROVE  LET with == Resolve(Content, its, env, Empty)
                            without == Resolve(Content, Empty, env, Empty)
                        IN /\ Rank[with.risk] <= Rank[without.risk]
                           /\ with.host => without.host
                           /\ with.role = without.role
                           /\ Content.role = "plan" => with.role = "plan"
    BY DEF ProjectTightens
  <2>2. Content \in Doc
    BY <1>1, <2>1, ContentIsDoc DEF SettingsInv
  <2>3. PICK user \in Doc : user = Content
    BY <2>2
  <2>4. PICK base : base = Laid(Defaults, user)
    OBVIOUS
  <2>5. PICK with : with = Resolve(user, its, env, Empty)
    OBVIOUS
  <2>6. PICK without : without = Resolve(user, Empty, env, Empty)
    OBVIOUS
  <2>7. its.risk \in {"read", "execute"} /\ its.host \in {"no", "yes"}
    BY <2>1 DEF Layer
  <2>8. /\ Settled(base) /\ with.role = base.role
        /\ with.host <=> base.host /\ its.host # "no"
        /\ with.risk = IF env.risk # "unset" THEN env.risk
                       ELSE IF its.risk # "unset" /\ Rank[its.risk] < Rank[base.risk] THEN its.risk
                       ELSE base.risk
        /\ user.role = "plan" => base.role = "plan"
    <3>1. its.risk \in Risk /\ its.host \in Host
      BY <2>7 DEF Risk, Host
    <3>2. QED
      BY <2>4, <2>5, <3>1, ResolvedKeys
  <2>9. /\ without.role = base.role /\ (without.host <=> base.host)
        /\ without.risk = IF env.risk # "unset" THEN env.risk ELSE base.risk
    <3>1. Empty.risk = "unset" /\ Empty.host = "unset"
      BY DEF Empty
    <3>2. Empty.risk \in Risk /\ Empty.host \in Host
      BY <3>1 DEF Risk, Host
    <3>3. /\ without.role = base.role
          /\ without.host <=> base.host /\ Empty.host # "no"
          /\ without.risk = IF env.risk # "unset" THEN env.risk
                           ELSE IF Empty.risk # "unset" /\ Rank[Empty.risk] < Rank[base.risk] THEN Empty.risk
                           ELSE base.risk
      BY <2>4, <2>6, <3>2, ResolvedKeys
    <3>4. QED
      BY <3>1, <3>3
  <2>10. env.risk \in {"unset", "execute"}
    BY DEF Environment
  <2>11. Rank[with.risk] <= Rank[without.risk]
    BY <2>7, <2>8, <2>9, <2>10, RankIs DEF Settled
  <2>12. QED
    BY <2>3, <2>5, <2>6, <2>8, <2>9, <2>11
<1>2. QED
  BY <1>1, SettingsInvariant, PTL

-----------------------------------------------------------------------------
(* Sequences *)

\* A set of naturals that is not empty has a first one.
LEMMA HasFirst ==
  ASSUME NEW S \in SUBSET Nat, S # {}
  PROVE  \E x \in S : \A y \in S : x <= y
<1>1. PICK x \in S : \A y \in S : ~(<<y, x>> \in OpToRel(<, Nat))
  BY NatLessThanWellFounded, WFMin
<1>2. ASSUME NEW y \in S
      PROVE  x <= y
  <2>1. y \in Nat /\ x \in Nat /\ ~(y < x)
    BY <1>1 DEF OpToRel
  <2>. QED
    BY <2>1
<1>. QED
  BY <1>2

\* The texts of a sequence of values, one after the other: flattened up to the n-th, they are
\* what they are up to the one before, and the n-th.
LEMMA Flattened ==
  ASSUME NEW q, Len(q) \in Nat, Len(q) # 0
  PROVE  \E f : /\ FlattenSeq(q) = f[Len(q)]
                /\ f[1] = q[1]
                /\ \A n \in 2..Len(q) : f[n] = f[n - 1] \o q[n]
<1> DEFINE Is(f, k) == f = [i \in 1..k |-> IF i = 1 THEN q[i] ELSE f[i - 1] \o q[i]]
           Bad == {k \in 1..Len(q) : ~\E f : Is(f, k)}
<1>1. \E f : Is(f, 1)
  <2>1. Is([i \in 1..1 |-> q[1]], 1)
    OBVIOUS
  <2>. QED
    BY <2>1
<1>2. ASSUME NEW k \in Nat, k # 0, NEW f, Is(f, k)
      PROVE  \E g : Is(g, k + 1)
  <2> DEFINE g == [i \in 1..k + 1 |-> IF i <= k THEN f[i] ELSE f[k] \o q[k + 1]]
  <2>1. \A i \in 1..k + 1 : g[i] = IF i = 1 THEN q[i] ELSE g[i - 1] \o q[i]
    <3>1. \A i \in 1..k : g[i] = f[i]
      OBVIOUS
    <3>2. \A i \in 1..k : f[i] = IF i = 1 THEN q[i] ELSE f[i - 1] \o q[i]
      BY <1>2
    <3>3. g[k + 1] = g[k] \o q[k + 1]
      <4>1. g[k] = f[k] /\ k + 1 \in 1..k + 1 /\ ~(k + 1 <= k)
        BY <1>2, <3>1
      <4>. QED
        BY <4>1
    <3> HIDE DEF g
    <3>4. ASSUME NEW i \in 1..k + 1
          PROVE  g[i] = IF i = 1 THEN q[i] ELSE g[i - 1] \o q[i]
      <4>1. CASE i = k + 1
        <5>1. i # 1 /\ i - 1 = k
          BY <1>2, <4>1
        <5>. QED
          BY <4>1, <5>1, <3>3
      <4>2. CASE i \in 1..k
        <5>1. i # 1 => g[i - 1] = f[i - 1]
          BY <4>2, <3>1
        <5>. QED
          BY <4>2, <5>1, <3>1, <3>2
      <4>. QED
        BY <4>1, <4>2
    <3>. QED
      BY <3>4
  <2>2. g = [i \in 1..k + 1 |-> g[i]]
    OBVIOUS
  <2> HIDE DEF g
  <2>3. Is(g, k + 1)
    BY <2>1, <2>2
  <2>. QED
    BY <2>3
<1>3. Bad = {}
  <2>1. ASSUME Bad # {}
        PROVE  FALSE
    <3>1. Bad \in SUBSET Nat
      <4> HIDE DEF Is
      <4>. QED
        OBVIOUS
    <3>2. PICK k \in Bad : \A y \in Bad : k <= y
      BY <2>1, <3>1, HasFirst
    <3>3. k # 1
      BY <1>1, <3>2
    <3>4. k \in 1..Len(q) /\ ~\E f : Is(f, k)
      BY <3>2
    <3>5. k - 1 \in 1..Len(q) /\ k - 1 \in Nat /\ k - 1 # 0 /\ (k - 1) + 1 = k /\ ~(k <= k - 1)
      BY <3>3, <3>4
    <3>6. k - 1 \notin Bad
      BY <3>2, <3>5
    <3> HIDE DEF Is
    <3>7. PICK f : Is(f, k - 1)
      BY <3>5, <3>6
    <3>8. \E g : Is(g, (k - 1) + 1)
      BY <3>5, <3>7, <1>2
    <3>. QED
      BY <3>8, <3>4, <3>5
  <2>. QED
    BY <2>1
<1>4. \E f : Is(f, Len(q))
  <2>1. Len(q) \in 1..Len(q)
    OBVIOUS
  <2>. QED
    BY <1>3, <2>1
<1> DEFINE f == CHOOSE f : Is(f, Len(q))
<1>5. Is(f, Len(q))
  BY <1>4
<1>6. FlattenSeq(q) = f[Len(q)]
  BY DEF FlattenSeq
<1>7. f[1] = q[1] /\ \A n \in 2..Len(q) : f[n] = f[n - 1] \o q[n]
  <2> HIDE DEF f
  <2>1. ASSUME NEW g, Is(g, Len(q)), NEW i \in 1..Len(q)
        PROVE  g[i] = IF i = 1 THEN q[i] ELSE g[i - 1] \o q[i]
    BY <2>1
  <2> HIDE DEF Is
  <2>2. f[1] = q[1]
    BY <2>1, <1>5
  <2>3. ASSUME NEW n \in 2..Len(q)
        PROVE  f[n] = f[n - 1] \o q[n]
    <3>1. n \in 1..Len(q) /\ n # 1
      OBVIOUS
    <3>. QED
      BY <3>1, <2>1, <1>5
  <2>. QED
    BY <2>2, <2>3
<1>. QED
  BY <1>6, <1>7

\* f says what is kept of the first n members
KeepsOf(f, s, S) ==
  /\ f[0] = <<>>
  /\ \A n \in 1..Len(s) : f[n] = IF s[n] \in S THEN Append(f[n - 1], s[n]) ELSE f[n - 1]

\* What is kept of the first n is kept of the first n - 1, with the n-th if it is to be kept.
LEMMA KeptStepwise ==
  ASSUME NEW s, Len(s) \in Nat, NEW S
  PROVE  \E f : Kept(s, S) = f[Len(s)] /\ KeepsOf(f, s, S)
<1> DEFINE Is(f, k) == f = [n \in 0..k |-> IF n = 0 THEN <<>> ELSE IF s[n] \in S THEN Append(f[n - 1], s[n]) ELSE f[n - 1]]
           Bad == {k \in 0..Len(s) : ~\E f : Is(f, k)}
<1>1. \E f : Is(f, 0)
  <2>1. Is([n \in 0..0 |-> <<>>], 0)
    OBVIOUS
  <2>. QED
    BY <2>1
<1>2. ASSUME NEW k \in Nat, NEW f, Is(f, k)
      PROVE  \E g : Is(g, k + 1)
  <2> DEFINE g == [n \in 0..k + 1 |-> IF n <= k THEN f[n] ELSE IF s[n] \in S THEN Append(f[n - 1], s[n]) ELSE f[n - 1]]
  <2>1. \A n \in 0..k + 1 : g[n] = IF n = 0 THEN <<>> ELSE IF s[n] \in S THEN Append(g[n - 1], s[n]) ELSE g[n - 1]
    <3>1. \A n \in 0..k : g[n] = f[n]
      OBVIOUS
    <3>2. \A n \in 0..k : f[n] = IF n = 0 THEN <<>> ELSE IF s[n] \in S THEN Append(f[n - 1], s[n]) ELSE f[n - 1]
      BY <1>2
    <3>3. g[k + 1] = IF s[k + 1] \in S THEN Append(g[k], s[k + 1]) ELSE g[k]
      BY <3>1
    <3> HIDE DEF g
    <3>4. ASSUME NEW n \in 0..k + 1
          PROVE  g[n] = IF n = 0 THEN <<>> ELSE IF s[n] \in S THEN Append(g[n - 1], s[n]) ELSE g[n - 1]
      <4>1. CASE n = k + 1
        BY <4>1, <3>3
      <4>2. CASE n \in 0..k
        <5>1. n # 0 => g[n - 1] = f[n - 1]
          BY <4>2, <3>1
        <5>. QED
          BY <4>2, <5>1, <3>1, <3>2
      <4>. QED
        BY <4>1, <4>2
    <3>. QED
      BY <3>4
  <2>2. g = [n \in 0..k + 1 |-> g[n]]
    OBVIOUS
  <2> HIDE DEF g
  <2>3. Is(g, k + 1)
    BY <2>1, <2>2
  <2>. QED
    BY <2>3
<1>3. Bad = {}
  <2>1. ASSUME Bad # {}
        PROVE  FALSE
    <3>1. Bad \in SUBSET Nat
      OBVIOUS
    <3>2. PICK k \in Bad : \A y \in Bad : k <= y
      BY <2>1, <3>1, HasFirst
    <3>3. k # 0
      BY <1>1, <3>2
    <3>4. k \in 0..Len(s) /\ ~\E f : Is(f, k)
      BY <3>2
    <3>5. k - 1 \in 0..Len(s) /\ k - 1 \in Nat /\ (k - 1) + 1 = k /\ ~(k <= k - 1)
      BY <3>3, <3>4
    <3>6. k - 1 \notin Bad
      BY <3>2, <3>5
    <3> HIDE DEF Is
    <3>7. PICK f : Is(f, k - 1)
      BY <3>5, <3>6
    <3>8. \E g : Is(g, (k - 1) + 1)
      BY <3>5, <3>7, <1>2
    <3>. QED
      BY <3>8, <3>4, <3>5
  <2>. QED
    BY <2>1
<1>4. \E f : Is(f, Len(s))
  BY <1>3
<1> DEFINE f == CHOOSE f : Is(f, Len(s))
<1>5. Is(f, Len(s))
  BY <1>4
<1>6. Kept(s, S) = f[Len(s)]
  BY DEF Kept
<1> HIDE DEF f
<1>7. \A n \in 0..Len(s) :
         f[n] = IF n = 0 THEN <<>> ELSE IF s[n] \in S THEN Append(f[n - 1], s[n]) ELSE f[n - 1]
  <2>1. ASSUME NEW g, Is(g, Len(s)), NEW n \in 0..Len(s)
        PROVE  g[n] = IF n = 0 THEN <<>> ELSE IF s[n] \in S THEN Append(g[n - 1], s[n]) ELSE g[n - 1]
    BY <2>1
  <2> HIDE DEF Is
  <2>. QED
    BY <2>1, <1>5
<1>8. KeepsOf(f, s, S)
  BY <1>7 DEF KeepsOf
<1>. QED
  BY <1>6, <1>8

\* t is what is kept of the first n members of s: it has them all, no other, and in order.
IsKept(t, s, S, n) ==
  /\ \A i \in DOMAIN t : \E a \in 1..n : s[a] \in S /\ t[i] = s[a]
  /\ \A a \in 1..n : s[a] \in S => \E i \in DOMAIN t : t[i] = s[a]
  /\ \A i, j \in DOMAIN t : i < j => \E a, b \in 1..n : a < b /\ t[i] = s[a] /\ t[j] = s[b]

\* One member more.
LEMMA KeptMore ==
  ASSUME NEW T, NEW s \in Seq(T), NEW S, NEW n \in 1..Len(s), NEW t \in Seq(T), IsKept(t, s, S, n - 1)
  PROVE  LET u == IF s[n] \in S THEN Append(t, s[n]) ELSE t IN u \in Seq(T) /\ IsKept(u, s, S, n)
<1>0. n \in Nat /\ Len(s) \in Nat /\ s[n] \in T /\ \A a \in 1..n : a \in 1..n - 1 \/ a = n
  OBVIOUS
<1>i. 1..n - 1 \subseteq 1..n /\ n \in 1..n /\ \A a \in 1..n - 1 : a < n
  BY <1>0
<1>1. CASE s[n] \notin S
  <2>1. \A i \in DOMAIN t : \E a \in 1..n : s[a] \in S /\ t[i] = s[a]
    <3>1. \A i \in DOMAIN t : \E a \in 1..n - 1 : s[a] \in S /\ t[i] = s[a]
      BY DEF IsKept
    <3>. QED
      BY <3>1, <1>i
  <2>2. ASSUME NEW a \in 1..n, s[a] \in S
        PROVE  \E i \in DOMAIN t : t[i] = s[a]
    <3>1. a \in 1..n - 1
      BY <1>0, <1>1, <2>2
    <3>. QED
      BY <2>2, <3>1 DEF IsKept
  <2>3. \A i, j \in DOMAIN t : i < j => \E a, b \in 1..n : a < b /\ t[i] = s[a] /\ t[j] = s[b]
    <3>1. \A i, j \in DOMAIN t : i < j => \E a, b \in 1..n - 1 : a < b /\ t[i] = s[a] /\ t[j] = s[b]
      BY DEF IsKept
    <3>. QED
      BY <3>1, <1>i
  <2>4. IsKept(t, s, S, n)
    BY <2>1, <2>2, <2>3 DEF IsKept
  <2>. QED
    BY <1>1, <2>4
<1>2. CASE s[n] \in S
  <2> DEFINE u == Append(t, s[n])
             m == Len(t)
  <2>1. u \in Seq(T) /\ m \in Nat /\ DOMAIN t = 1..m /\ DOMAIN u = 1..m + 1 /\ u[m + 1] = s[n] /\ \A i \in 1..m : u[i] = t[i]
    BY <1>0
  <2> HIDE DEF u, m
  <2>2. \A i \in DOMAIN u : i \in 1..m \/ i = m + 1
    BY <2>1
  <2>3. ASSUME NEW i \in DOMAIN u
        PROVE  \E a \in 1..n : s[a] \in S /\ u[i] = s[a]
    BY <1>2, <1>i, <2>1, <2>2 DEF IsKept
  <2>4. ASSUME NEW a \in 1..n, s[a] \in S
        PROVE  \E i \in DOMAIN u : u[i] = s[a]
    <3>1. CASE a = n
      <4>1. m + 1 \in DOMAIN u
        BY <2>1
      <4>. QED
        BY <2>1, <3>1, <4>1
    <3>2. CASE a \in 1..n - 1
      <4>1. PICK i \in DOMAIN t : t[i] = s[a]
        BY <2>4, <3>2 DEF IsKept
      <4>2. i \in DOMAIN u /\ u[i] = s[a]
        BY <2>1, <4>1
      <4>. QED
        BY <4>2
    <3>. QED
      BY <1>0, <3>1, <3>2
  <2>5. ASSUME NEW i \in DOMAIN u, NEW j \in DOMAIN u, i < j
        PROVE  \E a, b \in 1..n : a < b /\ u[i] = s[a] /\ u[j] = s[b]
    <3>1. i \in 1..m /\ u[i] = t[i]
      BY <2>1, <2>5
    <3>2. CASE j \in 1..m
      <4>1. PICK a \in 1..n - 1, b \in 1..n - 1 : a < b /\ t[i] = s[a] /\ t[j] = s[b]
        BY <2>1, <2>5, <3>1, <3>2 DEF IsKept
      <4>2. u[j] = t[j]
        BY <2>1, <3>2
      <4>. QED
        BY <1>i, <3>1, <4>1, <4>2
    <3>3. CASE j = m + 1
      <4>1. PICK a \in 1..n - 1 : t[i] = s[a]
        BY <2>1, <3>1 DEF IsKept
      <4>2. a \in 1..n /\ n \in 1..n /\ a < n /\ u[j] = s[n]
        BY <1>i, <2>1, <3>3
      <4>. QED
        BY <3>1, <4>1, <4>2
    <3>. QED
      BY <2>2, <3>2, <3>3
  <2>6. IsKept(u, s, S, n)
    BY <2>3, <2>4, <2>5 DEF IsKept
  <2>. QED
    BY <1>2, <2>1, <2>6 DEF u
<1>. QED
  BY <1>1, <1>2

\* What is kept of a sequence.
LEMMA KeptIs ==
  ASSUME NEW T, NEW s \in Seq(T), NEW S
  PROVE  Kept(s, S) \in Seq(T) /\ IsKept(Kept(s, S), s, S, Len(s))
<1>1. Len(s) \in Nat
  OBVIOUS
<1>2. PICK f : Kept(s, S) = f[Len(s)] /\ KeepsOf(f, s, S)
  BY <1>1, KeptStepwise
<1> DEFINE Good(n) == f[n] \in Seq(T) /\ IsKept(f[n], s, S, n)
           Bad == {n \in 0..Len(s) : ~Good(n)}
<1>3. Good(0)
  <2>1. f[0] = <<>>
    BY <1>2 DEF KeepsOf
  <2>2. DOMAIN <<>> = {} /\ 1..0 = {} /\ <<>> \in Seq(T)
    OBVIOUS
  <2>. QED
    BY <2>1, <2>2 DEF IsKept
<1>4. ASSUME NEW n \in 1..Len(s), Good(n - 1)
      PROVE  Good(n)
  <2>1. f[n] = IF s[n] \in S THEN Append(f[n - 1], s[n]) ELSE f[n - 1]
    BY <1>2 DEF KeepsOf
  <2>. QED
    BY <1>4, <2>1, KeptMore
<1>5. Bad = {}
  <2>1. ASSUME Bad # {}
        PROVE  FALSE
    <3>1. Bad \in SUBSET Nat
      <4> HIDE DEF Good
      <4>. QED
        BY <1>1
    <3>2. PICK k \in Bad : \A y \in Bad : k <= y
      BY <2>1, <3>1, HasFirst
    <3>3. k # 0 /\ k \in 0..Len(s) /\ ~Good(k)
      BY <1>3, <3>2
    <3>4. k \in 1..Len(s) /\ k - 1 \in 0..Len(s) /\ ~(k <= k - 1)
      BY <1>1, <3>3
    <3> HIDE DEF Good
    <3>5. Good(k - 1)
      BY <3>2, <3>4
    <3>. QED
      BY <1>4, <3>3, <3>4, <3>5
  <2>. QED
    BY <2>1
<1>6. Good(Len(s))
  <2>1. Len(s) \in 0..Len(s)
    BY <1>1
  <2> HIDE DEF Good
  <2>. QED
    BY <1>5, <2>1
<1>. QED
  BY <1>2, <1>6

\* t is the first n texts of q one after the other: it has their members, no other, and in order.
IsFlat(t, q, n) ==
  /\ \A i \in DOMAIN t : \E a \in 1..n : \E c \in DOMAIN q[a] : t[i] = q[a][c]
  /\ \A a \in 1..n : \A c \in DOMAIN q[a] : \E i \in DOMAIN t : t[i] = q[a][c]
  /\ \A i, j \in DOMAIN t : i < j =>
       \E a, b \in 1..n : \E c \in DOMAIN q[a], d \in DOMAIN q[b] :
         t[i] = q[a][c] /\ t[j] = q[b][d] /\ (a < b \/ (a = b /\ c < d))

\* One text more.
LEMMA FlatMore ==
  ASSUME NEW T, NEW q \in Seq(Seq(T)), NEW n \in 1..Len(q), NEW t \in Seq(T), IsFlat(t, q, n - 1)
  PROVE  t \o q[n] \in Seq(T) /\ IsFlat(t \o q[n], q, n)
<1> DEFINE u == t \o q[n]
           m == Len(t)
           l == Len(q[n])
<1>0. n \in Nat /\ Len(q) \in Nat /\ q[n] \in Seq(T) /\ \A a \in 1..n : a \in 1..n - 1 \/ a = n
  OBVIOUS
<1>i. 1..n - 1 \subseteq 1..n /\ n \in 1..n /\ \A a \in 1..n - 1 : a < n
  BY <1>0
<1>1. /\ u \in Seq(T) /\ m \in Nat /\ l \in Nat /\ DOMAIN t = 1..m /\ DOMAIN q[n] = 1..l /\ DOMAIN u = 1..m + l
      /\ \A i \in 1..m : u[i] = t[i]
      /\ \A i \in 1..l : u[m + i] = q[n][i]
  BY <1>0
<1> HIDE DEF u, m, l
<1>2. ASSUME NEW i \in DOMAIN u
      PROVE  \/ i \in 1..m /\ u[i] = t[i]
             \/ ~(i <= m) /\ \E c \in 1..l : i = m + c /\ u[i] = q[n][c]
  <2>1. CASE i <= m
    BY <1>1, <2>1
  <2>2. CASE ~(i <= m)
    <3>1. i - m \in 1..l /\ i = m + (i - m)
      BY <1>1, <2>2
    <3>. QED
      BY <1>1, <2>2, <3>1
  <2>. QED
    BY <2>1, <2>2
<1>3. ASSUME NEW i \in DOMAIN u
      PROVE  \E a \in 1..n : \E c \in DOMAIN q[a] : u[i] = q[a][c]
  <2>1. CASE i \in 1..m /\ u[i] = t[i]
    <3>1. PICK a \in 1..n - 1 : \E c \in DOMAIN q[a] : t[i] = q[a][c]
      BY <1>1, <2>1 DEF IsFlat
    <3>. QED
      BY <1>i, <2>1, <3>1
  <2>2. CASE \E c \in 1..l : u[i] = q[n][c]
    BY <1>1, <1>i, <2>2
  <2>. QED
    BY <1>2, <2>1, <2>2
<1>4. ASSUME NEW a \in 1..n, NEW c \in DOMAIN q[a]
      PROVE  \E i \in DOMAIN u : u[i] = q[a][c]
  <2>1. CASE a = n
    <3>1. c \in 1..l /\ m + c \in DOMAIN u
      BY <1>1, <2>1
    <3>. QED
      BY <1>1, <2>1, <3>1
  <2>2. CASE a \in 1..n - 1
    <3>1. PICK i \in DOMAIN t : t[i] = q[a][c]
      BY <2>2 DEF IsFlat
    <3>2. i \in DOMAIN u /\ u[i] = t[i]
      BY <1>1, <3>1
    <3>. QED
      BY <3>1, <3>2
  <2>. QED
    BY <1>0, <2>1, <2>2
<1>5. ASSUME NEW i \in DOMAIN u, NEW j \in DOMAIN u, i < j
      PROVE  \E a, b \in 1..n : \E c \in DOMAIN q[a], d \in DOMAIN q[b] :
               u[i] = q[a][c] /\ u[j] = q[b][d] /\ (a < b \/ (a = b /\ c < d))
  <2>1. CASE j \in 1..m /\ u[j] = t[j]
    <3>1. i \in 1..m /\ u[i] = t[i]
      BY <1>1, <1>5, <2>1
    <3>0. i \in DOMAIN t /\ j \in DOMAIN t
      BY <1>1, <2>1, <3>1
    <3>2. \E a, b \in 1..n - 1 : \E c \in DOMAIN q[a], d \in DOMAIN q[b] :
            t[i] = q[a][c] /\ t[j] = q[b][d] /\ (a < b \/ (a = b /\ c < d))
      <4>1. \A x, y \in DOMAIN t : x < y =>
              \E a, b \in 1..n - 1 : \E c \in DOMAIN q[a], d \in DOMAIN q[b] :
                t[x] = q[a][c] /\ t[y] = q[b][d] /\ (a < b \/ (a = b /\ c < d))
        BY DEF IsFlat
      <4>. QED
        BY <1>5, <3>0, <4>1
    <3>. QED
      BY <1>i, <2>1, <3>1, <3>2
  <2>2. CASE ~(j <= m) /\ \E d \in 1..l : j = m + d /\ u[j] = q[n][d]
    <3>1. PICK d \in 1..l : j = m + d /\ u[j] = q[n][d]
      BY <2>2
    <3>2. CASE i \in 1..m /\ u[i] = t[i]
      <4>1. PICK a \in 1..n - 1 : \E c \in DOMAIN q[a] : t[i] = q[a][c]
        BY <1>1, <3>2 DEF IsFlat
      <4>2. a \in 1..n /\ a < n /\ n \in 1..n /\ d \in DOMAIN q[n]
        BY <1>1, <1>i, <3>1
      <4>. QED
        BY <3>1, <3>2, <4>1, <4>2
    <3>3. CASE ~(i <= m) /\ \E c \in 1..l : i = m + c /\ u[i] = q[n][c]
      <4>1. PICK c \in 1..l : i = m + c /\ u[i] = q[n][c]
        BY <3>3
      <4>2. c < d /\ c \in DOMAIN q[n] /\ d \in DOMAIN q[n]
        BY <1>1, <1>5, <3>1, <4>1
      <4>. QED
        BY <1>i, <3>1, <4>1, <4>2
    <3>. QED
      BY <1>2, <3>2, <3>3
  <2>. QED
    BY <1>2, <2>1, <2>2
<1>6. IsFlat(u, q, n)
  BY <1>3, <1>4, <1>5 DEF IsFlat
<1>. QED
  BY <1>1, <1>6 DEF u

\* What texts are, one after the other.
LEMMA FlatIs ==
  ASSUME NEW T, NEW q \in Seq(Seq(T))
  PROVE  FlattenSeq(q) \in Seq(T) /\ IsFlat(FlattenSeq(q), q, Len(q))
<1>1. Len(q) \in Nat
  OBVIOUS
<1>2. CASE Len(q) = 0
  <2>1. FlattenSeq(q) = q
    BY <1>2 DEF FlattenSeq
  <2>2. q = <<>> /\ DOMAIN q = {} /\ 1..0 = {} /\ <<>> \in Seq(T)
    BY <1>2
  <2>. QED
    BY <1>2, <2>1, <2>2 DEF IsFlat
<1>3. CASE Len(q) # 0
  <2>1. PICK f : /\ FlattenSeq(q) = f[Len(q)]
                 /\ f[1] = q[1]
                 /\ \A n \in 2..Len(q) : f[n] = f[n - 1] \o q[n]
    BY <1>1, <1>3, Flattened
  <2> DEFINE Good(n) == f[n] \in Seq(T) /\ IsFlat(f[n], q, n)
             Bad == {n \in 1..Len(q) : ~Good(n)}
  <2>2. Good(1)
    <3>1. 1 \in 1..Len(q) /\ 1..1 = {1} /\ q[1] \in Seq(T)
      BY <1>1, <1>3
    <3>2. IsFlat(<<>>, q, 1 - 1)
      <4>1. DOMAIN <<>> = {} /\ 1..1 - 1 = {}
        OBVIOUS
      <4>. QED
        BY <4>1 DEF IsFlat
    <3>3. <<>> \o q[1] = q[1] /\ <<>> \in Seq(T)
      BY <3>1
    <3>4. <<>> \o q[1] \in Seq(T) /\ IsFlat(<<>> \o q[1], q, 1)
      BY <3>1, <3>2, <3>3, FlatMore, Zenon
    <3>. QED
      BY <2>1, <3>3, <3>4, Zenon
  <2>3. ASSUME NEW n \in 2..Len(q), Good(n - 1)
        PROVE  Good(n)
    <3>1. f[n] = f[n - 1] \o q[n]
      BY <2>1, Zenon
    <3>2. n \in 1..Len(q)
      BY <1>1
    <3>. QED
      BY <2>3, <3>1, <3>2, FlatMore, Zenon
  <2>4. Bad = {}
    <3>1. ASSUME Bad # {}
          PROVE  FALSE
      <4>1. Bad \in SUBSET Nat
        <5> HIDE DEF Good
        <5>. QED
          BY <1>1
      <4>2. PICK k \in Bad : \A y \in Bad : k <= y
        BY <3>1, <4>1, HasFirst
      <4>3. k # 1 /\ k \in 1..Len(q) /\ ~Good(k)
        BY <2>2, <4>2
      <4>4. k \in 2..Len(q) /\ k - 1 \in 1..Len(q) /\ ~(k <= k - 1)
        BY <1>1, <4>3
      <4> HIDE DEF Good
      <4>5. Good(k - 1)
        BY <4>2, <4>4
      <4>. QED
        BY <2>3, <4>3, <4>4, <4>5
    <3>. QED
      BY <3>1
  <2>5. Good(Len(q))
    <3>1. Len(q) \in 1..Len(q)
      BY <1>1, <1>3
    <3> HIDE DEF Good
    <3>. QED
      BY <2>4, <3>1
  <2>. QED
    BY <2>1, <2>5
<1>. QED
  BY <1>2, <1>3

-----------------------------------------------------------------------------
(* The invariant *)

TextsOf(p) == Seq(0..p)

Results == {"running", "ok", "failed", "cancelled", "historical"}

Widget(p, n) ==
  [kind : {"user"}, text : TextsOf(p)] \cup [kind : {"reply"}, text : TextsOf(p), final : BOOLEAN]
    \cup [kind : {"row"}, call : 1..n, result : Results, of : 1..n] \cup [kind : {"badge"}]

IsText(x) == x.kind \in {"user", "reply"}
IsRow(x) == x.kind = "row"

\* The pieces of a text come in the order of their numbers; 0 is none.
Rising(t) == \A i, j \in DOMAIN t : i < j /\ t[i] # 0 /\ t[j] # 0 => t[i] < t[j]

\* All pieces of one text come before those of the other.
Before(t, u) == \A i \in DOMAIN t, j \in DOMAIN u : t[i] # 0 /\ u[j] # 0 => t[i] < u[j]

\* A window with its parts
Screen(widgets, shown, current, replies, rows, badge, closed) ==
  [widgets |-> widgets, shown |-> shown, current |-> current, replies |-> replies,
   rows |-> rows, badge |-> badge, closed |-> closed]

IsScreen(s) == s = Screen(s.widgets, s.shown, s.current, s.replies, s.rows, s.badge, s.closed)

\* What a window has and keeps about the turn is there
ScreenOK(s, p, n) ==
  /\ IsScreen(s)
  /\ s.widgets \in Seq(Widget(p, n))
  /\ s.shown \subseteq DOMAIN s.widgets
  /\ s.current \in 0..Len(s.widgets) /\ (s.current # 0 => s.widgets[s.current].kind = "reply")
  /\ s.replies \in Seq(Nat) /\ \A k \in DOMAIN s.replies : s.replies[k] \in DOMAIN s.widgets /\ s.widgets[s.replies[k]].kind = "reply"
  /\ DOMAIN s.rows \subseteq Nat /\ \A i \in DOMAIN s.rows : s.rows[i] \in DOMAIN s.widgets
  /\ s.badge \in BOOLEAN /\ s.closed \in BOOLEAN

Pending == ToSet(turnOf.going) \cup ToSet(turnOf.todo)

\* The calls of a message that are not answered yet
CallsOK ==
  /\ idOf \in Seq(Nat) /\ past \in 0..Len(idOf)
  /\ DOMAIN results \subseteq 1..Len(idOf)
  /\ turnOf.going \in Seq(past + 1..Len(idOf)) /\ IsInjective(turnOf.going)
  /\ turnOf.todo \in Seq(past + 1..Len(idOf)) /\ IsInjective(turnOf.todo)
  /\ ToSet(turnOf.going) \cap ToSet(turnOf.todo) = {}
  /\ \A c, d \in Pending : idOf[c] = idOf[d] => c = d
  /\ ToSet(turnOf.todo) \cap DOMAIN results = {}
  /\ IF turnOf.phase = "tools" THEN turnOf.going # <<>> \/ turnOf.todo # <<>> ELSE turnOf.going = <<>> /\ turnOf.todo = <<>>

Turns == [phase : {"idle", "model", "tools", "ending"}, step : Nat, text : Seq(Nat), prose : Seq(Nat),
          todo : Seq(Nat), going : Seq(Nat), verifying : BOOLEAN, verified : Nat]

TurnOK ==
  /\ turnOf \in Turns
  /\ turnOf.text \in Seq(1..pieces) /\ Rising(turnOf.text) /\ turnOf.prose \in Seq(1..pieces)
  /\ pieces \in Nat /\ owned \in BOOLEAN /\ cut \in BOOLEAN /\ again \in BOOLEAN
  /\ screen.closed <=> turnOf.phase = "idle"
  /\ turnOf.phase = "idle" => screen.current = 0 /\ screen.replies = <<>> /\ ~cut
  /\ turnOf.phase = "tools" /\ turnOf.going # <<>> => screen.current = 0

IsTool(e) == e.role = "tool"

\* An entry of the display history
Entries(p, n) == [role : {"user", "assistant", "tool"}, text : TextsOf(p), call : 0..n]

EntryOK(e) == IsTool(e) => e.text = <<>> /\ e.call # 0

\* The display history: what was said in order, and each call once
HistoryOK(h, p, n) ==
  /\ h \in Seq(Entries(p, n))
  /\ \A i \in DOMAIN h : Rising(h[i].text) /\ EntryOK(h[i])
  /\ \A i, j \in DOMAIN h : i < j => Before(h[i].text, h[j].text)
  /\ \A i, j \in DOMAIN h : IsTool(h[i]) /\ IsTool(h[j]) /\ h[i].call = h[j].call => i = j

\* None of the calls is answered in the history
Unanswered(h, calls) == \A i \in DOMAIN h : IsTool(h[i]) => h[i].call \notin calls

AllBefore(h, text) == \A i \in DOMAIN h : Before(h[i].text, text)

StoredOK ==
  /\ HistoryOK(stored, pieces, Len(idOf))
  /\ since \in 1..Len(stored) + 1
  /\ Unanswered(stored, Pending)
  /\ turnOf.phase = "model" => AllBefore(stored, turnOf.text)

\* Row w is that of its call, has its result, and is tracked and awaited while it runs
RowOK(w) ==
  LET line == screen.widgets[w] IN
  /\ line.of = line.call
  /\ line.result \in {"ok", "failed"} => line.call \in DOMAIN results /\ results[line.call] = line.result
  /\ w \in screen.shown /\ line.result # "historical" => line.call > past
  /\ w \in screen.shown => line.call \notin ToSet(turnOf.todo)
  /\ line.result = "running" =>
       /\ idOf[line.call] \in DOMAIN screen.rows /\ screen.rows[idOf[line.call]] = w
       /\ turnOf.phase \in {"tools", "ending"} /\ (turnOf.phase = "tools" => line.call \in Awaited)

RowsOK ==
  /\ \A w \in DOMAIN screen.widgets : IsRow(screen.widgets[w]) => RowOK(w)
  /\ \A v, w \in screen.shown :
       IsRow(screen.widgets[v]) /\ IsRow(screen.widgets[w]) /\ screen.widgets[v].call = screen.widgets[w].call => v = w
  /\ \A c \in Awaited :
       /\ idOf[c] \in DOMAIN screen.rows
       /\ LET line == screen.widgets[screen.rows[idOf[c]]] IN IsRow(line) /\ line.call = c /\ line.result = "running"

LastReply == screen.replies[Len(screen.replies)]

\* The message that streams is in the last reply, and so is the text before the engine's own verification
ReplyOK ==
  /\ turnOf.phase = "model" =>
       IF screen.current = 0 THEN turnOf.text = <<>>
       ELSE screen.replies # <<>> /\ LastReply = screen.current /\ screen.widgets[screen.current].text = turnOf.text
  /\ ~again => /\ turnOf.phase = "model" => turnOf.prose = <<>>
               /\ turnOf.phase = "tools" /\ turnOf.prose # <<>> => turnOf.verifying
               /\ turnOf.phase # "idle" /\ turnOf.prose # <<>> => screen.replies # <<>> /\ screen.widgets[LastReply].text = turnOf.prose
  /\ \A v \in DOMAIN screen.widgets : IsText(screen.widgets[v]) =>
       (screen.current # 0 => v <= screen.current) /\ (screen.replies # <<>> => v <= LastReply)

\* A piece that is on the screen
Visible(s, p) == \E w \in s.shown : IsText(s.widgets[w]) /\ p \in ToSet(s.widgets[w].text)

InOrder(s) ==
  /\ \A w \in s.shown : IsText(s.widgets[w]) => Rising(s.widgets[w].text)
  /\ \A v, w \in s.shown : v < w /\ IsText(s.widgets[v]) /\ IsText(s.widgets[w])
       => Before(s.widgets[v].text, s.widgets[w].text)

\* What was said and not taken off the screen is on it, in order
ShownOK ==
  /\ ~again => InOrder(screen)
  /\ ~cut =>
       /\ screen.current # 0 => screen.current \in screen.shown
       /\ \A k \in DOMAIN screen.replies : screen.replies[k] \in screen.shown
       /\ \A i \in since..Len(stored) : \A p \in ToSet(stored[i].text) \ {0} : Visible(screen, p)

TranscriptInv == ScreenOK(screen, pieces, Len(idOf)) /\ TurnOK /\ CallsOK /\ StoredOK /\ RowsOK /\ ReplyOK /\ ShownOK

-----------------------------------------------------------------------------
(* What the handlers make of a window *)

\* The widgets there are.
LEMMA WidgetIs ==
  ASSUME NEW p, NEW n, NEW x
  PROVE  /\ x \in Widget(p, n) <=>
              \/ x = User(x.text) /\ x.text \in TextsOf(p)
              \/ x = Reply(x.text, x.final) /\ x.text \in TextsOf(p) /\ x.final \in BOOLEAN
              \/ x = [kind |-> "row", call |-> x.call, result |-> x.result, of |-> x.of] /\ x.call \in 1..n /\ x.of \in 1..n /\ x.result \in Results
              \/ x = Badge
         /\ x \in Widget(p, n) => x.kind \in {"user", "reply", "row", "badge"}
BY DEF Widget, User, Reply, Badge

\* A window with some of its parts replaced.
LEMMA ScreenIf ==
  ASSUME NEW s, IsScreen(s), NEW t, t = [i \in DOMAIN s |-> t[i]]
  PROVE  IsScreen(t)
<1>1. DOMAIN s = {"widgets", "shown", "current", "replies", "rows", "badge", "closed"}
  BY DEF IsScreen, Screen
<1>. QED
  BY <1>1 DEF Screen, IsScreen

\* The parts of a window.
LEMMA ScreenHas ==
  ASSUME NEW s, IsScreen(s)
  PROVE  DOMAIN s = {"widgets", "shown", "current", "replies", "rows", "badge", "closed"}
BY DEF IsScreen, Screen

\* Its widgets.
LEMMA PutWidgets ==
  ASSUME NEW s, IsScreen(s), NEW V
  PROVE  LET t == [s EXCEPT !.widgets = V] IN
         /\ IsScreen(t) /\ t.widgets = V /\ t.shown = s.shown /\ t.current = s.current
         /\ t.replies = s.replies /\ t.rows = s.rows /\ t.badge = s.badge /\ t.closed = s.closed
<1>. PICK t : t = [s EXCEPT !.widgets = V]
  OBVIOUS
<1>1. IsScreen(t)
  BY ScreenIf
<1>2. /\ t.widgets = V /\ t.shown = s.shown /\ t.current = s.current
      /\ t.replies = s.replies /\ t.rows = s.rows /\ t.badge = s.badge /\ t.closed = s.closed
  BY ScreenHas
<1>. QED
  BY <1>1, <1>2

\* A new widget comes last, and is on the screen.
LEMMA AddIs ==
  ASSUME NEW s, IsScreen(s), NEW x
  PROVE  LET t == Add(s, x) IN
         /\ IsScreen(t) /\ t.widgets = Append(s.widgets, x) /\ t.shown = s.shown \cup {Len(s.widgets) + 1}
         /\ t.current = s.current /\ t.replies = s.replies /\ t.rows = s.rows /\ t.badge = s.badge /\ t.closed = s.closed
<1>. PICK t : t = Add(s, x)
  OBVIOUS
<1>1. IsScreen(t)
  BY ScreenIf DEF Add
<1>2. t.widgets = Append(s.widgets, x)
  BY ScreenHas DEF Add
<1>3. t.shown = s.shown \cup {Len(s.widgets) + 1}
  BY ScreenHas DEF Add
<1>4. t.current = s.current /\ t.replies = s.replies /\ t.rows = s.rows /\ t.badge = s.badge /\ t.closed = s.closed
  BY ScreenHas DEF Add
<1>. QED
  BY <1>1, <1>2, <1>3, <1>4

\* A reply begins.
LEMMA Began ==
  ASSUME NEW s, IsScreen(s), NEW k, NEW R
  PROVE  LET t == [s EXCEPT !.current = k, !.replies = R] IN
         /\ IsScreen(t) /\ t.widgets = s.widgets /\ t.shown = s.shown /\ t.current = k
         /\ t.replies = R /\ t.rows = s.rows /\ t.badge = s.badge /\ t.closed = s.closed
<1>. PICK t : t = [s EXCEPT !.current = k, !.replies = R]
  OBVIOUS
<1>1. IsScreen(t)
  BY ScreenIf
<1>2. t.current = k
  BY ScreenHas
<1>3. t.replies = R
  BY ScreenHas
<1>4. t.widgets = s.widgets /\ t.shown = s.shown /\ t.rows = s.rows /\ t.badge = s.badge /\ t.closed = s.closed
  BY ScreenHas
<1>. QED
  BY <1>1, <1>2, <1>3, <1>4

\* More pieces and more calls: the widgets there were are still widgets.
LEMMA WidgetsMore ==
  ASSUME NEW p \in Nat, NEW q \in Nat, p <= q, NEW n \in Nat, NEW m \in Nat, n <= m
  PROVE  /\ TextsOf(p) \subseteq TextsOf(q)
         /\ Widget(p, n) \subseteq Widget(q, m)
         /\ Seq(Widget(p, n)) \subseteq Seq(Widget(q, m))
<1>1. 0..p \subseteq 0..q /\ 1..n \subseteq 1..m
  OBVIOUS
<1>2. TextsOf(p) \subseteq TextsOf(q)
  BY <1>1 DEF TextsOf
<1>3. Widget(p, n) \subseteq Widget(q, m)
  <2>1. ASSUME NEW x \in Widget(p, n)
        PROVE  x \in Widget(q, m)
    BY <1>1, <1>2, WidgetIs
  <2>. QED
    BY <2>1
<1>. QED
  BY <1>2, <1>3

\* A reply gets another text.
LEMMA Retexted ==
  ASSUME NEW p \in Nat, NEW n \in Nat, NEW W \in Seq(Widget(p, n)), NEW k \in DOMAIN W, W[k].kind = "reply", NEW t \in TextsOf(p)
  PROVE  LET V == [W EXCEPT ![k] = [W[k] EXCEPT !.text = t]] IN
         /\ V \in Seq(Widget(p, n)) /\ Len(V) = Len(W) /\ DOMAIN V = DOMAIN W
         /\ V[k].kind = "reply" /\ V[k].text = t
         /\ \A w \in DOMAIN W : w # k => V[w] = W[w]
<1> DEFINE x == W[k]
           y == [x EXCEPT !.text = t]
           V == [W EXCEPT ![k] = y]
<1>1. x \in Widget(p, n) /\ x.kind = "reply"
  OBVIOUS
<1> HIDE DEF x
<1>2. x = Reply(x.text, x.final) /\ x.final \in BOOLEAN
  BY <1>1, WidgetIs DEF User, Badge
<1>3. y = Reply(t, x.final)
  BY <1>2 DEF Reply
<1>4. y.kind = "reply" /\ y.text = t /\ y.final = x.final
  BY <1>3 DEF Reply
<1>5. y \in Widget(p, n)
  <2>1. y = Reply(y.text, y.final) /\ y.text \in TextsOf(p) /\ y.final \in BOOLEAN
    BY <1>2, <1>3, <1>4
  <2> HIDE DEF y
  <2>. QED
    BY <2>1, WidgetIs
<1> HIDE DEF y
<1>6. V \in Seq(Widget(p, n)) /\ Len(V) = Len(W) /\ DOMAIN V = DOMAIN W /\ V[k] = y /\ \A w \in DOMAIN W : w # k => V[w] = W[w]
  BY <1>5
<1>. QED
  BY <1>4, <1>6 DEF y, x

\* A reply, and what the user has said, has a text.
LEMMA RepliesHaveTexts ==
  ASSUME NEW p, NEW n, NEW W \in Seq(Widget(p, n)), NEW k \in DOMAIN W, W[k].kind \in {"user", "reply"}
  PROVE  W[k].text \in TextsOf(p)
<1>1. W[k] \in Widget(p, n)
  OBVIOUS
<1> DEFINE x == W[k]
<1> HIDE DEF x
<1>2. x.text \in TextsOf(p)
  BY <1>1, WidgetIs DEF x, Badge
<1>. QED
  BY <1>2 DEF x

\* A piece of the message whose reply streams already.
LEMMA DeltaGoesOn ==
  ASSUME NEW p \in Nat, NEW n \in Nat, NEW s, ScreenOK(s, p, n), NEW u \in TextsOf(p), s.current # 0, NEW r, r = s.current,
         NEW V, V = [s.widgets EXCEPT ![r] = [s.widgets[r] EXCEPT !.text = u]], NEW t, t = [s EXCEPT !.widgets = V]
  PROVE  /\ ScreenOK(t, p, n) /\ r \in DOMAIN s.widgets /\ s.widgets[r].kind = "reply"
         /\ t.current = r /\ t.rows = s.rows /\ t.badge = s.badge /\ t.closed = s.closed
         /\ t.replies = s.replies /\ t.shown = s.shown /\ DOMAIN t.widgets = DOMAIN s.widgets
         /\ t.widgets[r].kind = "reply" /\ t.widgets[r].text = u
         /\ \A w \in DOMAIN s.widgets : w # r => t.widgets[w] = s.widgets[w]
<1>1. IsScreen(s) /\ s.widgets \in Seq(Widget(p, n)) /\ s.current \in 0..Len(s.widgets) /\ Len(s.widgets) \in Nat
  BY DEF ScreenOK
<1>2. r \in DOMAIN s.widgets /\ s.widgets[r].kind = "reply"
  BY <1>1 DEF ScreenOK
<1>3. /\ V \in Seq(Widget(p, n)) /\ Len(V) = Len(s.widgets) /\ DOMAIN V = DOMAIN s.widgets
      /\ V[r].kind = "reply" /\ V[r].text = u
      /\ \A w \in DOMAIN s.widgets : w # r => V[w] = s.widgets[w]
  BY <1>1, <1>2, Retexted
<1>4. /\ IsScreen(t) /\ t.widgets = V /\ t.shown = s.shown /\ t.current = s.current /\ t.replies = s.replies
      /\ t.rows = s.rows /\ t.badge = s.badge /\ t.closed = s.closed
  <2>1. IsScreen(t)
    BY <1>1 DEF IsScreen, Screen
  <2>2. /\ t.widgets = V /\ t.shown = s.shown /\ t.current = s.current /\ t.replies = s.replies
        /\ t.rows = s.rows /\ t.badge = s.badge /\ t.closed = s.closed
    BY <1>1, PutWidgets
  <2>. QED
    BY <2>1, <2>2
<1>5. ScreenOK(t, p, n)
  <2>1. \A w \in DOMAIN s.widgets : s.widgets[w].kind = "reply" => w \in DOMAIN V /\ V[w].kind = "reply"
    BY <1>3
  <2>2. /\ s.shown \subseteq DOMAIN s.widgets /\ s.current \in 0..Len(s.widgets)
        /\ s.replies \in Seq(Nat) /\ (\A i \in DOMAIN s.replies : s.replies[i] \in DOMAIN s.widgets /\ s.widgets[s.replies[i]].kind = "reply")
        /\ DOMAIN s.rows \subseteq Nat /\ (\A i \in DOMAIN s.rows : s.rows[i] \in DOMAIN s.widgets)
        /\ s.badge \in BOOLEAN /\ s.closed \in BOOLEAN
    BY DEF ScreenOK
  <2>3. \A i \in DOMAIN s.replies : s.replies[i] \in DOMAIN V /\ V[s.replies[i]].kind = "reply"
    BY <2>1, <2>2
  <2>. QED
    BY <1>3, <1>4, <2>2, <2>3 DEF ScreenOK
<1>. QED
  BY <1>2, <1>3, <1>4, <1>5

\* A piece of a message that has no reply yet.
LEMMA DeltaBegins ==
  ASSUME NEW p \in Nat, NEW n \in Nat, NEW s, ScreenOK(s, p, n), NEW text \in TextsOf(p),
         s.current = 0, NEW t, t = Delta(s, text), NEW r, r = Len(s.widgets) + 1
  PROVE  /\ ScreenOK(t, p, n) /\ t.current = r /\ t.rows = s.rows /\ t.badge = s.badge /\ t.closed = s.closed
         /\ t.replies = Append(s.replies, r) /\ t.shown = s.shown \cup {r} /\ DOMAIN t.widgets = 1..r
         /\ r \in DOMAIN t.widgets /\ t.widgets[r].kind = "reply" /\ t.widgets[r].text = text
         /\ \A w \in DOMAIN s.widgets : w \in DOMAIN t.widgets /\ w < r /\ t.widgets[w] = s.widgets[w]
<1> DEFINE new == Len(s.widgets) + 1
<1>1. IsScreen(s) /\ s.widgets \in Seq(Widget(p, n)) /\ s.current \in 0..Len(s.widgets) /\ Len(s.widgets) \in Nat
  BY DEF ScreenOK
<1>3. s.current = 0
  OBVIOUS
<1>4. QED
  <2> DEFINE x == Reply(<<>>, FALSE)
             W == Append(s.widgets, x)
             V == [W EXCEPT ![new] = [W[new] EXCEPT !.text = text]]
  <2>1. x \in Widget(p, n) /\ x.kind = "reply" /\ x.text = <<>>
    <3>1. x.text = <<>> /\ x.final = FALSE /\ x.kind = "reply" /\ <<>> \in TextsOf(p)
      BY DEF Reply, TextsOf
    <3>2. x = Reply(x.text, x.final)
      BY <3>1
    <3> HIDE DEF x
    <3>. QED
      BY <3>1, <3>2, WidgetIs
  <2>. PICK a : a = Add(s, x)
    OBVIOUS
  <2>. PICK b : b = [a EXCEPT !.current = new, !.replies = Append(a.replies, new)]
    OBVIOUS
  <2>2. /\ IsScreen(a) /\ a.widgets = W /\ a.shown = s.shown \cup {new} /\ a.replies = s.replies
        /\ a.rows = s.rows /\ a.badge = s.badge /\ a.closed = s.closed
    BY <1>1, AddIs
  <2> HIDE DEF W
  <2>3. /\ IsScreen(b) /\ b.widgets = W /\ b.shown = s.shown \cup {new} /\ b.current = new /\ b.replies = Append(s.replies, new)
        /\ b.rows = s.rows /\ b.badge = s.badge /\ b.closed = s.closed
    <3>1. IsScreen(b)
      BY <2>2, Began
    <3>2. b.widgets = a.widgets /\ b.shown = a.shown /\ b.current = new /\ b.replies = Append(a.replies, new)
        /\ b.rows = a.rows /\ b.badge = a.badge /\ b.closed = a.closed
      BY <2>2, ScreenHas
    <3>. QED
      BY <2>2, <3>1, <3>2
  <2>4. b.widgets = W /\ b.current = new
    BY <2>3
  <2>5. t = [b EXCEPT !.widgets = [b.widgets EXCEPT ![b.current] = [b.widgets[b.current] EXCEPT !.text = b.widgets[b.current].text \o text]]]
    BY <1>3 DEF Delta
  <2> HIDE DEF x
  <2>6. W \in Seq(Widget(p, n)) /\ Len(W) = new /\ new \in DOMAIN W /\ W[new] = x /\ DOMAIN W = 1..new /\ \A w \in DOMAIN s.widgets : W[w] = s.widgets[w]
    BY <1>1, <2>1 DEF W
  <2>7. W[new].text \o text = text
    BY <2>1, <2>6 DEF TextsOf
  <2>8. t = [b EXCEPT !.widgets = V]
    BY <2>4, <2>5, <2>7
  <2>9. /\ V \in Seq(Widget(p, n)) /\ Len(V) = Len(W) /\ DOMAIN V = DOMAIN W
        /\ V[new].kind = "reply" /\ V[new].text = text
        /\ \A w \in DOMAIN W : w # new => V[w] = W[w]
    BY <2>1, <2>6, Retexted
  <2> HIDE DEF V
  <2>10. /\ IsScreen(t) /\ t.widgets = V /\ t.shown = s.shown \cup {new} /\ t.current = new /\ t.replies = Append(s.replies, new)
         /\ t.rows = s.rows /\ t.badge = s.badge /\ t.closed = s.closed
    <3>1. IsScreen(t)
      BY <2>3, <2>8 DEF IsScreen, Screen
    <3>2. /\ t.widgets = V /\ t.shown = b.shown /\ t.current = b.current /\ t.replies = b.replies
          /\ t.rows = b.rows /\ t.badge = b.badge /\ t.closed = b.closed
      BY <2>3, <2>8, PutWidgets
    <3>. QED
      BY <2>3, <3>1, <3>2
  <2>11. new \in Nat /\ Append(s.replies, new) \in Seq(Nat) /\ DOMAIN s.widgets \subseteq 1..new /\ new \notin DOMAIN s.widgets
         /\ DOMAIN s.widgets = 1..Len(s.widgets)
    BY <1>1 DEF ScreenOK
  <2>12. ASSUME NEW i \in DOMAIN Append(s.replies, new)
         PROVE  Append(s.replies, new)[i] \in DOMAIN V /\ V[Append(s.replies, new)[i]].kind = "reply"
    <3>1. s.replies \in Seq(Nat) /\ \A j \in DOMAIN s.replies : s.replies[j] \in DOMAIN s.widgets /\ s.widgets[s.replies[j]].kind = "reply"
      BY DEF ScreenOK
    <3>2. CASE i = Len(s.replies) + 1
      <4>1. Append(s.replies, new)[i] = new
        BY <3>1, <3>2
      <4>. QED
        BY <4>1, <2>6, <2>9
    <3>3. CASE i \in DOMAIN s.replies
      <4>1. Append(s.replies, new)[i] = s.replies[i]
        BY <3>1, <3>3
      <4>. QED
        BY <3>1, <3>3, <4>1, <2>6, <2>9, <2>11
    <3>. QED
      BY <3>1, <3>2, <3>3, AppendProperties
  <2>13. ScreenOK(t, p, n)
    <3>1. /\ t.shown \subseteq DOMAIN t.widgets /\ t.current \in 0..Len(t.widgets) /\ t.widgets[t.current].kind = "reply"
          /\ t.replies \in Seq(Nat) /\ \A i \in DOMAIN t.replies : t.replies[i] \in DOMAIN t.widgets /\ t.widgets[t.replies[i]].kind = "reply"
      BY <2>6, <2>9, <2>10, <2>11, <2>12 DEF ScreenOK
    <3>2. DOMAIN t.rows \subseteq Nat /\ \A i \in DOMAIN t.rows : t.rows[i] \in DOMAIN t.widgets
      BY <2>6, <2>9, <2>10, <2>11 DEF ScreenOK
    <3>. QED
      BY <2>9, <2>10, <3>1, <3>2 DEF ScreenOK
  <2>. QED
    BY <1>3, <2>6, <2>9, <2>10, <2>11, <2>13

\* A new widget, and what is kept.
LEMMA AddOK ==
  ASSUME NEW p \in Nat, NEW n \in Nat, NEW s, ScreenOK(s, p, n), NEW x \in Widget(p, n)
  PROVE  LET t == Add(s, x)
             new == Len(s.widgets) + 1 IN
         /\ ScreenOK(t, p, n) /\ t.shown = s.shown \cup {new}
         /\ t.current = s.current /\ t.replies = s.replies /\ t.rows = s.rows /\ t.badge = s.badge /\ t.closed = s.closed
         /\ DOMAIN s.widgets = 1..Len(s.widgets) /\ DOMAIN t.widgets = 1..new /\ Len(t.widgets) = new /\ t.widgets[new] = x
         /\ \A w \in DOMAIN s.widgets : t.widgets[w] = s.widgets[w]
<1> DEFINE new == Len(s.widgets) + 1
<1>. PICK t : t = Add(s, x)
  OBVIOUS
<1>1. IsScreen(s) /\ s.widgets \in Seq(Widget(p, n)) /\ Len(s.widgets) \in Nat /\ DOMAIN s.widgets = 1..Len(s.widgets)
  BY DEF ScreenOK
<1>2. IsScreen(t)
  BY <1>1, AddIs
<1>3. /\ t.widgets = Append(s.widgets, x) /\ t.shown = s.shown \cup {new}
      /\ t.current = s.current /\ t.replies = s.replies /\ t.rows = s.rows /\ t.badge = s.badge /\ t.closed = s.closed
  BY <1>1, AddIs
<1>4. /\ t.widgets \in Seq(Widget(p, n)) /\ DOMAIN t.widgets = 1..new /\ Len(t.widgets) = new /\ t.widgets[new] = x
      /\ \A w \in DOMAIN s.widgets : t.widgets[w] = s.widgets[w]
  BY <1>1, <1>3
<1>5. DOMAIN s.widgets \subseteq 1..new /\ new \in 1..new
  BY <1>1
<1>6. ScreenOK(t, p, n)
  <2>2. /\ s.shown \subseteq DOMAIN s.widgets /\ s.current \in 0..Len(s.widgets) /\ (s.current # 0 => s.widgets[s.current].kind = "reply")
        /\ s.replies \in Seq(Nat) /\ (\A i \in DOMAIN s.replies : s.replies[i] \in DOMAIN s.widgets /\ s.widgets[s.replies[i]].kind = "reply")
        /\ DOMAIN s.rows \subseteq Nat /\ (\A i \in DOMAIN s.rows : s.rows[i] \in DOMAIN s.widgets)
        /\ s.badge \in BOOLEAN /\ s.closed \in BOOLEAN
    BY DEF ScreenOK
  <2>3. t.current \in 0..Len(t.widgets) /\ (t.current # 0 => t.widgets[t.current].kind = "reply")
    BY <1>1, <1>3, <1>4, <2>2
  <2>4. \A i \in DOMAIN t.replies : t.replies[i] \in DOMAIN t.widgets /\ t.widgets[t.replies[i]].kind = "reply"
    BY <1>3, <1>4, <1>5, <2>2
  <2>5. t.shown \subseteq DOMAIN t.widgets /\ \A i \in DOMAIN t.rows : t.rows[i] \in DOMAIN t.widgets
    BY <1>3, <1>4, <1>5, <2>2
  <2>. QED
    BY <1>2, <1>3, <1>4, <2>2, <2>3, <2>4, <2>5 DEF ScreenOK
<1>. QED
  BY <1>1, <1>3, <1>4, <1>6

\* A row of a call.
LEMMA RowIs ==
  ASSUME NEW p, NEW n, NEW call \in 1..n, NEW result \in Results
  PROVE  /\ Row(call, result) \in Widget(p, n)
         /\ Row(call, result).kind = "row" /\ Row(call, result).call = call
         /\ Row(call, result).result = result /\ Row(call, result).of = call
<1>. PICK x : x = Row(call, result)
  OBVIOUS
<1>1. x.kind = "row" /\ x.call = call /\ x.result = result /\ x.of = call
  BY DEF Row
<1>2. x = [kind |-> "row", call |-> x.call, result |-> x.result, of |-> x.of]
  BY <1>1 DEF Row
<1>3. x \in Widget(p, n)
  BY <1>1, <1>2, WidgetIs
<1>. QED
  BY <1>1, <1>3

\* _on_tool_started: the reply is over, and the call has a row.
LEMMA ToolStartedIs ==
  ASSUME NEW p \in Nat, NEW n \in Nat, NEW s, ScreenOK(s, p, n), NEW call \in 1..n, idOf[call] \in Nat
  PROVE  LET t == ToolStarted(s, call)
             new == Len(s.widgets) + 1 IN
         /\ ScreenOK(t, p, n) /\ t.shown = s.shown \cup {new} /\ t.current = 0
         /\ t.replies = s.replies /\ t.badge = s.badge /\ t.closed = s.closed
         /\ DOMAIN t.rows = DOMAIN s.rows \cup {idOf[call]} /\ t.rows[idOf[call]] = new
         /\ \A i \in DOMAIN s.rows : i # idOf[call] => t.rows[i] = s.rows[i]
         /\ DOMAIN s.widgets = 1..Len(s.widgets) /\ DOMAIN t.widgets = 1..new /\ Len(t.widgets) = new /\ t.widgets[new] = Row(call, "running")
         /\ \A w \in DOMAIN s.widgets : t.widgets[w] = s.widgets[w]
<1> DEFINE new == Len(s.widgets) + 1
           x == Row(call, "running")
           id == idOf[call]
<1>1. x \in Widget(p, n)
  BY RowIs DEF Results
<1> HIDE DEF x
<1>. PICK a : a = Add(s, x)
  OBVIOUS
<1>2. /\ ScreenOK(a, p, n) /\ a.shown = s.shown \cup {new}
      /\ a.replies = s.replies /\ a.rows = s.rows /\ a.badge = s.badge /\ a.closed = s.closed
      /\ DOMAIN s.widgets = 1..Len(s.widgets) /\ DOMAIN a.widgets = 1..new /\ Len(a.widgets) = new /\ a.widgets[new] = x
      /\ \A w \in DOMAIN s.widgets : a.widgets[w] = s.widgets[w]
  BY <1>1, AddOK
<1>. PICK g : g = Put(a.rows, id, new)
  OBVIOUS
<1>3. /\ DOMAIN g = DOMAIN a.rows \cup {id} /\ g[id] = new
      /\ \A j \in DOMAIN a.rows : j # id => g[j] = a.rows[j]
  BY DEF Put
<1>. PICK t : t = [a EXCEPT !.current = 0, !.rows = g]
  OBVIOUS
<1>4. t = ToolStarted(s, call)
  BY DEF ToolStarted, x
<1>5. IsScreen(a) /\ DOMAIN a = {"widgets", "shown", "current", "replies", "rows", "badge", "closed"}
  <2>1. IsScreen(a)
    BY <1>2 DEF ScreenOK
  <2>. QED
    BY <2>1, ScreenHas
<1>6. IsScreen(t)
  BY <1>5 DEF IsScreen, Screen
<1>7. t.widgets = a.widgets /\ t.shown = a.shown /\ t.current = 0 /\ t.replies = a.replies /\ t.rows = g /\ t.badge = a.badge /\ t.closed = a.closed
  BY <1>5
<1>8. ScreenOK(t, p, n)
  <2>1. Len(s.widgets) \in Nat /\ new \in DOMAIN a.widgets /\ DOMAIN s.widgets \subseteq DOMAIN a.widgets
    BY <1>2 DEF ScreenOK
  <2>2. \A i \in DOMAIN g : i \in Nat /\ g[i] \in DOMAIN a.widgets
    BY <1>2, <1>3, <2>1 DEF ScreenOK
  <2>3. /\ a.widgets \in Seq(Widget(p, n)) /\ a.shown \subseteq DOMAIN a.widgets /\ a.badge \in BOOLEAN /\ a.closed \in BOOLEAN
        /\ a.replies \in Seq(Nat) /\ \A j \in DOMAIN a.replies : a.replies[j] \in DOMAIN a.widgets /\ a.widgets[a.replies[j]].kind = "reply"
    BY <1>2 DEF ScreenOK
  <2>4. 0 \in 0..Len(a.widgets)
    BY <1>2, <2>1
  <2>. QED
    BY <1>6, <1>7, <2>2, <2>3, <2>4 DEF ScreenOK
<1>9. /\ t.shown = s.shown \cup {new} /\ t.current = 0 /\ t.replies = s.replies /\ t.badge = s.badge /\ t.closed = s.closed
      /\ t.rows[id] = new /\ t.widgets[new] = x /\ Len(t.widgets) = new /\ DOMAIN t.widgets = 1..new
      /\ DOMAIN t.rows = DOMAIN s.rows \cup {id}
  BY <1>2, <1>3, <1>7
<1>10. /\ \A i \in DOMAIN s.rows : i # id => t.rows[i] = s.rows[i]
       /\ \A w \in DOMAIN s.widgets : t.widgets[w] = s.widgets[w]
  BY <1>2, <1>3, <1>7
<1>. QED
  BY <1>2, <1>4, <1>8, <1>9, <1>10 DEF x

\* _on_tool_finished, of a call whose id has a row.
LEMMA ToolFinishedIs ==
  ASSUME NEW p \in Nat, NEW n \in Nat, NEW s, ScreenOK(s, p, n), NEW call \in 1..n, NEW result \in Results,
         idOf[call] \in DOMAIN s.rows, s.widgets[RowOf(s, call)].kind = "row"
  PROVE  LET t == ToolFinished(s, call, result)
             k == RowOf(s, call) IN
         /\ ScreenOK(t, p, n) /\ t.shown = s.shown /\ t.current = s.current
         /\ t.replies = s.replies /\ t.rows = s.rows /\ t.badge = s.badge /\ t.closed = s.closed
         /\ DOMAIN t.widgets = DOMAIN s.widgets /\ k \in DOMAIN s.widgets
         /\ t.widgets[k].kind = "row" /\ t.widgets[k].call = s.widgets[k].call
         /\ t.widgets[k].result = result /\ t.widgets[k].of = call
         /\ \A w \in DOMAIN s.widgets : w # k => t.widgets[w] = s.widgets[w]
<1>k. PICK k : k = RowOf(s, call)
  OBVIOUS
<1>1. IsScreen(s) /\ s.widgets \in Seq(Widget(p, n)) /\ k \in DOMAIN s.widgets /\ s.widgets[k].kind = "row"
  BY <1>k DEF ScreenOK, RowOf
<1>V. PICK V : V = [s.widgets EXCEPT ![k] = [s.widgets[k] EXCEPT !.result = result]]
  OBVIOUS
<1>U. PICK U : U = [V EXCEPT ![k] = [V[k] EXCEPT !.of = call]]
  OBVIOUS
<1>a. PICK a : a = [s EXCEPT !.widgets = V]
  OBVIOUS
<1>t. PICK t : t = [a EXCEPT !.widgets = U]
  OBVIOUS
<1>2. /\ a.widgets = V /\ a.shown = s.shown /\ a.current = s.current
      /\ a.replies = s.replies /\ a.rows = s.rows /\ a.badge = s.badge /\ a.closed = s.closed
  BY <1>1, <1>a, ScreenHas
<1>3. t = ToolFinished(s, call, result)
  <2>1. a.widgets[RowOf(a, call)] = V[k] /\ RowOf(s, call) = k
    BY <1>2, <1>k DEF RowOf
  <2>. QED
    BY <2>1, <1>2, <1>V, <1>U, <1>a, <1>t DEF ToolFinished
<1>4. IsScreen(a)
  BY <1>1, <1>a DEF IsScreen, Screen
<1>5. IsScreen(t)
  BY <1>4, <1>t DEF IsScreen, Screen
<1>6. /\ t.widgets = U /\ t.shown = s.shown /\ t.current = s.current
      /\ t.replies = s.replies /\ t.rows = s.rows /\ t.badge = s.badge /\ t.closed = s.closed
  BY <1>2, <1>4, <1>t, ScreenHas
<1>x. PICK x : x = s.widgets[k]
  OBVIOUS
<1>y. PICK y : y = [[x EXCEPT !.result = result] EXCEPT !.of = call]
  OBVIOUS
<1>l. x \in Widget(p, n) /\ x.kind = "row"
  BY <1>1, <1>x
<1>7. y \in Widget(p, n) /\ y.kind = "row" /\ y.call = s.widgets[k].call /\ y.result = result /\ y.of = call
  <2>2. x = [kind |-> "row", call |-> x.call, result |-> x.result, of |-> x.of] /\ x.call \in 1..n
    BY <1>l, WidgetIs DEF User, Reply, Badge
  <2>a. DOMAIN x = {"kind", "call", "result", "of"} /\ x.kind = "row"
    BY <2>2
  <2>b. y.kind = "row" /\ y.call = x.call /\ y.result = result /\ y.of = call
    BY <2>a, <1>y
  <2>c. DOMAIN y = {"kind", "call", "result", "of"} /\ y = [i \in DOMAIN y |-> y[i]]
    BY <2>a, <1>y
  <2>3. y = [kind |-> "row", call |-> x.call, result |-> result, of |-> call]
    BY <2>b, <2>c
  <2>4. y.kind = "row" /\ y.call = x.call /\ y.result = result /\ y.of = call
    BY <2>3
  <2>5. y = [kind |-> "row", call |-> y.call, result |-> y.result, of |-> y.of]
    BY <2>3, <2>4
  <2>6. y \in Widget(p, n)
    BY <2>2, <2>4, <2>5, WidgetIs
  <2>. QED
    BY <2>4, <2>6, <1>x
<1>W. PICK W : W = s.widgets
  OBVIOUS
<1>8. W \in Seq(Widget(p, n)) /\ k \in DOMAIN W /\ U = [W EXCEPT ![k] = y]
  BY <1>1, <1>W, <1>V, <1>U, <1>x, <1>y
<1>9. /\ U \in Seq(Widget(p, n)) /\ DOMAIN U = DOMAIN s.widgets /\ Len(U) = Len(s.widgets) /\ U[k] = y
      /\ \A w \in DOMAIN s.widgets : w # k => U[w] = s.widgets[w]
  <2>1. y \in Widget(p, n)
    BY <1>7
  <2>2. U \in Seq(Widget(p, n))
    BY <1>8, <2>1
  <2>3. DOMAIN U = DOMAIN W /\ Len(U) = Len(W) /\ U[k] = y
    BY <1>8, <2>1
  <2>4. \A w \in DOMAIN W : w # k => U[w] = W[w]
    BY <1>8, <2>1
  <2>. QED
    BY <2>2, <2>3, <2>4, <1>W
<1>10. ScreenOK(t, p, n)
  <2>1. /\ s.shown \subseteq DOMAIN s.widgets /\ s.current \in 0..Len(s.widgets) /\ (s.current # 0 => s.widgets[s.current].kind = "reply")
        /\ s.replies \in Seq(Nat) /\ (\A i \in DOMAIN s.replies : s.replies[i] \in DOMAIN s.widgets /\ s.widgets[s.replies[i]].kind = "reply")
        /\ DOMAIN s.rows \subseteq Nat /\ (\A i \in DOMAIN s.rows : s.rows[i] \in DOMAIN s.widgets)
        /\ s.badge \in BOOLEAN /\ s.closed \in BOOLEAN
    BY DEF ScreenOK
  <2>2. \A w \in DOMAIN s.widgets : U[w].kind = s.widgets[w].kind
    BY <1>1, <1>7, <1>9
  <2>3. \A i \in DOMAIN s.replies : s.replies[i] \in DOMAIN U /\ U[s.replies[i]].kind = "reply"
    BY <1>9, <2>1, <2>2
  <2>4. s.current # 0 => U[s.current].kind = "reply"
    BY <1>1, <2>1, <2>2
  <2>. QED
    BY <1>5, <1>6, <1>9, <2>1, <2>3, <2>4 DEF ScreenOK
<1>11. /\ DOMAIN t.widgets = DOMAIN s.widgets /\ k \in DOMAIN s.widgets
       /\ t.widgets[k].kind = "row" /\ t.widgets[k].call = s.widgets[k].call
       /\ t.widgets[k].result = result /\ t.widgets[k].of = call
       /\ \A w \in DOMAIN s.widgets : w # k => t.widgets[w] = s.widgets[w]
  BY <1>1, <1>6, <1>7, <1>9
<1>. QED
  BY <1>3, <1>6, <1>10, <1>11, <1>k

\* The rows among them that are not finished are cancelled.
LEMMA Cancelled ==
  ASSUME NEW p, NEW n, NEW W \in Seq(Widget(p, n)), NEW U, \A w \in U : w \in DOMAIN W => W[w].kind = "row",
         NEW V, V = [w \in DOMAIN W |-> IF w \in U THEN [W[w] EXCEPT !.result = "cancelled"] ELSE W[w]]
  PROVE  /\ V \in Seq(Widget(p, n)) /\ DOMAIN V = DOMAIN W /\ Len(V) = Len(W)
         /\ \A w \in DOMAIN W : /\ V[w].kind = W[w].kind /\ (w \notin U => V[w] = W[w])
                                /\ w \in U => V[w].call = W[w].call /\ V[w].of = W[w].of /\ V[w].result = "cancelled"
<1>1. ASSUME NEW w \in DOMAIN W, w \in U
      PROVE  /\ V[w] \in Widget(p, n) /\ V[w].kind = W[w].kind
             /\ V[w].call = W[w].call /\ V[w].of = W[w].of /\ V[w].result = "cancelled"
  <2>x. PICK x : x = W[w]
    OBVIOUS
  <2>y. PICK y : y = [x EXCEPT !.result = "cancelled"]
    OBVIOUS
  <2>1. x \in Widget(p, n) /\ x.kind = "row"
    BY <1>1, <2>x
  <2>2. x = [kind |-> "row", call |-> x.call, result |-> x.result, of |-> x.of] /\ x.call \in 1..n /\ x.of \in 1..n
    BY <2>1, WidgetIs DEF User, Reply, Badge
  <2>3. DOMAIN x = {"kind", "call", "result", "of"}
    BY <2>2
  <2>4. y.kind = "row" /\ y.call = x.call /\ y.result = "cancelled" /\ y.of = x.of
    BY <2>1, <2>3, <2>y
  <2>5. DOMAIN y = {"kind", "call", "result", "of"} /\ y = [i \in DOMAIN y |-> y[i]]
    BY <2>3, <2>y
  <2>6. y = [kind |-> "row", call |-> y.call, result |-> y.result, of |-> y.of]
    BY <2>4, <2>5
  <2>7. y \in Widget(p, n)
    BY <2>2, <2>4, <2>6, WidgetIs DEF Results
  <2>8. V[w] = y
    BY <1>1, <2>x, <2>y
  <2>. QED
    BY <2>1, <2>4, <2>7, <2>8, <2>x
<1>2. ASSUME NEW w \in DOMAIN W, w \notin U
      PROVE  V[w] = W[w] /\ V[w] \in Widget(p, n)
  BY <1>2
<1>3. \A w \in DOMAIN W : V[w] \in Widget(p, n)
  BY <1>1, <1>2
<1>4. DOMAIN W = 1..Len(W) /\ Len(W) \in Nat
  OBVIOUS
<1>5. V = [w \in 1..Len(W) |-> V[w]]
  BY <1>4
<1>6. V \in Seq(Widget(p, n)) /\ DOMAIN V = DOMAIN W /\ Len(V) = Len(W)
  BY <1>3, <1>4, <1>5
<1>. QED
  BY <1>1, <1>2, <1>6

\* A reply that has ended has its text.
LEMMA Ended ==
  ASSUME NEW p, NEW n, NEW W \in Seq(Widget(p, n)), NEW U, \A w \in U : w \in DOMAIN W => W[w].kind = "reply",
         NEW V, V = [w \in DOMAIN W |-> IF w \in U THEN [W[w] EXCEPT !.final = TRUE] ELSE W[w]]
  PROVE  /\ V \in Seq(Widget(p, n)) /\ DOMAIN V = DOMAIN W /\ Len(V) = Len(W)
         /\ \A w \in DOMAIN W : /\ V[w].kind = W[w].kind /\ (W[w].kind \in {"user", "reply"} => V[w].text = W[w].text)
                                /\ W[w].kind = "row" => V[w] = W[w]
<1>1. ASSUME NEW w \in DOMAIN W, w \in U
      PROVE  V[w] \in Widget(p, n) /\ V[w].kind = W[w].kind /\ V[w].text = W[w].text /\ W[w].kind # "row"
  <2>x. PICK x : x = W[w]
    OBVIOUS
  <2>y. PICK y : y = [x EXCEPT !.final = TRUE]
    OBVIOUS
  <2>1. x \in Widget(p, n) /\ x.kind = "reply"
    BY <1>1, <2>x
  <2>2. x = [kind |-> "reply", text |-> x.text, final |-> x.final] /\ x.text \in TextsOf(p)
    BY <2>1, WidgetIs DEF User, Reply, Badge
  <2>3. DOMAIN x = {"kind", "text", "final"}
    BY <2>2
  <2>4. y.kind = "reply" /\ y.text = x.text /\ y.final = TRUE
    BY <2>1, <2>3, <2>y
  <2>5. DOMAIN y = {"kind", "text", "final"} /\ y = [i \in DOMAIN y |-> y[i]]
    BY <2>3, <2>y
  <2>6. y = Reply(y.text, y.final)
    BY <2>4, <2>5 DEF Reply
  <2>7. y \in Widget(p, n)
    BY <2>2, <2>4, <2>6, WidgetIs
  <2>8. V[w] = y
    BY <1>1, <2>x, <2>y
  <2>. QED
    BY <2>1, <2>4, <2>7, <2>8, <2>x
<1>2. ASSUME NEW w \in DOMAIN W, w \notin U
      PROVE  V[w] = W[w] /\ V[w] \in Widget(p, n)
  BY <1>2
<1>3. \A w \in DOMAIN W : V[w] \in Widget(p, n)
  BY <1>1, <1>2
<1>4. DOMAIN W = 1..Len(W) /\ Len(W) \in Nat
  OBVIOUS
<1>5. V = [w \in 1..Len(W) |-> V[w]]
  BY <1>4
<1>6. V \in Seq(Widget(p, n)) /\ DOMAIN V = DOMAIN W /\ Len(V) = Len(W)
  BY <1>3, <1>4, <1>5
<1>. QED
  BY <1>1, <1>2, <1>6

\* Other widgets of the same kinds.
LEMMA OtherWidgets ==
  ASSUME NEW p, NEW n, NEW s, ScreenOK(s, p, n), NEW V \in Seq(Widget(p, n)), DOMAIN V = DOMAIN s.widgets, Len(V) = Len(s.widgets),
         \A w \in DOMAIN s.widgets : V[w].kind = s.widgets[w].kind
  PROVE  ScreenOK([s EXCEPT !.widgets = V], p, n)
<1>t. PICK t : t = [s EXCEPT !.widgets = V]
  OBVIOUS
<1>1. IsScreen(s) /\ s.widgets \in Seq(Widget(p, n)) /\ DOMAIN s.widgets = 1..Len(s.widgets)
  BY DEF ScreenOK
<1>2. IsScreen(t)
  BY <1>1, <1>t DEF IsScreen, Screen
<1>3. /\ t.widgets = V /\ t.shown = s.shown /\ t.current = s.current
      /\ t.replies = s.replies /\ t.rows = s.rows /\ t.badge = s.badge /\ t.closed = s.closed
  BY <1>1, <1>t, ScreenHas
<1>4. /\ s.shown \subseteq DOMAIN s.widgets /\ s.current \in 0..Len(s.widgets) /\ (s.current # 0 => s.widgets[s.current].kind = "reply")
      /\ s.replies \in Seq(Nat) /\ (\A i \in DOMAIN s.replies : s.replies[i] \in DOMAIN s.widgets /\ s.widgets[s.replies[i]].kind = "reply")
      /\ DOMAIN s.rows \subseteq Nat /\ (\A i \in DOMAIN s.rows : s.rows[i] \in DOMAIN s.widgets)
      /\ s.badge \in BOOLEAN /\ s.closed \in BOOLEAN
  BY DEF ScreenOK
<1>5. \A i \in DOMAIN s.replies : s.replies[i] \in DOMAIN V /\ V[s.replies[i]].kind = "reply"
  BY <1>4
<1>6. s.current # 0 => V[s.current].kind = "reply"
  BY <1>1, <1>4
<1>7. ScreenOK(t, p, n)
  BY <1>2, <1>3, <1>4, <1>5, <1>6 DEF ScreenOK
<1>. QED
  BY <1>7, <1>t

\* _close_turn: nothing streams, no tracked row runs, and a badge may be new.
LEMMA CloseTurnIs ==
  ASSUME NEW p \in Nat, NEW n \in Nat, NEW s, ScreenOK(s, p, n), ~s.closed, NEW t, t = CloseTurn(s)
  PROVE  /\ ScreenOK(t, p, n) /\ t.closed /\ t.current = 0 /\ t.replies = <<>> /\ t.rows = s.rows
         /\ DOMAIN s.widgets \subseteq DOMAIN t.widgets /\ s.shown \subseteq t.shown
         /\ \A w \in t.shown : w \in DOMAIN s.widgets => w \in s.shown
         /\ \A w \in DOMAIN t.widgets : w \notin DOMAIN s.widgets => t.widgets[w].kind = "badge"
         /\ \A w \in DOMAIN s.widgets :
              /\ t.widgets[w].kind = s.widgets[w].kind
              /\ w \notin Unfinished(s) => t.widgets[w] = s.widgets[w]
              /\ w \in Unfinished(s) => /\ t.widgets[w].call = s.widgets[w].call /\ t.widgets[w].of = s.widgets[w].of
                                        /\ t.widgets[w].result = "cancelled"
<1>V. PICK V : V = [w \in DOMAIN s.widgets |-> IF w \in Unfinished(s) THEN [s.widgets[w] EXCEPT !.result = "cancelled"] ELSE s.widgets[w]]
  OBVIOUS
<1>e. PICK ended : ended = [s EXCEPT !.widgets = V]
  OBVIOUS
<1>b. PICK b : b = IF s.badge THEN Add(ended, Badge) ELSE ended
  OBVIOUS
<1>t. t = [b EXCEPT !.closed = TRUE, !.badge = FALSE, !.current = 0, !.replies = <<>>]
  BY <1>V, <1>e, <1>b DEF CloseTurn
<1>1. IsScreen(s) /\ s.widgets \in Seq(Widget(p, n)) /\ DOMAIN s.widgets = 1..Len(s.widgets) /\ Len(s.widgets) \in Nat
  BY DEF ScreenOK
<1>2. \A w \in Unfinished(s) : w \in DOMAIN s.widgets => s.widgets[w].kind = "row"
  BY DEF Unfinished, Running
<1>3. /\ V \in Seq(Widget(p, n)) /\ DOMAIN V = DOMAIN s.widgets /\ Len(V) = Len(s.widgets)
      /\ \A w \in DOMAIN s.widgets :
           /\ V[w].kind = s.widgets[w].kind /\ (w \notin Unfinished(s) => V[w] = s.widgets[w])
           /\ w \in Unfinished(s) => V[w].call = s.widgets[w].call /\ V[w].of = s.widgets[w].of /\ V[w].result = "cancelled"
  <2>W. PICK W : W = s.widgets
    OBVIOUS
  <2>U. PICK U : U = Unfinished(s)
    OBVIOUS
  <2>1. /\ W \in Seq(Widget(p, n)) /\ \A w \in U : w \in DOMAIN W => W[w].kind = "row"
        /\ V = [w \in DOMAIN W |-> IF w \in U THEN [W[w] EXCEPT !.result = "cancelled"] ELSE W[w]]
    BY <1>1, <1>2, <1>V, <2>W, <2>U
  <2>2. /\ V \in Seq(Widget(p, n)) /\ DOMAIN V = DOMAIN W /\ Len(V) = Len(W)
        /\ \A w \in DOMAIN W : /\ V[w].kind = W[w].kind /\ (w \notin U => V[w] = W[w])
                               /\ w \in U => V[w].call = W[w].call /\ V[w].of = W[w].of /\ V[w].result = "cancelled"
    BY <2>1, Cancelled
  <2>. QED
    BY <2>2, <2>W, <2>U
<1>4. ScreenOK(ended, p, n)
  BY <1>3, <1>e, OtherWidgets
<1>5. /\ ended.widgets = V /\ ended.shown = s.shown /\ ended.rows = s.rows
  BY <1>1, <1>e, ScreenHas
<1>6. /\ ScreenOK(b, p, n) /\ b.rows = s.rows
      /\ DOMAIN s.widgets \subseteq DOMAIN b.widgets /\ s.shown \subseteq b.shown
      /\ \A w \in b.shown : w \in DOMAIN s.widgets => w \in s.shown
      /\ \A w \in DOMAIN b.widgets : w \notin DOMAIN s.widgets => b.widgets[w].kind = "badge"
      /\ \A w \in DOMAIN s.widgets : b.widgets[w] = V[w]
  <2>1. CASE s.badge
    <3>x. PICK x : x = Badge
      OBVIOUS
    <3>1. x \in Widget(p, n) /\ x.kind = "badge"
      BY <3>x, WidgetIs DEF Badge
    <3>2. b = Add(ended, x)
      BY <1>b, <2>1, <3>x
    <3>3. /\ ScreenOK(b, p, n) /\ b.shown = ended.shown \cup {Len(ended.widgets) + 1}
          /\ b.rows = ended.rows
          /\ DOMAIN ended.widgets = 1..Len(ended.widgets) /\ DOMAIN b.widgets = 1..Len(ended.widgets) + 1
          /\ b.widgets[Len(ended.widgets) + 1] = x
          /\ \A w \in DOMAIN ended.widgets : b.widgets[w] = ended.widgets[w]
      <4>e. PICK e : e = ended
        OBVIOUS
      <4>c. PICK c : c = Add(e, x)
        OBVIOUS
      <4>1. ScreenOK(e, p, n)
        BY <1>4, <4>e
      <4>2. /\ ScreenOK(c, p, n) /\ c.shown = e.shown \cup {Len(e.widgets) + 1}
            /\ c.rows = e.rows
            /\ DOMAIN e.widgets = 1..Len(e.widgets) /\ DOMAIN c.widgets = 1..Len(e.widgets) + 1
            /\ c.widgets[Len(e.widgets) + 1] = x
            /\ \A w \in DOMAIN e.widgets : c.widgets[w] = e.widgets[w]
        BY <3>1, <4>1, <4>c, AddOK
      <4>3. b = c
        BY <3>2, <4>c, <4>e
      <4>. QED
        BY <4>2, <4>3, <4>e
    <3>4. Len(ended.widgets) + 1 \notin DOMAIN s.widgets /\ DOMAIN s.widgets \subseteq 1..Len(ended.widgets) + 1
          /\ \A w \in 1..Len(ended.widgets) + 1 : w \notin DOMAIN s.widgets => w = Len(ended.widgets) + 1
      BY <1>1, <1>3, <1>5
    <3>. QED
      BY <1>3, <1>5, <3>1, <3>3, <3>4
  <2>2. CASE ~s.badge
    BY <1>3, <1>4, <1>5, <1>b, <2>2
  <2>. QED
    BY <2>1, <2>2
<1>7. IsScreen(b) /\ DOMAIN b = {"widgets", "shown", "current", "replies", "rows", "badge", "closed"}
  <2>1. IsScreen(b)
    BY <1>6 DEF ScreenOK
  <2>. QED
    BY <2>1, ScreenHas
<1>8. IsScreen(t)
  <2>1. t = [i \in DOMAIN b |-> t[i]]
    BY <1>t
  <2>. QED
    BY <2>1, <1>7, ScreenIf
<1>9. t.widgets = b.widgets /\ t.shown = b.shown /\ t.rows = b.rows
  BY <1>7, <1>t
<1>10. t.replies = <<>>
  BY <1>7, <1>t
<1>11. t.closed = TRUE /\ t.badge = FALSE /\ t.current = 0
  BY <1>7, <1>t
<1>12. ScreenOK(t, p, n)
  <2>1. Len(b.widgets) \in Nat /\ 0 \in 0..Len(b.widgets)
    BY <1>6 DEF ScreenOK
  <2>2. <<>> \in Seq(Nat) /\ DOMAIN <<>> = {}
    OBVIOUS
  <2>. QED
    BY <1>6, <1>8, <1>9, <1>10, <1>11, <2>1, <2>2 DEF ScreenOK
<1>. QED
  BY <1>3, <1>6, <1>9, <1>10, <1>11, <1>12

\* action_clear: nothing is on the screen, and the rows that run are tracked as before.
LEMMA ClearedIs ==
  ASSUME NEW p \in Nat, NEW n \in Nat, NEW s, ScreenOK(s, p, n), NEW t, t = Cleared(s)
  PROVE  /\ ScreenOK(t, p, n) /\ t.widgets = s.widgets /\ t.shown = {} /\ t.current = s.current /\ t.replies = s.replies
         /\ t.badge = s.badge /\ t.closed = s.closed
         /\ \A i : i \in DOMAIN t.rows <=> i \in DOMAIN s.rows /\ s.rows[i] \in Running(s)
         /\ \A i \in DOMAIN t.rows : t.rows[i] = s.rows[i]
<1>1. IsScreen(s) /\ DOMAIN s = {"widgets", "shown", "current", "replies", "rows", "badge", "closed"}
  <2>1. IsScreen(s)
    BY DEF ScreenOK
  <2>. QED
    BY <2>1, ScreenHas
<1>2. IsScreen(t)
  <2>1. t = [i \in DOMAIN s |-> t[i]]
    BY DEF Cleared
  <2>. QED
    BY <2>1, <1>1, ScreenIf
<1>3. t.shown = {} /\ t.widgets = s.widgets /\ t.current = s.current /\ t.replies = s.replies /\ t.badge = s.badge /\ t.closed = s.closed
  BY <1>1 DEF Cleared
<1>4. t.rows = [id \in {i \in DOMAIN s.rows : s.rows[i] \in Running(s)} |-> s.rows[id]]
  BY <1>1 DEF Cleared
<1>5. /\ \A i : i \in DOMAIN t.rows <=> i \in DOMAIN s.rows /\ s.rows[i] \in Running(s)
      /\ \A i \in DOMAIN t.rows : t.rows[i] = s.rows[i]
  BY <1>4
<1>6. ScreenOK(t, p, n)
  BY <1>2, <1>3, <1>5 DEF ScreenOK
<1>. QED
  BY <1>3, <1>5, <1>6

\* The text of one reply.
LEMMA TextOfOne ==
  ASSUME NEW s, NEW w
  PROVE  TextOf(s, <<w>>) = s.widgets[w].text
<1>q. PICK q : q = <<s.widgets[w].text>>
  OBVIOUS
<1>1. TextOf(s, <<w>>) = FlattenSeq(q)
  <2>1. [k \in DOMAIN <<w>> |-> s.widgets[<<w>>[k]].text] = q
    BY <1>q
  <2>. QED
    BY <2>1 DEF TextOf
<1>2. Len(q) = 1 /\ Len(q) \in Nat /\ Len(q) # 0 /\ q[1] = s.widgets[w].text
  BY <1>q
<1>3. PICK f : FlattenSeq(q) = f[Len(q)] /\ f[1] = q[1]
  BY <1>2, Flattened
<1>. QED
  BY <1>1, <1>2, <1>3

\* The texts of replies have the pieces there are.
LEMMA TextOfAll ==
  ASSUME NEW p \in Nat, NEW n, NEW s, ScreenOK(s, p, n)
  PROVE  TextOf(s, s.replies) \in TextsOf(p)
<1>q. PICK q : q = [k \in DOMAIN s.replies |-> s.widgets[s.replies[k]].text]
  OBVIOUS
<1>1. s.widgets \in Seq(Widget(p, n)) /\ s.replies \in Seq(Nat) /\ \A k \in DOMAIN s.replies : s.replies[k] \in DOMAIN s.widgets /\ s.widgets[s.replies[k]].kind = "reply"
  BY DEF ScreenOK
<1>2. \A k \in DOMAIN s.replies : q[k] \in Seq(0..p)
  <2>1. ASSUME NEW k \in DOMAIN s.replies
        PROVE  q[k] \in Seq(0..p)
    <3>1. s.widgets[s.replies[k]].text \in TextsOf(p)
      BY <1>1, RepliesHaveTexts
    <3>. QED
      BY <3>1, <1>q DEF TextsOf
  <2>. QED
    BY <2>1
<1>3. DOMAIN s.replies = 1..Len(s.replies) /\ Len(s.replies) \in Nat
  BY <1>1
<1>4. q \in Seq(Seq(0..p))
  <2>T. PICK T : T = Seq(0..p)
    OBVIOUS
  <2>1. \A k \in 1..Len(s.replies) : q[k] \in T
    BY <1>2, <1>3, <2>T
  <2>2. q = [k \in 1..Len(s.replies) |-> q[k]]
    BY <1>3, <1>q
  <2>3. q \in Seq(T)
    BY <1>3, <2>1, <2>2
  <2>. QED
    BY <2>3, <2>T
<1>5. FlattenSeq(q) \in Seq(0..p)
  BY <1>4, FlatIs
<1>. QED
  BY <1>5, <1>q DEF TextOf, TextsOf

\* Window x is s with the answer in it.
WithAnswer(x, s, answer, q, m) ==
  /\ ScreenOK(x, q, m) /\ x.rows = s.rows /\ x.closed = s.closed
  /\ DOMAIN s.widgets = 1..Len(s.widgets)
  /\ \A w \in DOMAIN s.widgets : /\ x.widgets[w].kind = s.widgets[w].kind
                                 /\ s.widgets[w].kind = "row" => x.widgets[w] = s.widgets[w]

\* The last reply goes on.
GoesOn(x, s, answer, k) ==
  /\ x.shown = s.shown /\ DOMAIN x.widgets = DOMAIN s.widgets
  /\ x.widgets[k].text = answer
  /\ \A w \in DOMAIN s.widgets : w # k /\ s.widgets[w].kind \in {"user", "reply"} => x.widgets[w].text = s.widgets[w].text

\* There is a new reply.
IsAdded(x, s, answer, k) ==
  /\ x.shown = s.shown \cup {k} /\ DOMAIN x.widgets = 1..k
  /\ x.widgets[k].kind = "reply" /\ x.widgets[k].text = answer
  /\ \A w \in DOMAIN s.widgets : s.widgets[w].kind \in {"user", "reply"} => x.widgets[w].text = s.widgets[w].text

\* _show_answer, of an answer with a piece that is new: it goes on in the last reply or is a
\* reply of its own.
LEMMA ShowAnswerIs ==
  ASSUME NEW p \in Nat, NEW n \in Nat, NEW s, ScreenOK(s, p, n), NEW answer \in TextsOf(p), TextOf(s, s.replies) # answer,
         NEW t, t = ShowAnswer(s, answer)
  PROVE  /\ WithAnswer(t, s, answer, p, n)
         /\ IF Continues(s, answer) THEN GoesOn(t, s, answer, Last(s.replies)) ELSE IsAdded(t, s, answer, Len(s.widgets) + 1)
<1>V. PICK V : V = [w \in DOMAIN s.widgets |-> IF w \in ToSet(s.replies) THEN [s.widgets[w] EXCEPT !.final = TRUE] ELSE s.widgets[w]]
  OBVIOUS
<1>e. PICK ended : ended = [s EXCEPT !.widgets = V]
  OBVIOUS
<1>1. /\ IsScreen(s) /\ s.widgets \in Seq(Widget(p, n)) /\ DOMAIN s.widgets = 1..Len(s.widgets) /\ Len(s.widgets) \in Nat
      /\ s.replies \in Seq(Nat) /\ (\A k \in DOMAIN s.replies : s.replies[k] \in DOMAIN s.widgets /\ s.widgets[s.replies[k]].kind = "reply")
  BY DEF ScreenOK
<1>2. \A w \in ToSet(s.replies) : w \in DOMAIN s.widgets => s.widgets[w].kind = "reply"
  BY <1>1 DEF ToSet
<1>3. /\ V \in Seq(Widget(p, n)) /\ DOMAIN V = DOMAIN s.widgets /\ Len(V) = Len(s.widgets)
      /\ \A w \in DOMAIN s.widgets :
           /\ V[w].kind = s.widgets[w].kind /\ (s.widgets[w].kind \in {"user", "reply"} => V[w].text = s.widgets[w].text)
           /\ s.widgets[w].kind = "row" => V[w] = s.widgets[w]
  <2>W. PICK W : W = s.widgets
    OBVIOUS
  <2>U. PICK U : U = ToSet(s.replies)
    OBVIOUS
  <2>1. /\ W \in Seq(Widget(p, n)) /\ \A w \in U : w \in DOMAIN W => W[w].kind = "reply"
        /\ V = [w \in DOMAIN W |-> IF w \in U THEN [W[w] EXCEPT !.final = TRUE] ELSE W[w]]
    BY <1>1, <1>2, <1>V, <2>W, <2>U
  <2>2. /\ V \in Seq(Widget(p, n)) /\ DOMAIN V = DOMAIN W /\ Len(V) = Len(W)
        /\ \A w \in DOMAIN W : /\ V[w].kind = W[w].kind /\ (W[w].kind \in {"user", "reply"} => V[w].text = W[w].text)
                               /\ W[w].kind = "row" => V[w] = W[w]
    <3>0. V \in Seq(Widget(p, n))
      BY <2>1, Ended
    <3>1. DOMAIN V = DOMAIN W /\ Len(V) = Len(W)
      BY <2>1, Ended
    <3>2. \A w \in DOMAIN W : V[w].kind = W[w].kind
      BY <2>1, Ended
    <3>3. \A w \in DOMAIN W : W[w].kind \in {"user", "reply"} => V[w].text = W[w].text
      BY <2>1, Ended
    <3>4. \A w \in DOMAIN W : W[w].kind = "row" => V[w] = W[w]
      BY <2>1, Ended
    <3>. QED
      BY <3>0, <3>1, <3>2, <3>3, <3>4
  <2>. QED
    BY <2>2, <2>W
<1>4. ScreenOK(ended, p, n)
  BY <1>3, <1>e, OtherWidgets
<1>5. /\ IsScreen(ended) /\ ended.widgets = V /\ ended.shown = s.shown /\ ended.current = s.current
      /\ ended.replies = s.replies /\ ended.rows = s.rows /\ ended.badge = s.badge /\ ended.closed = s.closed
  <2>1. IsScreen(ended)
    BY <1>4 DEF ScreenOK
  <2>. QED
    BY <2>1, <1>1, <1>e, ScreenHas
<1>6. CASE Continues(s, answer)
  <2>k. PICK k : k = Last(s.replies)
    OBVIOUS
  <2>1. k \in DOMAIN s.widgets /\ s.widgets[k].kind = "reply"
    <3>1. Len(s.replies) \in DOMAIN s.replies
      BY <1>1, <1>6 DEF Continues
    <3>. QED
      BY <3>1, <1>1, <2>k DEF Last
  <2>Y. PICK Y : Y = [V EXCEPT ![k] = [V[k] EXCEPT !.text = answer]]
    OBVIOUS
  <2>2. t = [ended EXCEPT !.widgets = Y]
    BY <1>6, <1>5, <1>V, <1>e, <2>Y, <2>k DEF ShowAnswer
  <2>3. k \in DOMAIN V /\ V[k].kind = "reply"
    BY <1>3, <2>1
  <2>4. /\ Y \in Seq(Widget(p, n)) /\ Len(Y) = Len(V) /\ DOMAIN Y = DOMAIN V
        /\ Y[k].kind = "reply" /\ Y[k].text = answer
        /\ \A w \in DOMAIN V : w # k => Y[w] = V[w]
    BY <1>3, <2>3, <2>Y, Retexted
  <2>5. \A w \in DOMAIN ended.widgets : Y[w].kind = ended.widgets[w].kind
    BY <1>5, <2>3, <2>4
  <2>6. ScreenOK(t, p, n)
    <3>1. Y \in Seq(Widget(p, n)) /\ DOMAIN Y = DOMAIN ended.widgets /\ Len(Y) = Len(ended.widgets)
      BY <1>3, <1>5, <2>4
    <3>. QED
      BY <1>4, <2>2, <2>5, <3>1, OtherWidgets
  <2>7. /\ t.widgets = Y /\ t.shown = s.shown /\ t.current = s.current
        /\ t.replies = s.replies /\ t.rows = s.rows /\ t.badge = s.badge /\ t.closed = s.closed
    BY <1>5, <2>2, ScreenHas
  <2>8. \A w \in DOMAIN s.widgets : /\ t.widgets[w].kind = s.widgets[w].kind
                                    /\ s.widgets[w].kind = "row" => t.widgets[w] = s.widgets[w]
                                    /\ w # k /\ s.widgets[w].kind \in {"user", "reply"} => t.widgets[w].text = s.widgets[w].text
    BY <1>3, <2>1, <2>4, <2>7
  <2>9. WithAnswer(t, s, answer, p, n)
    BY <1>1, <2>6, <2>7, <2>8 DEF WithAnswer
  <2>10. GoesOn(t, s, answer, k)
    BY <1>3, <2>4, <2>7, <2>8 DEF GoesOn
  <2>. QED
    BY <1>6, <2>k, <2>9, <2>10
<1>7. CASE ~Continues(s, answer)
  <2>x. PICK x : x = Reply(answer, TRUE)
    OBVIOUS
  <2>1. x.kind = "reply" /\ x.text = answer /\ x.final = TRUE
    BY <2>x DEF Reply
  <2>2. x \in Widget(p, n)
    <3>1. x = Reply(x.text, x.final)
      BY <2>1, <2>x
    <3>. QED
      BY <3>1, <2>1, WidgetIs
  <2>3. t = Add(ended, x)
    BY <1>7, <1>V, <1>e, <2>x DEF ShowAnswer
  <2>4. /\ ScreenOK(t, p, n) /\ t.shown = ended.shown \cup {Len(ended.widgets) + 1}
        /\ t.current = ended.current /\ t.replies = ended.replies /\ t.rows = ended.rows /\ t.badge = ended.badge /\ t.closed = ended.closed
        /\ DOMAIN t.widgets = 1..Len(ended.widgets) + 1 /\ t.widgets[Len(ended.widgets) + 1] = x
        /\ \A w \in DOMAIN ended.widgets : t.widgets[w] = ended.widgets[w]
    BY <1>4, <2>2, <2>3, AddOK
  <2>5. Len(ended.widgets) = Len(s.widgets) /\ DOMAIN ended.widgets = DOMAIN s.widgets
    BY <1>3, <1>5
  <2>6. WithAnswer(t, s, answer, p, n)
    BY <1>1, <1>3, <1>5, <2>4, <2>5 DEF WithAnswer
  <2>7. IsAdded(t, s, answer, Len(s.widgets) + 1)
    BY <1>3, <1>5, <2>1, <2>4, <2>5 DEF IsAdded
  <2>. QED
    BY <1>7, <2>6, <2>7
<1>. QED
  BY <1>6, <1>7

\* Widget x is what is replayed of entry e
Tells(x, e) ==
  IF IsTool(e) THEN x.kind = "row" /\ x.call = e.call /\ x.of = e.call /\ x.result = "historical"
  ELSE x.kind \in {"user", "reply"} /\ x.text = e.text

\* replay_widgets: one widget for each entry, none for a message without text.
LEMMA ReplayedIs ==
  ASSUME NEW p \in Nat, NEW n \in Nat, NEW e \in Entries(p, n), EntryOK(e)
  PROVE  /\ Replayed(e) \in Seq(Widget(p, n))
         /\ \A c \in DOMAIN Replayed(e) : c = 1 /\ Tells(Replayed(e)[c], e)
         /\ e.text # <<>> => 1 \in DOMAIN Replayed(e)
<1>1. e.role \in {"user", "assistant", "tool"} /\ e.text \in TextsOf(p) /\ e.call \in 0..n
  BY DEF Entries
<1>2. CASE e.role = "tool"
  <2>x. PICK x : x = Row(e.call, "historical")
    OBVIOUS
  <2>1. e.call \in 1..n /\ "historical" \in Results
    BY <1>1, <1>2 DEF EntryOK, IsTool, Results
  <2>2. x \in Widget(p, n) /\ x.kind = "row" /\ x.call = e.call /\ x.of = e.call /\ x.result = "historical"
    BY <2>1, <2>x, RowIs
  <2>3. Replayed(e) = <<x>>
    BY <1>2, <2>x DEF Replayed
  <2>4. Tells(x, e)
    BY <1>2, <2>2 DEF Tells, IsTool
  <2>5. e.text = <<>>
    BY <1>2 DEF EntryOK, IsTool
  <2>. QED
    BY <2>2, <2>3, <2>4, <2>5
<1>3. CASE e.role # "tool" /\ e.text = <<>>
  <2>1. Replayed(e) = <<>>
    BY <1>3 DEF Replayed
  <2>. QED
    BY <1>3, <2>1
<1>4. CASE e.role # "tool" /\ e.text # <<>>
  <2>x. PICK x : x = IF e.role = "user" THEN User(e.text) ELSE Reply(e.text, TRUE)
    OBVIOUS
  <2>1. x.kind \in {"user", "reply"} /\ x.text = e.text
    BY <2>x DEF User, Reply
  <2>2. x \in Widget(p, n)
    <3>1. CASE e.role = "user"
      <4>1. x = User(x.text)
        BY <2>1, <2>x, <3>1
      <4>. QED
        BY <4>1, <2>1, <1>1, WidgetIs
    <3>2. CASE e.role # "user"
      <4>1. x = Reply(x.text, x.final) /\ x.final = TRUE
        BY <2>1, <2>x, <3>2 DEF Reply
      <4>. QED
        BY <4>1, <2>1, <1>1, WidgetIs
    <3>. QED
      BY <3>1, <3>2
  <2>3. Replayed(e) = <<x>>
    <3>1. CASE e.role = "user"
      BY <1>4, <2>x, <3>1 DEF Replayed
    <3>2. CASE e.role = "assistant"
      BY <1>4, <2>x, <3>2 DEF Replayed
    <3>. QED
      BY <1>1, <1>4, <3>1, <3>2
  <2>4. Tells(x, e)
    BY <1>4, <2>1 DEF Tells, IsTool
  <2>. QED
    BY <2>2, <2>3, <2>4
<1>. QED
  BY <1>2, <1>3, <1>4

\* The newest entries.
LEMMA NewestIs ==
  ASSUME NEW T, NEW h \in Seq(T)
  PROVE  LET off == Len(h) - Len(Newest(h)) IN
         /\ Newest(h) \in Seq(T) /\ off \in 0..Len(h)
         /\ \A k \in DOMAIN Newest(h) : off + k \in DOMAIN h /\ Newest(h)[k] = h[off + k]
<1>m. PICK m : m = IF Len(h) > ReplayLimit THEN Len(h) - ReplayLimit ELSE 0
  OBVIOUS
<1>1. ReplayLimit \in Nat /\ Len(h) \in Nat
  BY TranscriptAssumption
<1>2. m \in 0..Len(h) /\ Newest(h) = SubSeq(h, m + 1, Len(h))
  BY <1>1, <1>m DEF Newest
<1>3. SubSeq(h, m + 1, Len(h)) \in Seq(T) /\ Len(SubSeq(h, m + 1, Len(h))) = Len(h) - m
  BY <1>1, <1>2
<1>4. \A k \in 1..Len(h) - m : SubSeq(h, m + 1, Len(h))[k] = h[m + k]
  BY <1>1, <1>2
<1>5. Len(h) - Len(Newest(h)) = m /\ DOMAIN Newest(h) = 1..Len(h) - m
  BY <1>1, <1>2, <1>3
<1>6. \A k \in 1..Len(h) - m : m + k \in 1..Len(h)
  BY <1>1, <1>2
<1>. QED
  BY <1>2, <1>3, <1>4, <1>5, <1>6

\* Window t tells the history h from entry k + 1 on, below the widgets of window s.
Retold(t, s, h, k) ==
  /\ t.current = s.current /\ t.replies = s.replies /\ t.closed = s.closed
  /\ DOMAIN s.widgets \subseteq DOMAIN t.widgets
  /\ \A w \in DOMAIN s.widgets : w \notin t.shown /\ t.widgets[w] = s.widgets[w]
  /\ \A w \in DOMAIN t.widgets : w \notin DOMAIN s.widgets => w \in t.shown
  /\ k \in 0..Len(h)
  /\ \A w \in t.shown : \E a \in k + 1..Len(h) : Tells(t.widgets[w], h[a])
  /\ \A a \in k + 1..Len(h) : h[a].text # <<>> => \E w \in t.shown : Tells(t.widgets[w], h[a])
  /\ \A v, w \in t.shown : v < w =>
       \E a, b \in k + 1..Len(h) : a < b /\ Tells(t.widgets[v], h[a]) /\ Tells(t.widgets[w], h[b])

\* _replay_session: what is on the screen are the newest entries, in their order.
LEMMA ReplayIs ==
  ASSUME NEW p \in Nat, NEW n \in Nat, NEW s, ScreenOK(s, p, n),
         NEW h \in Seq(Entries(p, n)), \A i \in DOMAIN h : EntryOK(h[i]),
         NEW t, t = Replay(s, h), NEW off, off = Len(h) - Len(Newest(h))
  PROVE  ScreenOK(t, p, n) /\ Retold(t, s, h, off)
<1>e. PICK e : e = Newest(h)
  OBVIOUS
<1>f. off = Len(h) - Len(e)
  BY <1>e
<1>q. PICK q : q = [k \in DOMAIN e |-> Replayed(e[k])]
  OBVIOUS
<1>d. PICK told : told = FlattenSeq(q)
  OBVIOUS
<1>c. PICK c : c = Cleared(s)
  OBVIOUS
<1>W. PICK W : W = Widget(p, n)
  OBVIOUS
<1>m. PICK m : m = Len(s.widgets)
  OBVIOUS
<1>1. /\ e \in Seq(Entries(p, n)) /\ off \in 0..Len(h)
      /\ \A k \in DOMAIN e : off + k \in DOMAIN h /\ e[k] = h[off + k]
  BY <1>e, <1>f, NewestIs
<1>2. ASSUME NEW k \in DOMAIN e
      PROVE  /\ e[k] \in Entries(p, n) /\ EntryOK(e[k]) /\ q[k] \in Seq(W)
             /\ \A i \in DOMAIN q[k] : i = 1 /\ Tells(q[k][i], e[k])
             /\ e[k].text # <<>> => 1 \in DOMAIN q[k]
  <2>1. e[k] \in Entries(p, n) /\ EntryOK(e[k]) /\ q[k] = Replayed(e[k])
    BY <1>1, <1>q
  <2>. QED
    BY <2>1, <1>W, ReplayedIs
<1>3. DOMAIN e = 1..Len(e) /\ Len(e) \in Nat /\ DOMAIN q = 1..Len(e) /\ Len(q) = Len(e) /\ Len(h) \in Nat
  BY <1>1, <1>q
<1>4. q \in Seq(Seq(W))
  <2>T. PICK T : T = Seq(W)
    OBVIOUS
  <2>1. \A k \in 1..Len(e) : q[k] \in T
    BY <1>2, <1>3, <2>T
  <2>2. q = [k \in 1..Len(e) |-> q[k]]
    BY <1>3, <1>q
  <2>3. q \in Seq(T)
    BY <1>3, <2>1, <2>2
  <2>. QED
    BY <2>3, <2>T
<1>5. told \in Seq(W) /\ IsFlat(told, q, Len(e))
  BY <1>3, <1>4, <1>d, FlatIs
<1>6. /\ ScreenOK(c, p, n) /\ c.widgets = s.widgets /\ c.shown = {} /\ c.current = s.current /\ c.replies = s.replies
      /\ c.badge = s.badge /\ c.closed = s.closed
  BY <1>c, ClearedIs
<1>S. PICK S : S = (m + 1)..(m + Len(told))
  OBVIOUS
<1>V. PICK V : V = s.widgets \o told
  OBVIOUS
<1>7. t = [c EXCEPT !.widgets = V, !.shown = S]
  BY <1>e, <1>q, <1>d, <1>c, <1>S, <1>V, <1>m, <1>6 DEF Replay
<1>8. IsScreen(c) /\ DOMAIN c = {"widgets", "shown", "current", "replies", "rows", "badge", "closed"}
  <2>1. IsScreen(c)
    BY <1>6 DEF ScreenOK
  <2>. QED
    BY <2>1, ScreenHas
<1>9. IsScreen(t)
  <2>1. t = [i \in DOMAIN c |-> t[i]]
    BY <1>7
  <2>. QED
    BY <2>1, <1>8, ScreenIf
<1>10. t.widgets = V /\ t.shown = S
  BY <1>7, <1>8
<1>11. t.current = s.current /\ t.replies = s.replies /\ t.rows = c.rows /\ t.badge = s.badge /\ t.closed = s.closed
  BY <1>6, <1>7, <1>8
<1>12. /\ s.widgets \in Seq(W) /\ m \in Nat /\ DOMAIN s.widgets = 1..m /\ Len(told) \in Nat /\ DOMAIN told = 1..Len(told)
  BY <1>5, <1>W, <1>m DEF ScreenOK
<1>13. /\ V \in Seq(W) /\ Len(V) = m + Len(told) /\ DOMAIN V = 1..m + Len(told)
       /\ \A w \in 1..m : V[w] = s.widgets[w]
       /\ \A i \in DOMAIN told : V[m + i] = told[i]
  BY <1>5, <1>12, <1>V, <1>m
<1>14. /\ S \subseteq DOMAIN V /\ (\A w \in 1..m : w \in DOMAIN V /\ w \notin S) /\ (\A w \in DOMAIN V : w \notin 1..m => w \in S)
       /\ (\A w \in S : w - m \in DOMAIN told /\ m + (w - m) = w) /\ (\A i \in DOMAIN told : m + i \in S)
  BY <1>12, <1>13, <1>S
<1>15. ScreenOK(t, p, n)
  <2>1. /\ c.current \in 0..m /\ (c.current # 0 => s.widgets[c.current].kind = "reply")
        /\ c.replies \in Seq(Nat) /\ (\A i \in DOMAIN c.replies : c.replies[i] \in 1..m /\ s.widgets[c.replies[i]].kind = "reply")
        /\ DOMAIN c.rows \subseteq Nat /\ (\A i \in DOMAIN c.rows : c.rows[i] \in 1..m)
        /\ c.badge \in BOOLEAN /\ c.closed \in BOOLEAN
    BY <1>6, <1>12, <1>m DEF ScreenOK
  <2>2. c.current \in 0..Len(V) /\ (c.current # 0 => V[c.current].kind = "reply")
    BY <1>12, <1>13, <2>1
  <2>3. \A i \in DOMAIN c.replies : c.replies[i] \in DOMAIN V /\ V[c.replies[i]].kind = "reply"
    BY <1>13, <1>14, <2>1
  <2>4. \A i \in DOMAIN c.rows : c.rows[i] \in DOMAIN V
    BY <1>14, <2>1
  <2>. QED
    BY <1>6, <1>9, <1>10, <1>11, <1>13, <1>14, <1>W, <2>1, <2>2, <2>3, <2>4 DEF ScreenOK
<1>n. \A k \in 1..Len(e) : off + k \in off + 1..Len(h) /\ e[k] = h[off + k]
  <2>1. DOMAIN h = 1..Len(h) /\ off \in Nat
    BY <1>1
  <2>2. \A k \in 1..Len(e) : off + k \in 1..Len(h) /\ e[k] = h[off + k]
    BY <1>1, <1>3, <2>1
  <2>. QED
    BY <1>3, <2>1, <2>2
<1>16. ASSUME NEW w \in S
       PROVE  \E a \in off + 1..Len(h) : Tells(V[w], h[a])
  <2>1. V[w] = told[w - m] /\ w - m \in DOMAIN told
    BY <1>13, <1>14
  <2>2. PICK k \in 1..Len(e) : \E i \in DOMAIN q[k] : told[w - m] = q[k][i]
    BY <1>5, <2>1 DEF IsFlat
  <2>3. Tells(V[w], e[k]) /\ e[k] = h[off + k] /\ off + k \in off + 1..Len(h)
    <3>1. k \in DOMAIN e
      BY <1>3
    <3>. QED
      BY <1>2, <1>n, <2>1, <2>2, <3>1
  <2>. QED
    BY <2>3
<1>17. ASSUME NEW a \in off + 1..Len(h), h[a].text # <<>>
       PROVE  \E w \in S : Tells(V[w], h[a])
  <2>1. a - off \in DOMAIN e /\ e[a - off] = h[a]
    BY <1>1, <1>3, <1>f
  <2>2. 1 \in DOMAIN q[a - off] /\ Tells(q[a - off][1], h[a])
    BY <1>2, <1>17, <2>1
  <2>3. PICK i \in DOMAIN told : told[i] = q[a - off][1]
    BY <1>3, <1>5, <2>1, <2>2 DEF IsFlat
  <2>4. m + i \in S /\ V[m + i] = told[i]
    BY <1>13, <1>14
  <2>. QED
    BY <2>2, <2>3, <2>4
<1>18. ASSUME NEW v \in S, NEW w \in S, v < w
       PROVE  \E a, b \in off + 1..Len(h) : a < b /\ Tells(V[v], h[a]) /\ Tells(V[w], h[b])
  <2>1. V[v] = told[v - m] /\ v - m \in DOMAIN told /\ V[w] = told[w - m] /\ w - m \in DOMAIN told
    BY <1>13, <1>14
  <2>2. v - m < w - m
    BY <1>12, <1>18, <1>S
  <2>3. \E x, y \in 1..Len(e) : \E i \in DOMAIN q[x], j \in DOMAIN q[y] :
          told[v - m] = q[x][i] /\ told[w - m] = q[y][j] /\ (x < y \/ (x = y /\ i < j))
    <3>1. \A i, j \in DOMAIN told : i < j =>
            \E x, y \in 1..Len(e) : \E k \in DOMAIN q[x], l \in DOMAIN q[y] :
              told[i] = q[x][k] /\ told[j] = q[y][l] /\ (x < y \/ (x = y /\ k < l))
      BY <1>5 DEF IsFlat
    <3>. QED
      BY <2>1, <2>2, <3>1
  <2>4. PICK x \in 1..Len(e), y \in 1..Len(e) : \E i \in DOMAIN q[x], j \in DOMAIN q[y] :
          told[v - m] = q[x][i] /\ told[w - m] = q[y][j] /\ (x < y \/ (x = y /\ i < j))
    BY <2>3
  <2>5. x < y /\ Tells(V[v], e[x]) /\ Tells(V[w], e[y])
    <3>1. x \in DOMAIN e /\ y \in DOMAIN e
      BY <1>3
    <3>2. PICK i \in DOMAIN q[x], j \in DOMAIN q[y] :
            told[v - m] = q[x][i] /\ told[w - m] = q[y][j] /\ (x < y \/ (x = y /\ i < j))
      BY <2>4
    <3>3. i = 1 /\ j = 1 /\ Tells(q[x][i], e[x]) /\ Tells(q[y][j], e[y])
      BY <1>2, <3>1
    <3>. QED
      BY <2>1, <3>2, <3>3
  <2>6. e[x] = h[off + x] /\ e[y] = h[off + y] /\ off + x \in off + 1..Len(h) /\ off + y \in off + 1..Len(h) /\ off + x < off + y
    <3>1. off + x < off + y
      BY <1>1, <1>3, <2>5
    <3>. QED
      BY <1>n, <3>1
  <2>. QED
    BY <2>5, <2>6
<1>19. Retold(t, s, h, off)
  BY <1>1, <1>10, <1>11, <1>12, <1>13, <1>14, <1>16, <1>17, <1>18 DEF Retold
<1>. QED
  BY <1>15, <1>19
-----------------------------------------------------------------------------
(* The display history *)

\* A sequence over a set is one over a larger set.
LEMMA SeqMore ==
  ASSUME NEW A, NEW B, A \subseteq B
  PROVE  Seq(A) \subseteq Seq(B)
<1>1. ASSUME NEW s \in Seq(A)
      PROVE  s \in Seq(B)
  <2>1. Len(s) \in Nat /\ s \in [1..Len(s) -> A]
    OBVIOUS
  <2>2. s \in [1..Len(s) -> B]
    BY <2>1
  <2>. QED
    BY <2>1, <2>2
<1>. QED
  BY <1>1

\* A text goes on with a piece that is new.
LEMMA PieceMore ==
  ASSUME NEW p \in Nat, NEW t \in TextsOf(p), NEW q, q = p + 1
  PROVE  /\ Append(t, q) \in TextsOf(q)
         /\ \A i \in DOMAIN Append(t, q) : (i \in DOMAIN t /\ Append(t, q)[i] = t[i]) \/ (i = Len(t) + 1 /\ Append(t, q)[i] = q)
         /\ Rising(t) => Rising(Append(t, q))
         /\ \A u \in TextsOf(p) : Before(u, t) => Before(u, Append(t, q))
         /\ ToSet(Append(t, q)) = ToSet(t) \cup {q}
<1>v. PICK v : v = Append(t, q)
  OBVIOUS
<1>1. t \in Seq(0..p) /\ q \in Nat /\ Len(t) \in Nat /\ DOMAIN t = 1..Len(t)
  BY DEF TextsOf
<1>2. v \in Seq(0..q) /\ DOMAIN v = 1..Len(t) + 1 /\ v[Len(t) + 1] = q /\ \A i \in 1..Len(t) : v[i] = t[i]
  BY <1>1, <1>v
<1>3. \A i \in DOMAIN v : (i \in DOMAIN t /\ v[i] = t[i]) \/ (i = Len(t) + 1 /\ v[i] = q)
  <2>1. ASSUME NEW i \in DOMAIN v
        PROVE  i \in 1..Len(t) \/ i = Len(t) + 1
    BY <1>1, <1>2
  <2>. QED
    BY <1>1, <1>2, <2>1
<1>4. \A i \in DOMAIN t : t[i] < q /\ i < Len(t) + 1 /\ t[i] \in Nat
  BY <1>1
<1>5. ASSUME Rising(t)
      PROVE  Rising(v)
  <2>1. ASSUME NEW i \in DOMAIN v, NEW j \in DOMAIN v, i < j, v[i] # 0, v[j] # 0
        PROVE  v[i] < v[j]
    <3>1. i \in DOMAIN t /\ v[i] = t[i]
      BY <1>1, <1>2, <1>3, <2>1
    <3>2. CASE j \in DOMAIN t /\ v[j] = t[j]
      BY <1>5, <2>1, <3>1, <3>2 DEF Rising
    <3>3. CASE v[j] = q
      BY <1>4, <3>1, <3>3
    <3>. QED
      BY <1>3, <3>2, <3>3
  <2>. QED
    BY <2>1 DEF Rising
<1>6. ASSUME NEW u \in TextsOf(p), Before(u, t)
      PROVE  Before(u, v)
  <2>1. \A i \in DOMAIN u : u[i] < q
    BY DEF TextsOf
  <2>2. ASSUME NEW i \in DOMAIN u, NEW j \in DOMAIN v, u[i] # 0, v[j] # 0
        PROVE  u[i] < v[j]
    <3>1. CASE j \in DOMAIN t /\ v[j] = t[j]
      BY <1>6, <2>2, <3>1 DEF Before
    <3>2. CASE v[j] = q
      BY <2>1, <3>2
    <3>. QED
      BY <1>3, <3>1, <3>2
  <2>. QED
    BY <2>2 DEF Before
<1>7. ToSet(v) = ToSet(t) \cup {q}
  <2>1. Len(t) + 1 \in DOMAIN v /\ DOMAIN t \subseteq DOMAIN v
    BY <1>1, <1>2
  <2>2. \A i \in DOMAIN t : v[i] = t[i]
    BY <1>1, <1>2
  <2>. QED
    BY <1>2, <1>3, <2>1, <2>2 DEF ToSet
<1>8. v \in TextsOf(q)
  BY <1>2 DEF TextsOf
<1>. QED
  BY <1>3, <1>5, <1>6, <1>7, <1>8, <1>v

\* A text of a new piece only.
LEMMA PieceAlone ==
  ASSUME NEW p \in Nat, NEW q, q = p + 1
  PROVE  /\ <<q>> \in TextsOf(q) /\ Rising(<<q>>) /\ ToSet(<<q>>) = {q}
         /\ \A u \in TextsOf(p) : Before(u, <<q>>)
<1>1. <<q>> \in Seq(0..q) /\ DOMAIN <<q>> = {1} /\ <<q>>[1] = q /\ q \in Nat
  OBVIOUS
<1>2. Rising(<<q>>)
  BY <1>1 DEF Rising
<1>3. ASSUME NEW u \in TextsOf(p)
      PROVE  Before(u, <<q>>)
  <2>1. \A i \in DOMAIN u : u[i] < q
    BY DEF TextsOf
  <2>. QED
    BY <1>1, <2>1 DEF Before
<1>4. ToSet(<<q>>) = {q}
  BY <1>1 DEF ToSet
<1>. QED
  BY <1>1, <1>2, <1>3, <1>4 DEF TextsOf

\* The history with one entry more.
LEMMA EntryMore ==
  ASSUME NEW p \in Nat, NEW n \in Nat, NEW h, HistoryOK(h, p, n), NEW e \in Entries(p, n),
         EntryOK(e), Rising(e.text), AllBefore(h, e.text),
         \A i \in DOMAIN h : IsTool(h[i]) /\ IsTool(e) => h[i].call # e.call
  PROVE  /\ HistoryOK(Append(h, e), p, n) /\ Len(Append(h, e)) = Len(h) + 1 /\ Len(h) \in Nat
         /\ DOMAIN h = 1..Len(h) /\ DOMAIN Append(h, e) = 1..Len(h) + 1
         /\ Append(h, e)[Len(h) + 1] = e /\ \A i \in DOMAIN h : Append(h, e)[i] = h[i]
         /\ \A i \in DOMAIN Append(h, e) : i \in DOMAIN h \/ i = Len(h) + 1
<1>g. PICK g : g = Append(h, e)
  OBVIOUS
<1>1. h \in Seq(Entries(p, n)) /\ Len(h) \in Nat /\ DOMAIN h = 1..Len(h)
  BY DEF HistoryOK
<1>2. g \in Seq(Entries(p, n)) /\ DOMAIN g = 1..Len(h) + 1 /\ Len(g) = Len(h) + 1 /\ g[Len(h) + 1] = e /\ \A i \in DOMAIN h : g[i] = h[i]
  BY <1>1, <1>g
<1>3. \A i \in DOMAIN g : i \in DOMAIN h \/ i = Len(h) + 1
  BY <1>1, <1>2
<1>4. \A i \in DOMAIN g : Rising(g[i].text) /\ EntryOK(g[i])
  BY <1>2, <1>3 DEF HistoryOK
<1>5. ASSUME NEW i \in DOMAIN g, NEW j \in DOMAIN g, i < j
      PROVE  Before(g[i].text, g[j].text)
  <2>1. i \in DOMAIN h /\ g[i] = h[i]
    BY <1>1, <1>2, <1>3, <1>5
  <2>2. CASE j \in DOMAIN h
    BY <1>2, <1>5, <2>1, <2>2 DEF HistoryOK
  <2>3. CASE j = Len(h) + 1
    BY <1>2, <2>1, <2>3 DEF AllBefore
  <2>. QED
    BY <1>3, <2>2, <2>3
<1>6. ASSUME NEW i \in DOMAIN g, NEW j \in DOMAIN g, IsTool(g[i]), IsTool(g[j]), g[i].call = g[j].call
      PROVE  i = j
  <2>1. CASE i \in DOMAIN h /\ j \in DOMAIN h
    BY <1>2, <1>6, <2>1 DEF HistoryOK
  <2>2. CASE i \in DOMAIN h /\ j = Len(h) + 1
    BY <1>2, <1>6, <2>2
  <2>3. CASE j \in DOMAIN h /\ i = Len(h) + 1
    BY <1>2, <1>6, <2>3
  <2>. QED
    BY <1>3, <2>1, <2>2, <2>3
<1>7. HistoryOK(g, p, n)
  BY <1>2, <1>4, <1>5, <1>6 DEF HistoryOK
<1>. QED
  BY <1>1, <1>2, <1>3, <1>7, <1>g

\* History h goes on with the answers of calls, and is g.
Answering(g, h, calls, p, n) ==
  /\ HistoryOK(g, p, n) /\ Len(g) \in Nat /\ Len(h) \in Nat /\ Len(h) <= Len(g)
  /\ DOMAIN h = 1..Len(h) /\ DOMAIN g = 1..Len(g)
  /\ \A i \in DOMAIN h : i \in DOMAIN g /\ g[i] = h[i]
  /\ \A i \in DOMAIN g : i \in DOMAIN h \/ (IsTool(g[i]) /\ g[i].text = <<>> /\ g[i].call \in ToSet(calls))

\* The results of calls that were not answered yet are stored.
LEMMA AnswersMore ==
  ASSUME NEW p \in Nat, NEW n \in Nat, NEW h, HistoryOK(h, p, n), NEW calls \in Seq(1..n), IsInjective(calls),
         Unanswered(h, ToSet(calls)), NEW g, g = h \o Answers(calls)
  PROVE  Answering(g, h, calls, p, n)
<1>m. PICK m : m = Len(h)
  OBVIOUS
<1>a. PICK a : a = Answers(calls)
  OBVIOUS
<1>1. h \in Seq(Entries(p, n)) /\ m \in Nat /\ DOMAIN h = 1..m
  BY <1>m DEF HistoryOK
<1>2. DOMAIN a = DOMAIN calls /\ DOMAIN calls = 1..Len(calls) /\ Len(calls) \in Nat /\ a = [k \in 1..Len(calls) |-> a[k]]
  BY <1>a DEF Answers
<1>3. ASSUME NEW k \in DOMAIN calls
      PROVE  a[k] \in Entries(p, n) /\ a[k].role = "tool" /\ a[k].text = <<>> /\ a[k].call = calls[k] /\ calls[k] \in ToSet(calls) /\ calls[k] # 0
  <2>1. a[k] = [role |-> "tool", text |-> <<>>, call |-> calls[k]] /\ calls[k] \in 1..n /\ calls[k] \in 0..n /\ <<>> \in TextsOf(p)
    BY <1>a DEF Answers, Entry, TextsOf
  <2>. QED
    BY <2>1 DEF Entries, ToSet
<1>4. a \in Seq(Entries(p, n)) /\ Len(a) = Len(calls)
  <2>E. PICK E : E = Entries(p, n)
    OBVIOUS
  <2>1. \A k \in 1..Len(calls) : a[k] \in E
    BY <1>2, <1>3, <2>E
  <2>2. a \in Seq(E) /\ Len(a) = Len(calls)
    BY <1>2, <2>1
  <2>. QED
    BY <2>2, <2>E
<1>5. /\ g \in Seq(Entries(p, n)) /\ Len(g) = m + Len(calls) /\ DOMAIN g = 1..m + Len(calls)
      /\ \A i \in 1..m : g[i] = h[i]
      /\ \A k \in 1..Len(calls) : g[m + k] = a[k]
  <2>E. PICK E : E = Entries(p, n)
    OBVIOUS
  <2>1. h \in Seq(E) /\ a \in Seq(E) /\ Len(a) = Len(calls) /\ g = h \o a
    BY <1>1, <1>4, <1>a, <2>E
  <2>2. g \in Seq(E) /\ Len(g) = m + Len(calls)
    <3>1. g \in Seq(E)
      BY <2>1
    <3>2. Len(g) = Len(h) + Len(a)
      BY <2>1, ConcatProperties
    <3>. QED
      BY <1>m, <2>1, <3>1, <3>2
  <2>3. DOMAIN g = 1..m + Len(calls)
    BY <2>2
  <2>4. \A i \in 1..m : g[i] = h[i]
    BY <1>m, <1>2, <2>1
  <2>5. \A k \in 1..Len(calls) : g[m + k] = a[k]
    BY <1>m, <1>2, <2>1
  <2>. QED
    BY <2>2, <2>3, <2>4, <2>5, <2>E
<1>6. ASSUME NEW i \in DOMAIN g
      PROVE  \/ i \in 1..m /\ g[i] = h[i]
             \/ ~(i <= m) /\ \E k \in DOMAIN calls : i = m + k /\ g[i] = a[k]
  <2>1. CASE i <= m
    BY <1>1, <1>5, <2>1
  <2>2. CASE ~(i <= m)
    <3>1. i - m \in 1..Len(calls) /\ i = m + (i - m)
      BY <1>1, <1>2, <1>5, <2>2
    <3>. QED
      BY <1>2, <1>5, <2>2, <3>1
  <2>. QED
    BY <2>1, <2>2
<1>7. \A i \in DOMAIN g : Rising(g[i].text) /\ EntryOK(g[i])
  <2>1. ASSUME NEW i \in DOMAIN g
        PROVE  Rising(g[i].text) /\ EntryOK(g[i])
    <3>1. CASE i \in 1..m /\ g[i] = h[i]
      BY <1>1, <3>1 DEF HistoryOK
    <3>2. CASE \E k \in DOMAIN calls : g[i] = a[k]
      <4>1. g[i].text = <<>> /\ g[i].call # 0 /\ DOMAIN <<>> = {}
        BY <1>3, <3>2
      <4>. QED
        BY <4>1 DEF Rising, EntryOK
    <3>. QED
      BY <1>6, <3>1, <3>2
  <2>. QED
    BY <2>1
<1>8. ASSUME NEW i \in DOMAIN g, NEW j \in DOMAIN g, i < j
      PROVE  Before(g[i].text, g[j].text)
  <2>1. CASE j \in 1..m /\ g[j] = h[j]
    <3>1. i \in 1..m /\ g[i] = h[i]
      BY <1>1, <1>5, <1>8, <2>1
    <3>. QED
      BY <1>1, <1>8, <2>1, <3>1 DEF HistoryOK
  <2>2. CASE \E k \in DOMAIN calls : g[j] = a[k]
    <3>1. g[j].text = <<>> /\ DOMAIN <<>> = {}
      BY <1>3, <2>2
    <3>. QED
      BY <3>1 DEF Before
  <2>. QED
    BY <1>6, <2>1, <2>2
<1>9. ASSUME NEW i \in DOMAIN g, NEW j \in DOMAIN g, IsTool(g[i]), IsTool(g[j]), g[i].call = g[j].call
      PROVE  i = j
  <2>1. CASE i \in 1..m /\ g[i] = h[i] /\ j \in 1..m /\ g[j] = h[j]
    BY <1>1, <1>9, <2>1 DEF HistoryOK
  <2>2. CASE i \in 1..m /\ g[i] = h[i] /\ \E k \in DOMAIN calls : g[j] = a[k]
    BY <1>1, <1>3, <1>9, <2>2 DEF Unanswered
  <2>3. CASE j \in 1..m /\ g[j] = h[j] /\ \E k \in DOMAIN calls : g[i] = a[k]
    BY <1>1, <1>3, <1>9, <2>3 DEF Unanswered
  <2>4. CASE (\E k \in DOMAIN calls : i = m + k /\ g[i] = a[k]) /\ \E l \in DOMAIN calls : j = m + l /\ g[j] = a[l]
    <3>1. PICK k \in DOMAIN calls : i = m + k /\ g[i] = a[k]
      BY <2>4
    <3>2. PICK l \in DOMAIN calls : j = m + l /\ g[j] = a[l]
      BY <2>4
    <3>3. calls[k] = calls[l]
      BY <1>3, <1>9, <3>1, <3>2
    <3>4. k = l
      BY <3>3 DEF IsInjective
    <3>. QED
      BY <3>1, <3>2, <3>4
  <2>. QED
    BY <1>6, <2>1, <2>2, <2>3, <2>4
<1>10. HistoryOK(g, p, n)
  BY <1>5, <1>7, <1>8, <1>9 DEF HistoryOK
<1>11. \A i \in DOMAIN g : i \in DOMAIN h \/ (IsTool(g[i]) /\ g[i].text = <<>> /\ g[i].call \in ToSet(calls))
  <2>1. ASSUME NEW i \in DOMAIN g, i \notin 1..m
        PROVE  IsTool(g[i]) /\ g[i].text = <<>> /\ g[i].call \in ToSet(calls)
    <3>1. PICK k \in DOMAIN calls : g[i] = a[k]
      BY <1>6, <2>1
    <3>. QED
      BY <1>3, <3>1 DEF IsTool
  <2>. QED
    BY <1>1, <2>1
<1>12. Len(g) \in Nat /\ m <= Len(g) /\ DOMAIN g = 1..Len(g) /\ \A i \in DOMAIN h : i \in DOMAIN g /\ g[i] = h[i]
  BY <1>1, <1>2, <1>5
<1>. QED
  BY <1>1, <1>10, <1>11, <1>12, <1>m DEF Answering

\* More pieces and more calls: the history is as good.
LEMMA HistoryMore ==
  ASSUME NEW p \in Nat, NEW q \in Nat, p <= q, NEW n \in Nat, NEW m \in Nat, n <= m, NEW h, HistoryOK(h, p, n)
  PROVE  HistoryOK(h, q, m)
<1>1. Entries(p, n) \subseteq Entries(q, m)
  <2>1. TextsOf(p) \subseteq TextsOf(q) /\ 0..n \subseteq 0..m
    BY WidgetsMore
  <2>. QED
    BY <2>1 DEF Entries
<1>2. h \in Seq(Entries(q, m))
  BY <1>1 DEF HistoryOK
<1>. QED
  BY <1>2 DEF HistoryOK

\* And so is the window.
LEMMA ScreenMore ==
  ASSUME NEW p \in Nat, NEW q \in Nat, p <= q, NEW n \in Nat, NEW m \in Nat, n <= m, NEW s, ScreenOK(s, p, n)
  PROVE  ScreenOK(s, q, m)
<1>1. Seq(Widget(p, n)) \subseteq Seq(Widget(q, m))
  BY WidgetsMore
<1>. QED
  BY <1>1 DEF ScreenOK
-----------------------------------------------------------------------------
(* What a step leaves as it was *)

\* What is there in every state.
LEMMA InvHas ==
  ASSUME TranscriptInv
  PROVE  /\ ScreenOK(screen, pieces, Len(idOf)) /\ IsScreen(screen) /\ DOMAIN screen.widgets = 1..Len(screen.widgets)
         /\ Len(screen.widgets) \in Nat /\ pieces \in Nat /\ Len(idOf) \in Nat /\ Len(stored) \in Nat
         /\ DOMAIN stored = 1..Len(stored) /\ since \in 1..Len(stored) + 1 /\ screen.shown \subseteq DOMAIN screen.widgets
         /\ DOMAIN idOf = 1..Len(idOf)
         /\ \A w \in DOMAIN screen.widgets : IsText(screen.widgets[w]) => screen.widgets[w].text \in TextsOf(pieces)
         /\ \A w \in DOMAIN screen.widgets : IsRow(screen.widgets[w]) => screen.widgets[w].call \in 1..Len(idOf)
         /\ \A i \in DOMAIN stored : stored[i].text \in TextsOf(pieces) /\ stored[i].call \in 0..Len(idOf)
<1>1. ScreenOK(screen, pieces, Len(idOf)) /\ pieces \in Nat /\ idOf \in Seq(Nat) /\ HistoryOK(stored, pieces, Len(idOf)) /\ since \in 1..Len(stored) + 1
  BY DEF TranscriptInv, TurnOK, CallsOK, StoredOK
<1>2. stored \in Seq(Entries(pieces, Len(idOf))) /\ IsScreen(screen) /\ screen.widgets \in Seq(Widget(pieces, Len(idOf))) /\ screen.shown \subseteq DOMAIN screen.widgets
  BY <1>1 DEF HistoryOK, ScreenOK
<1>3. \A w \in DOMAIN screen.widgets : IsText(screen.widgets[w]) => screen.widgets[w].text \in TextsOf(pieces)
  BY <1>2, RepliesHaveTexts DEF IsText
<1>4. \A w \in DOMAIN screen.widgets : IsRow(screen.widgets[w]) => screen.widgets[w].call \in 1..Len(idOf)
  <2>1. ASSUME NEW w \in DOMAIN screen.widgets, IsRow(screen.widgets[w])
        PROVE  screen.widgets[w].call \in 1..Len(idOf)
    <3>x. PICK x : x = screen.widgets[w]
      OBVIOUS
    <3>1. x \in Widget(pieces, Len(idOf)) /\ x.kind = "row"
      BY <1>2, <2>1, <3>x DEF IsRow
    <3>2. x.call \in 1..Len(idOf)
      BY <3>1, WidgetIs DEF User, Reply, Badge
    <3>. QED
      BY <3>2, <3>x
  <2>. QED
    BY <2>1
<1>5. \A i \in DOMAIN stored : stored[i].text \in TextsOf(pieces) /\ stored[i].call \in 0..Len(idOf)
  <2>1. \A i \in DOMAIN stored : stored[i] \in Entries(pieces, Len(idOf))
    BY <1>2
  <2>. QED
    BY <2>1 DEF Entries
<1>6. DOMAIN screen.widgets = 1..Len(screen.widgets) /\ Len(screen.widgets) \in Nat /\ Len(idOf) \in Nat /\ DOMAIN idOf = 1..Len(idOf)
  BY <1>1, <1>2
<1>7. DOMAIN stored = 1..Len(stored) /\ Len(stored) \in Nat
  BY <1>2
<1>. QED
  BY <1>1, <1>2, <1>3, <1>4, <1>5, <1>6, <1>7

\* The rows, when no call starts or returns.
LEMMA RowsStay ==
  ASSUME TranscriptInv, results' = results, past' = past, screen'.rows = screen.rows,
         \A w \in DOMAIN screen'.widgets : IsRow(screen'.widgets[w]) => w \in DOMAIN screen.widgets /\ screen'.widgets[w] = screen.widgets[w],
         \A w \in DOMAIN screen.widgets : IsRow(screen.widgets[w]) => screen'.widgets[w] = screen.widgets[w],
         screen'.shown \subseteq DOMAIN screen'.widgets,
         \A w \in screen'.shown : w \in DOMAIN screen.widgets => w \in screen.shown,
         \A w \in screen.shown : IsRow(screen.widgets[w]) => screen.widgets[w].call \notin ToSet(turnOf'.todo),
         \A w \in DOMAIN screen.widgets : IsRow(screen.widgets[w]) /\ screen.widgets[w].result = "running"
           => /\ idOf'[screen.widgets[w].call] = idOf[screen.widgets[w].call] /\ turnOf'.phase \in {"tools", "ending"}
              /\ turnOf'.phase = "tools" => screen.widgets[w].call \in Awaited',
         \A c \in Awaited' : c \in Awaited /\ idOf'[c] = idOf[c]
  PROVE  RowsOK'
<1>1. ASSUME NEW w \in DOMAIN screen'.widgets, IsRow(screen'.widgets[w])
      PROVE  RowOK(w)'
  <2>1. w \in DOMAIN screen.widgets /\ screen'.widgets[w] = screen.widgets[w] /\ IsRow(screen.widgets[w]) /\ (w \in screen'.shown => w \in screen.shown)
    BY <1>1
  <2>2. RowOK(w)
    BY <2>1 DEF TranscriptInv, RowsOK
  <2>3. screen.widgets[w].of = screen.widgets[w].call /\ (screen.widgets[w].result \in {"ok", "failed"} =>
          screen.widgets[w].call \in DOMAIN results /\ results[screen.widgets[w].call] = screen.widgets[w].result)
    BY <2>2 DEF RowOK
  <2>4. /\ w \in screen.shown /\ screen.widgets[w].result # "historical" => screen.widgets[w].call > past
        /\ w \in screen'.shown => screen.widgets[w].call \notin ToSet(turnOf'.todo)
    BY <2>1, <2>2 DEF RowOK
  <2>5. screen.widgets[w].result = "running" =>
          /\ idOf'[screen.widgets[w].call] \in DOMAIN screen'.rows /\ screen'.rows[idOf'[screen.widgets[w].call]] = w
          /\ turnOf'.phase \in {"tools", "ending"} /\ (turnOf'.phase = "tools" => screen.widgets[w].call \in Awaited')
    BY <2>1, <2>2 DEF RowOK
  <2>. QED
    BY <2>1, <2>3, <2>4, <2>5 DEF RowOK
<1>2. ASSUME NEW v \in screen'.shown, NEW w \in screen'.shown, IsRow(screen'.widgets[v]), IsRow(screen'.widgets[w]),
             screen'.widgets[v].call = screen'.widgets[w].call
      PROVE  v = w
  <2>1. v \in screen.shown /\ w \in screen.shown /\ screen'.widgets[v] = screen.widgets[v] /\ screen'.widgets[w] = screen.widgets[w]
    BY <1>2
  <2>. QED
    BY <1>2, <2>1 DEF TranscriptInv, RowsOK
<1>3. ASSUME NEW c \in Awaited'
      PROVE  /\ idOf'[c] \in DOMAIN screen'.rows
             /\ LET line == screen'.widgets[screen'.rows[idOf'[c]]] IN IsRow(line) /\ line.call = c /\ line.result = "running"
  <2>1. c \in Awaited /\ idOf'[c] = idOf[c]
    BY <1>3
  <2>2. /\ idOf[c] \in DOMAIN screen.rows
        /\ LET line == screen.widgets[screen.rows[idOf[c]]] IN IsRow(line) /\ line.call = c /\ line.result = "running"
    BY <2>1 DEF TranscriptInv, RowsOK
  <2>3. screen.rows[idOf[c]] \in DOMAIN screen.widgets
    BY <2>2 DEF TranscriptInv, ScreenOK
  <2>. QED
    BY <2>1, <2>2, <2>3
<1>. QED
  BY <1>1, <1>2, <1>3 DEF RowsOK

\* What was visible, with other texts.
LEMMA VisibleMore ==
  ASSUME NEW s, NEW t, s.shown \subseteq t.shown,
         \A w \in s.shown : IsText(s.widgets[w]) => IsText(t.widgets[w]) /\ ToSet(s.widgets[w].text) \subseteq ToSet(t.widgets[w].text)
  PROVE  \A p : Visible(s, p) => Visible(t, p)
BY DEF Visible

\* The order, with another text at the end.
LEMMA OrderMore ==
  ASSUME NEW s, InOrder(s), NEW t, NEW k \in Nat, s.shown \subseteq Nat, t.shown \subseteq Nat,
         \A w \in t.shown : IsText(t.widgets[w]) =>
           w = k \/ (w < k /\ w \in s.shown /\ IsText(s.widgets[w]) /\ t.widgets[w].text = s.widgets[w].text),
         k \in t.shown /\ IsText(t.widgets[k]) =>
           /\ Rising(t.widgets[k].text)
           /\ \A w \in s.shown : w < k /\ IsText(s.widgets[w]) => Before(s.widgets[w].text, t.widgets[k].text)
  PROVE  InOrder(t)
<1>1. ASSUME NEW w \in t.shown, IsText(t.widgets[w])
      PROVE  Rising(t.widgets[w].text)
  BY <1>1 DEF InOrder
<1>2. ASSUME NEW v \in t.shown, NEW w \in t.shown, v < w, IsText(t.widgets[v]), IsText(t.widgets[w])
      PROVE  Before(t.widgets[v].text, t.widgets[w].text)
  <2>1. v # k
    <3>1. w = k \/ w < k
      BY <1>2
    <3>. QED
      BY <1>2, <3>1
  <2>2. v < k /\ v \in s.shown /\ IsText(s.widgets[v]) /\ t.widgets[v].text = s.widgets[v].text
    BY <1>2, <2>1
  <2>3. CASE w = k
    BY <1>2, <2>2, <2>3
  <2>4. CASE w # k
    BY <1>2, <2>2, <2>4 DEF InOrder
  <2>. QED
    BY <2>3, <2>4
<1>. QED
  BY <1>1, <1>2 DEF InOrder

\* The next request is made, and the turn ends.
LEMMA AskingIs ==
  ASSUME NEW turn \in Turns
  PROVE  LET t == Asking(turn) IN
         /\ t \in Turns /\ t.phase = "model" /\ t.text = <<>> /\ t.verifying = FALSE
         /\ t.prose = turn.prose /\ t.todo = turn.todo /\ t.going = turn.going
<1>t. PICK t : t = Asking(turn)
  OBVIOUS
<1>1. DOMAIN turn = {"phase", "step", "text", "prose", "todo", "going", "verifying", "verified"}
  BY DEF Turns
<1>2. t.phase = "model"
  BY <1>1, <1>t DEF Asking
<1>3. t.step = turn.step + 1
  BY <1>1, <1>t DEF Asking
<1>4. t.text = <<>>
  BY <1>1, <1>t DEF Asking
<1>5. t.verifying = FALSE /\ t.prose = turn.prose /\ t.todo = turn.todo /\ t.going = turn.going /\ t.verified = turn.verified
  BY <1>1, <1>t DEF Asking
<1>6. DOMAIN t = DOMAIN turn /\ t = [i \in DOMAIN turn |-> t[i]]
  BY <1>t DEF Asking
<1>7. t = [phase |-> t.phase, step |-> t.step, text |-> t.text, prose |-> t.prose, todo |-> t.todo, going |-> t.going,
           verifying |-> t.verifying, verified |-> t.verified]
  BY <1>1, <1>6
<1>8. turn.step \in Nat /\ turn.prose \in Seq(Nat) /\ turn.todo \in Seq(Nat) /\ turn.going \in Seq(Nat) /\ turn.verified \in Nat
  BY DEF Turns
<1>9. t.step \in Nat /\ t.text \in Seq(Nat)
  BY <1>3, <1>4, <1>8
<1>10. t \in Turns
  BY <1>2, <1>5, <1>7, <1>8, <1>9 DEF Turns
<1>. QED
  BY <1>2, <1>4, <1>5, <1>10, <1>t

\* A turn that is ending has no calls left.
LEMMA EndingIs ==
  ASSUME NEW turn \in Turns
  PROVE  LET t == Ending(turn) IN
         /\ t \in Turns /\ t.phase = "ending" /\ t.text = turn.text /\ t.prose = turn.prose
         /\ t.todo = <<>> /\ t.going = <<>>
<1>t. PICK t : t = Ending(turn)
  OBVIOUS
<1>1. DOMAIN turn = {"phase", "step", "text", "prose", "todo", "going", "verifying", "verified"}
  BY DEF Turns
<1>2. t.phase = "ending"
  BY <1>1, <1>t DEF Ending
<1>3. t.todo = <<>>
  BY <1>1, <1>t DEF Ending
<1>4. t.going = <<>>
  BY <1>1, <1>t DEF Ending
<1>5. t.step = turn.step /\ t.text = turn.text /\ t.verifying = turn.verifying /\ t.prose = turn.prose /\ t.verified = turn.verified
  BY <1>1, <1>t DEF Ending
<1>6. DOMAIN t = DOMAIN turn /\ t = [i \in DOMAIN turn |-> t[i]]
  BY <1>t DEF Ending
<1>7. t = [phase |-> t.phase, step |-> t.step, text |-> t.text, prose |-> t.prose, todo |-> t.todo, going |-> t.going,
           verifying |-> t.verifying, verified |-> t.verified]
  BY <1>1, <1>6
<1>8. turn.step \in Nat /\ turn.text \in Seq(Nat) /\ turn.prose \in Seq(Nat) /\ turn.verifying \in BOOLEAN /\ turn.verified \in Nat
  BY DEF Turns
<1>9. t.todo \in Seq(Nat) /\ t.going \in Seq(Nat)
  BY <1>3, <1>4
<1>10. t \in Turns
  BY <1>2, <1>5, <1>7, <1>8, <1>9 DEF Turns
<1>. QED
  BY <1>2, <1>3, <1>4, <1>5, <1>10, <1>t

\* A turn that is over has nothing left.
LEMMA IdleIs ==
  /\ Idle \in Turns /\ Idle.phase = "idle" /\ Idle.text = <<>> /\ Idle.prose = <<>>
  /\ Idle.todo = <<>> /\ Idle.going = <<>> /\ Idle.verifying = FALSE
  /\ <<>> \in Seq(Nat) /\ Rising(<<>>) /\ ToSet(<<>>) = {} /\ IsInjective(<<>>) /\ \A S : <<>> \in Seq(S)
<1>1. <<>> \in Seq(Nat) /\ Rising(<<>>) /\ ToSet(<<>>) = {} /\ IsInjective(<<>>) /\ \A S : <<>> \in Seq(S)
  BY DEF Rising, ToSet, IsInjective
<1>. QED
  BY <1>1 DEF Idle, Turns

\* What was said is on the screen, when more is stored and more shown.
LEMMA SeenMore ==
  ASSUME TranscriptInv, ~cut, NEW g, DOMAIN g = 1..Len(g), NEW t, \A p : Visible(screen, p) => Visible(t, p),
         \A i \in DOMAIN g : (i \in DOMAIN stored /\ g[i] = stored[i]) \/ \A p \in ToSet(g[i].text) \ {0} : Visible(t, p)
  PROVE  \A i \in since..Len(g) : \A p \in ToSet(g[i].text) \ {0} : Visible(t, p)
<1>1. since \in 1..Len(stored) + 1 /\ DOMAIN stored = 1..Len(stored) /\ Len(stored) \in Nat
  BY InvHas
<1>2. ASSUME NEW i \in since..Len(g), NEW p \in ToSet(g[i].text) \ {0}
      PROVE  Visible(t, p)
  <2>1. i \in DOMAIN g
    BY <1>1
  <2>2. CASE i \in DOMAIN stored /\ g[i] = stored[i]
    <3>1. i \in since..Len(stored)
      BY <1>1, <2>2
    <3>2. Visible(screen, p)
      BY <1>2, <2>2, <3>1 DEF TranscriptInv, ShownOK
    <3>. QED
      BY <3>2
  <2>3. CASE \A r \in ToSet(g[i].text) \ {0} : Visible(t, r)
    BY <1>2, <2>3
  <2>. QED
    BY <2>1, <2>2, <2>3
<1>. QED
  BY <1>2
-----------------------------------------------------------------------------
(* The steps *)

\* A turn that begins: the user's text is shown and stored.
LEMMA TurnBeginsKeeps ==
  ASSUME TranscriptInv, TurnBegins
  PROVE  TranscriptInv'
<1>q. PICK q : q = pieces + 1
  OBVIOUS
<1>n. PICK n : n = Len(idOf)
  OBVIOUS
<1>x. PICK x : x = User(<<q>>)
  OBVIOUS
<1>a. PICK a : a = Add(screen, x)
  OBVIOUS
<1>k. PICK k : k = Len(screen.widgets) + 1
  OBVIOUS
<1>e. PICK e : e = Entry("user", <<q>>, 0)
  OBVIOUS
<1>1. /\ turnOf.phase = "idle" /\ pieces' = q /\ screen' = [a EXCEPT !.closed = FALSE] /\ stored' = Append(stored, e)
      /\ turnOf' = Asking(Idle) /\ idOf' = idOf /\ owned' = owned /\ results' = results
      /\ since' = since /\ past' = past /\ cut' = cut /\ again' = again
  BY <1>q, <1>x, <1>a, <1>e DEF TurnBegins, In, conversation, history
<1>2. /\ ScreenOK(screen, pieces, n) /\ DOMAIN screen.widgets = 1..Len(screen.widgets) /\ Len(screen.widgets) \in Nat
      /\ pieces \in Nat /\ n \in Nat /\ q \in Nat /\ pieces <= q
      /\ screen.shown \subseteq DOMAIN screen.widgets
  BY <1>q, <1>n, InvHas
<1>3. /\ <<q>> \in TextsOf(q) /\ Rising(<<q>>) /\ ToSet(<<q>>) = {q}
      /\ \A u \in TextsOf(pieces) : Before(u, <<q>>)
  BY <1>2, <1>q, PieceAlone
<1>4. x \in Widget(q, n) /\ x.kind = "user" /\ x.text = <<q>>
  <2>1. x.kind = "user" /\ x.text = <<q>>
    BY <1>x DEF User
  <2>2. x = User(x.text)
    BY <2>1, <1>x
  <2>. QED
    BY <1>3, <2>1, <2>2, WidgetIs
<1>5. ScreenOK(screen, q, n)
  BY <1>2, ScreenMore
<1>6. /\ ScreenOK(a, q, n) /\ a.shown = screen.shown \cup {k}
      /\ a.current = screen.current /\ a.replies = screen.replies /\ a.rows = screen.rows
      /\ DOMAIN a.widgets = 1..k /\ a.widgets[k] = x
      /\ \A w \in DOMAIN screen.widgets : a.widgets[w] = screen.widgets[w]
  BY <1>2, <1>4, <1>5, <1>a, <1>k, AddOK
<1>7. IsScreen(a) /\ DOMAIN a = {"widgets", "shown", "current", "replies", "rows", "badge", "closed"}
  <2>1. IsScreen(a)
    BY <1>6 DEF ScreenOK
  <2>. QED
    BY <2>1, ScreenHas
<1>8. IsScreen(screen')
  <2>s. PICK s : s = screen'
    OBVIOUS
  <2>1. s = [i \in DOMAIN a |-> s[i]]
    BY <1>1, <2>s
  <2>2. IsScreen(s)
    BY <2>1, <1>7, ScreenIf
  <2>. QED
    BY <2>2, <2>s
<1>9. screen'.widgets = a.widgets /\ screen'.shown = a.shown /\ screen'.current = a.current /\ screen'.replies = a.replies
      /\ screen'.rows = a.rows /\ screen'.badge = a.badge /\ screen'.closed = FALSE
  BY <1>1, <1>7
<1>10. ScreenOK(screen', q, n)
  BY <1>6, <1>8, <1>9 DEF ScreenOK
<1>11. k \in Nat /\ k \in DOMAIN a.widgets /\ k \notin DOMAIN screen.widgets /\ (\A w \in DOMAIN screen.widgets : w \in DOMAIN a.widgets /\ w < k)
       /\ \A w \in DOMAIN a.widgets : w \in DOMAIN screen.widgets \/ w = k
  BY <1>2, <1>6, <1>k
<1>12. screen.current = 0 /\ screen.replies = <<>> /\ ~cut /\ owned \in BOOLEAN /\ again \in BOOLEAN
  BY <1>1 DEF TranscriptInv, TurnOK
<1>t. /\ turnOf' \in Turns /\ turnOf'.phase = "model" /\ turnOf'.text = <<>> /\ turnOf'.prose = <<>>
      /\ turnOf'.todo = <<>> /\ turnOf'.going = <<>>
  BY <1>1, AskingIs, IdleIs
<1>13. TurnOK'
  <2>1. <<>> \in Seq(1..q) /\ Rising(<<>>)
    BY DEF Rising
  <2>2. cut' \in BOOLEAN /\ owned' \in BOOLEAN /\ again' \in BOOLEAN /\ pieces' \in Nat
    BY <1>1, <1>2, <1>12 DEF TranscriptInv, TurnOK
  <2>. QED
    BY <1>1, <1>9, <1>t, <2>1, <2>2 DEF TurnOK
<1>14. turnOf'.todo = <<>> /\ turnOf'.going = <<>> /\ turnOf'.phase = "model" /\ turnOf'.text = <<>> /\ turnOf'.prose = <<>>
       /\ ToSet(turnOf'.todo) = {} /\ ToSet(turnOf'.going) = {}
  BY <1>t DEF ToSet
<1>15. CallsOK'
  <2>1. idOf \in Seq(Nat) /\ past \in 0..Len(idOf) /\ DOMAIN results \subseteq 1..Len(idOf)
    BY DEF TranscriptInv, CallsOK
  <2>2. <<>> \in Seq(past + 1..Len(idOf)) /\ IsInjective(<<>>)
    BY DEF IsInjective
  <2>. QED
    BY <1>1, <1>14, <2>1, <2>2 DEF CallsOK, Pending
<1>16. StoredOK'
  <2>1. HistoryOK(stored, q, n)
    <3>1. HistoryOK(stored, pieces, n)
      BY <1>n DEF TranscriptInv, StoredOK
    <3>2. pieces \in Nat /\ q \in Nat /\ pieces <= q /\ n \in Nat /\ n <= n
      BY <1>2
    <3>. QED
      BY <3>1, <3>2, HistoryMore
  <2>2. e \in Entries(q, n) /\ EntryOK(e) /\ e.text = <<q>> /\ ~IsTool(e)
    BY <1>2, <1>3, <1>e DEF Entry, Entries, EntryOK, IsTool
  <2>3. AllBefore(stored, e.text)
    BY <1>3, <2>2, InvHas DEF AllBefore
  <2>4. /\ HistoryOK(stored', q, n) /\ Len(stored') = Len(stored) + 1 /\ DOMAIN stored' = 1..Len(stored) + 1 /\ Len(stored) \in Nat
    <3>g. PICK g : g = Append(stored, e)
      OBVIOUS
    <3>1. Rising(e.text)
      BY <1>3, <2>2
    <3>n. q \in Nat /\ n \in Nat
      BY <1>2
    <3>2. HistoryOK(g, q, n) /\ Len(g) = Len(stored) + 1 /\ DOMAIN g = 1..Len(stored) + 1 /\ Len(stored) \in Nat
      BY <2>1, <2>2, <2>3, <3>1, <3>g, <3>n, EntryMore
    <3>. QED
      BY <1>1, <3>2, <3>g
  <2>5. since \in 1..Len(stored) + 1
    BY InvHas
  <2>6. Unanswered(stored', Pending')
    BY <1>14 DEF Unanswered, Pending
  <2>7. AllBefore(stored', turnOf'.text)
    BY <1>14 DEF AllBefore, Before
  <2>8. since' \in 1..Len(stored') + 1
    BY <1>1, <2>4, <2>5
  <2>. QED
    BY <1>1, <1>n, <2>4, <2>6, <2>7, <2>8 DEF StoredOK
<1>17. RowsOK'
  <2>1. Awaited' = {}
    BY <1>14 DEF Awaited
  <2>2. \A w \in DOMAIN screen.widgets : IsRow(screen.widgets[w]) => screen.widgets[w].result # "running"
    BY <1>1 DEF TranscriptInv, RowsOK, RowOK
  <2>3. ~IsRow(x)
    BY <1>4 DEF IsRow
  <2>4. \A w \in DOMAIN screen'.widgets : IsRow(screen'.widgets[w]) => w \in DOMAIN screen.widgets /\ screen'.widgets[w] = screen.widgets[w]
    BY <1>6, <1>9, <1>11, <2>3
  <2>5. /\ screen'.shown \subseteq DOMAIN screen'.widgets /\ screen'.rows = screen.rows
        /\ \A w \in screen'.shown : w \in DOMAIN screen.widgets => w \in screen.shown
    BY <1>6, <1>9, <1>10, <1>11 DEF ScreenOK
  <2>6. \A w \in DOMAIN screen.widgets : IsRow(screen.widgets[w]) => screen'.widgets[w] = screen.widgets[w]
    BY <1>6, <1>9
  <2>7. \A w \in screen.shown : IsRow(screen.widgets[w]) => screen.widgets[w].call \notin ToSet(turnOf'.todo)
    BY <1>14
  <2>. QED
    BY <1>1, <2>1, <2>2, <2>4, <2>5, <2>6, <2>7, RowsStay
<1>18. ReplyOK'
  BY <1>6, <1>9, <1>12, <1>14 DEF ReplyOK
<1>19. ShownOK'
  <2>1. ~again => InOrder(screen')
    <3>1. ASSUME ~again
          PROVE  InOrder(screen')
      <4>s. PICK s : s = screen
        OBVIOUS
      <4>t. PICK t : t = screen'
        OBVIOUS
      <4>1. InOrder(s)
        BY <3>1, <4>s DEF TranscriptInv, ShownOK
      <4>2. s.shown \subseteq Nat /\ t.shown \subseteq Nat
        BY <1>2, <1>6, <1>9, <1>11, <4>s, <4>t
      <4>3. \A w \in t.shown : IsText(t.widgets[w]) =>
              w = k \/ (w < k /\ w \in s.shown /\ IsText(s.widgets[w]) /\ t.widgets[w].text = s.widgets[w].text)
        BY <1>2, <1>6, <1>9, <1>11, <4>s, <4>t
      <4>4. Rising(t.widgets[k].text) /\ \A w \in s.shown : w < k /\ IsText(s.widgets[w]) => Before(s.widgets[w].text, t.widgets[k].text)
        <5>1. t.widgets[k].text = <<q>>
          BY <1>4, <1>6, <1>9, <4>t
        <5>2. \A w \in s.shown : IsText(s.widgets[w]) => s.widgets[w].text \in TextsOf(pieces)
          BY <4>s, InvHas
        <5>. QED
          BY <1>3, <5>1, <5>2
      <4>5. InOrder(t)
        BY <1>11, <4>1, <4>2, <4>3, <4>4, OrderMore
      <4>. QED
        BY <4>5, <4>t
    <3>. QED
      BY <3>1
  <2>2. \A i \in since..Len(stored') : \A p \in ToSet(stored'[i].text) \ {0} : Visible(screen', p)
    <3>1. \A p : Visible(screen, p) => Visible(screen', p)
      BY <1>2, <1>6, <1>9 DEF Visible
    <3>2. Visible(screen', q)
      <4>1. k \in screen'.shown /\ screen'.widgets[k].text = <<q>> /\ IsText(screen'.widgets[k])
        BY <1>4, <1>6, <1>9 DEF IsText
      <4>. QED
        BY <1>3, <4>1 DEF Visible
    <3>3. /\ DOMAIN stored' = 1..Len(stored')
          /\ \A i \in DOMAIN stored' : (i \in DOMAIN stored /\ stored'[i] = stored[i]) \/ stored'[i].text = <<q>>
      <4>1. stored \in Seq(Entries(pieces, Len(idOf))) /\ e.text = <<q>>
        BY <1>e DEF TranscriptInv, StoredOK, HistoryOK, Entry
      <4>. QED
        BY <1>1, <4>1
    <3>4. \A i \in DOMAIN stored' : (i \in DOMAIN stored /\ stored'[i] = stored[i]) \/ \A p \in ToSet(stored'[i].text) \ {0} : Visible(screen', p)
      BY <1>3, <3>2, <3>3
    <3>. QED
      BY <1>12, <3>1, <3>3, <3>4, SeenMore
  <2>3. screen'.current = 0 /\ screen'.replies = <<>> /\ DOMAIN <<>> = {}
    BY <1>6, <1>9, <1>12
  <2>. QED
    BY <1>1, <2>1, <2>2, <2>3 DEF ShownOK
<1>. QED
  BY <1>1, <1>10, <1>n, <1>13, <1>15, <1>16, <1>17, <1>18, <1>19 DEF TranscriptInv
\* A turn in which some of the text has been streamed.
LEMMA StreamsKeeps ==
  ASSUME TranscriptInv, NEW thinks \in BOOLEAN, Streams(thinks)
  PROVE  TranscriptInv'
<1>u. PICK u : u = IF thinks THEN <<>> ELSE <<pieces'>>
  OBVIOUS
<1>q. PICK q : q = pieces'
  OBVIOUS
<1>n. PICK n : n = Len(idOf)
  OBVIOUS
<1>s. PICK s : s = screen
  OBVIOUS
<1>t. PICK t : t = screen'
  OBVIOUS
<1>v. PICK v : v = turnOf.text \o u
  OBVIOUS
<1>k. PICK k : k = IF s.current # 0 THEN s.current ELSE Len(s.widgets) + 1
  OBVIOUS
<1>1. /\ turnOf.phase = "model" /\ t = Delta(s, u) /\ turnOf' = [turnOf EXCEPT !.text = v]
      /\ q = (IF thinks THEN pieces ELSE pieces + 1) /\ stored' = stored /\ idOf' = idOf /\ owned' = owned /\ results' = results
      /\ since' = since /\ past' = past /\ cut' = cut /\ again' = again
  BY <1>u, <1>q, <1>s, <1>t, <1>v DEF Streams, In, conversation, history
<1>2. /\ ScreenOK(s, pieces, n) /\ DOMAIN s.widgets = 1..Len(s.widgets) /\ Len(s.widgets) \in Nat
      /\ pieces \in Nat /\ n \in Nat /\ q \in Nat /\ pieces <= q
      /\ s.shown \subseteq DOMAIN s.widgets
  BY <1>1, <1>n, <1>s, InvHas
<1>3. /\ turnOf \in Turns /\ turnOf.text \in Seq(1..pieces) /\ turnOf.text \in TextsOf(pieces) /\ Rising(turnOf.text)
      /\ owned \in BOOLEAN /\ cut \in BOOLEAN /\ again \in BOOLEAN /\ turnOf.prose \in Seq(1..pieces) /\ s.closed = FALSE
  <2>1. turnOf.text \in Seq(1..pieces)
    BY DEF TranscriptInv, TurnOK
  <2>2. 1..pieces \subseteq 0..pieces
    OBVIOUS
  <2>3. s.closed \in BOOLEAN
    BY <1>2 DEF ScreenOK
  <2>. QED
    BY <1>1, <1>s, <2>1, <2>2, <2>3 DEF TranscriptInv, TurnOK, TextsOf
<1>4. u \in TextsOf(q) /\ v \in Seq(1..q) /\ v \in TextsOf(q) /\ Rising(v) /\ ToSet(turnOf.text) \subseteq ToSet(v)
      /\ \A w \in TextsOf(pieces) : Before(w, turnOf.text) => Before(w, v)
  <2>1. CASE thinks
    <3>1. u = <<>> /\ q = pieces /\ v = turnOf.text
      BY <1>1, <1>3, <1>u, <1>v, <2>1
    <3>2. <<>> \in TextsOf(q)
      BY DEF TextsOf
    <3>. QED
      BY <1>3, <3>1, <3>2
  <2>2. CASE ~thinks
    <3>1. u = <<q>> /\ q = pieces + 1
      BY <1>1, <1>q, <1>u, <2>2
    <3>2. v = Append(turnOf.text, q)
      BY <1>3, <1>v, <3>1
    <3>3. u \in TextsOf(q)
      BY <1>2, <3>1, PieceAlone
    <3>4. /\ Append(turnOf.text, q) \in TextsOf(q) /\ Rising(Append(turnOf.text, q))
          /\ ToSet(Append(turnOf.text, q)) = ToSet(turnOf.text) \cup {q}
          /\ \A w \in TextsOf(pieces) : Before(w, turnOf.text) => Before(w, Append(turnOf.text, q))
      BY <1>2, <1>3, <3>1, PieceMore
    <3>5. Append(turnOf.text, q) \in Seq(1..q)
      <4>1. 1..pieces \subseteq 1..q /\ q \in 1..q
        BY <1>2, <3>1
      <4>2. turnOf.text \in Seq(1..q)
        BY <1>3, <4>1, SeqMore
      <4>. QED
        BY <4>1, <4>2
    <3>. QED
      BY <3>2, <3>3, <3>4, <3>5
  <2>. QED
    BY <2>1, <2>2
<1>5. ScreenOK(s, q, n)
  BY <1>2, ScreenMore
<1>6. /\ ScreenOK(t, q, n)
      /\ t.current = k /\ t.rows = s.rows /\ t.badge = s.badge /\ t.closed = s.closed
      /\ t.replies = IF s.current # 0 THEN s.replies ELSE Append(s.replies, k)
      /\ t.shown = IF s.current # 0 THEN s.shown ELSE s.shown \cup {k}
      /\ DOMAIN t.widgets = IF s.current # 0 THEN DOMAIN s.widgets ELSE 1..k
      /\ k \in DOMAIN t.widgets /\ t.widgets[k].kind = "reply"
      /\ t.widgets[k].text = IF s.current # 0 THEN s.widgets[k].text \o u ELSE u
      /\ \A w \in DOMAIN s.widgets : w # k => t.widgets[w] = s.widgets[w]
  <2>0. q \in Nat /\ n \in Nat /\ u \in TextsOf(q) /\ t = Delta(s, u)
    BY <1>1, <1>2, <1>4
  <2>2. CASE s.current # 0
    <3>1. k = s.current
      BY <1>k, <2>2
    <3>x. PICK x : x = s.widgets[k].text \o u
      OBVIOUS
    <3>V. PICK V : V = [s.widgets EXCEPT ![k] = [s.widgets[k] EXCEPT !.text = x]]
      OBVIOUS
    <3>2. t = [s EXCEPT !.widgets = V]
      BY <2>0, <2>2, <3>1, <3>x, <3>V DEF Delta
    <3>3. x \in TextsOf(q)
      <4>1. k \in DOMAIN s.widgets /\ s.widgets[k].kind = "reply" /\ s.widgets \in Seq(Widget(q, n))
        BY <1>2, <1>5, <2>2, <3>1 DEF ScreenOK
      <4>2. s.widgets[k].text \in TextsOf(q)
        BY <4>1, RepliesHaveTexts
      <4>. QED
        BY <2>0, <3>x, <4>2 DEF TextsOf
    <3>4. /\ ScreenOK(t, q, n) /\ k \in DOMAIN s.widgets
          /\ t.current = k /\ t.rows = s.rows /\ t.badge = s.badge /\ t.closed = s.closed
          /\ t.replies = s.replies /\ t.shown = s.shown /\ DOMAIN t.widgets = DOMAIN s.widgets
          /\ t.widgets[k].kind = "reply" /\ t.widgets[k].text = x
          /\ \A w \in DOMAIN s.widgets : w # k => t.widgets[w] = s.widgets[w]
      BY <1>5, <2>0, <2>2, <3>1, <3>2, <3>3, <3>V, DeltaGoesOn
    <3>. QED
      BY <2>2, <3>4, <3>x
  <2>3. CASE s.current = 0
    <3>1. k = Len(s.widgets) + 1
      BY <1>k, <2>3
    <3>2. /\ ScreenOK(t, q, n) /\ t.current = k /\ t.rows = s.rows /\ t.badge = s.badge /\ t.closed = s.closed
          /\ t.replies = Append(s.replies, k) /\ t.shown = s.shown \cup {k} /\ DOMAIN t.widgets = 1..k
          /\ k \in DOMAIN t.widgets /\ t.widgets[k].kind = "reply" /\ t.widgets[k].text = u
          /\ \A w \in DOMAIN s.widgets : w \in DOMAIN t.widgets /\ w < k /\ t.widgets[w] = s.widgets[w]
      BY <1>5, <2>0, <2>3, <3>1, DeltaBegins
    <3>. QED
      BY <2>3, <3>2
  <2>. QED
    BY <2>2, <2>3
<1>7. /\ t.widgets[k].text = v
      /\ s.current # 0 => s.replies # <<>> /\ s.replies[Len(s.replies)] = k /\ s.widgets[k].text = turnOf.text
                          /\ k \in DOMAIN s.widgets /\ s.widgets[k].kind = "reply"
      /\ s.current = 0 => turnOf.text = <<>>
  <2>1. CASE s.current # 0
    <3>1. k = s.current /\ s.replies # <<>> /\ s.replies[Len(s.replies)] = k /\ s.widgets[k].text = turnOf.text
      BY <1>1, <1>k, <1>s, <2>1 DEF TranscriptInv, ReplyOK, LastReply
    <3>2. k \in DOMAIN s.widgets /\ s.widgets[k].kind = "reply"
      BY <1>2, <2>1, <3>1 DEF ScreenOK
    <3>. QED
      BY <1>6, <1>v, <2>1, <3>1, <3>2
  <2>2. CASE s.current = 0
    <3>1. turnOf.text = <<>>
      BY <1>1, <1>s, <2>2 DEF TranscriptInv, ReplyOK
    <3>2. v = u
      BY <1>4, <1>v, <3>1 DEF TextsOf
    <3>. QED
      BY <1>6, <2>2, <3>1, <3>2
  <2>. QED
    BY <2>1, <2>2
<1>8. /\ k \in Nat /\ k # 0 /\ (\A w \in DOMAIN s.widgets : w \in DOMAIN t.widgets /\ w \in Nat)
      /\ (\A w \in DOMAIN t.widgets : w \in DOMAIN s.widgets \/ w = k)
      /\ s.current = 0 => k \notin DOMAIN s.widgets /\ \A w \in DOMAIN s.widgets : w < k
  <2>1. CASE s.current # 0
    BY <1>2, <1>6, <1>7, <2>1
  <2>2. CASE s.current = 0
    BY <1>2, <1>6, <1>k, <2>2
  <2>. QED
    BY <2>1, <2>2
<1>9. \A w \in DOMAIN s.widgets : IsText(s.widgets[w]) => w <= k
  <2>1. CASE s.current # 0
    <3>1. k = s.current
      BY <1>k, <2>1
    <3>. QED
      BY <1>s, <2>1, <3>1 DEF TranscriptInv, ReplyOK
  <2>2. CASE s.current = 0
    BY <1>8, <1>2, <2>2
  <2>. QED
    BY <2>1, <2>2
<1>10. /\ turnOf' \in Turns /\ turnOf'.phase = "model" /\ turnOf'.text = v /\ turnOf'.prose = turnOf.prose
       /\ turnOf'.todo = turnOf.todo /\ turnOf'.going = turnOf.going /\ turnOf'.verifying = turnOf.verifying
  <2>1. v \in Seq(Nat)
    <3>1. 1..q \subseteq Nat
      BY <1>2
    <3>. QED
      BY <1>4, <3>1, SeqMore
  <2>. QED
    BY <1>1, <1>3, <2>1 DEF Turns
<1>11. turnOf.todo = <<>> /\ turnOf.going = <<>>
  BY <1>1 DEF TranscriptInv, CallsOK
<1>12. TurnOK'
  <2>1. turnOf'.prose \in Seq(1..q)
    <3>1. 1..pieces \subseteq 1..q
      BY <1>2
    <3>. QED
      BY <1>3, <1>10, <3>1, SeqMore
  <2>. QED
    BY <1>1, <1>2, <1>3, <1>4, <1>6, <1>10, <1>t, <1>q, <2>1 DEF TurnOK
<1>13. CallsOK'
  <2>1. idOf \in Seq(Nat) /\ past \in 0..Len(idOf) /\ DOMAIN results \subseteq 1..Len(idOf)
    BY DEF TranscriptInv, CallsOK
  <2>2. <<>> \in Seq(past + 1..Len(idOf)) /\ IsInjective(<<>>) /\ ToSet(<<>>) = {}
    BY DEF IsInjective, ToSet
  <2>. QED
    BY <1>1, <1>10, <1>11, <2>1, <2>2 DEF CallsOK, Pending
<1>14. StoredOK'
  <2>1. HistoryOK(stored, q, n)
    <3>1. HistoryOK(stored, pieces, n)
      BY <1>n DEF TranscriptInv, StoredOK
    <3>. QED
      BY <1>2, <3>1, HistoryMore
  <2>2. Unanswered(stored, Pending')
    BY <1>10, <1>11 DEF Unanswered, Pending, ToSet
  <2>3. AllBefore(stored, v)
    <3>1. AllBefore(stored, turnOf.text)
      BY <1>1 DEF TranscriptInv, StoredOK
    <3>. QED
      BY <1>4, <3>1, InvHas DEF AllBefore
  <2>4. since \in 1..Len(stored) + 1
    BY InvHas
  <2>. QED
    BY <1>1, <1>n, <1>q, <1>10, <2>1, <2>2, <2>3, <2>4 DEF StoredOK
<1>15. RowsOK'
  <2>1. Awaited' = {}
    BY <1>10, <1>11 DEF Awaited, ToSet
  <2>2. \A w \in DOMAIN screen.widgets : IsRow(screen.widgets[w]) => screen.widgets[w].result # "running"
    BY <1>1 DEF TranscriptInv, RowsOK, RowOK
  <2>3. ~IsRow(t.widgets[k]) /\ (k \in DOMAIN s.widgets => ~IsRow(s.widgets[k]))
    <3>1. s.current = 0 => k \notin DOMAIN s.widgets
      BY <1>8
    <3>. QED
      BY <1>6, <1>7, <3>1 DEF IsRow
  <2>4. \A w \in DOMAIN t.widgets : IsRow(t.widgets[w]) => w \in DOMAIN s.widgets /\ t.widgets[w] = s.widgets[w]
    BY <1>6, <1>8, <2>3
  <2>5. /\ t.shown \subseteq DOMAIN t.widgets /\ t.rows = s.rows
        /\ \A w \in t.shown : w \in DOMAIN s.widgets => w \in s.shown
    BY <1>6, <1>8 DEF ScreenOK
  <2>6. \A w \in DOMAIN s.widgets : IsRow(s.widgets[w]) => t.widgets[w] = s.widgets[w]
    BY <1>6, <2>3
  <2>7. \A w \in screen.shown : IsRow(screen.widgets[w]) => screen.widgets[w].call \notin ToSet(turnOf'.todo)
    BY <1>10, <1>11 DEF ToSet
  <2>. QED
    BY <1>1, <1>s, <1>t, <2>1, <2>2, <2>4, <2>5, <2>6, <2>7, RowsStay
<1>16. ReplyOK'
  <2>1. t.replies # <<>> /\ t.replies[Len(t.replies)] = k
    <3>1. s.replies \in Seq(Nat)
      BY <1>2 DEF ScreenOK
    <3>. QED
      BY <1>6, <1>7, <1>8, <3>1
  <2>2. t.current = k /\ k # 0 /\ t.widgets[k].text = v
    BY <1>6, <1>7, <1>8
  <2>3. ~again => turnOf.prose = <<>>
    BY <1>1 DEF TranscriptInv, ReplyOK
  <2>4. \A w \in DOMAIN t.widgets : IsText(t.widgets[w]) => w <= k
    <3>1. ASSUME NEW w \in DOMAIN t.widgets, IsText(t.widgets[w]), w # k
          PROVE  w <= k
      <4>1. w \in DOMAIN s.widgets /\ t.widgets[w] = s.widgets[w]
        BY <1>6, <1>8, <3>1
      <4>. QED
        BY <1>9, <3>1, <4>1
    <3>2. k <= k
      BY <1>8
    <3>. QED
      BY <3>1, <3>2
  <2>. QED
    BY <1>1, <1>10, <1>t, <2>1, <2>2, <2>3, <2>4 DEF ReplyOK, LastReply
<1>17. ShownOK'
  <2>1. ASSUME ~again
        PROVE  InOrder(t)
    <3>1. InOrder(s)
      BY <2>1, <1>s DEF TranscriptInv, ShownOK
    <3>2. s.shown \subseteq Nat /\ t.shown \subseteq Nat
      BY <1>2, <1>6, <1>8
    <3>3. \A w \in t.shown : IsText(t.widgets[w]) =>
            w = k \/ (w < k /\ w \in s.shown /\ IsText(s.widgets[w]) /\ t.widgets[w].text = s.widgets[w].text)
      <4>1. ASSUME NEW w \in t.shown, IsText(t.widgets[w]), w # k
            PROVE  w < k /\ w \in s.shown /\ IsText(s.widgets[w]) /\ t.widgets[w].text = s.widgets[w].text
        <5>1. w \in s.shown /\ w \in DOMAIN s.widgets
          BY <1>2, <1>6, <4>1
        <5>2. t.widgets[w] = s.widgets[w]
          BY <1>6, <4>1, <5>1
        <5>3. w <= k /\ w \in Nat
          BY <1>9, <1>8, <4>1, <5>1, <5>2
        <5>. QED
          BY <1>8, <4>1, <5>1, <5>2, <5>3
      <4>. QED
        BY <4>1
    <3>4. ASSUME k \in t.shown, IsText(t.widgets[k])
          PROVE  Rising(t.widgets[k].text) /\ \A w \in s.shown : w < k /\ IsText(s.widgets[w]) => Before(s.widgets[w].text, t.widgets[k].text)
      <4>1. \A w \in s.shown : IsText(s.widgets[w]) => s.widgets[w].text \in TextsOf(pieces)
        BY <1>s, InvHas
      <4>2. CASE s.current # 0
        <5>1. k \in s.shown /\ IsText(s.widgets[k]) /\ s.widgets[k].text = turnOf.text
          BY <1>6, <1>7, <2>1, <3>4, <4>2 DEF IsText
        <5>2. \A w \in s.shown : w < k /\ IsText(s.widgets[w]) => Before(s.widgets[w].text, turnOf.text)
          BY <3>1, <5>1 DEF InOrder
        <5>. QED
          BY <1>4, <1>7, <4>1, <5>2
      <4>3. CASE s.current = 0
        <5>1. turnOf.text = <<>> /\ \A w : Before(w, <<>>)
          BY <1>7, <4>3 DEF Before
        <5>. QED
          BY <1>4, <1>7, <4>1, <5>1
      <4>. QED
        BY <4>2, <4>3
    <3>. QED
      BY <1>8, <3>1, <3>2, <3>3, <3>4, OrderMore
  <2>2. \A p : Visible(s, p) => Visible(t, p)
    <3>1. s.shown \subseteq t.shown
      BY <1>6
    <3>2. ASSUME NEW w \in s.shown, IsText(s.widgets[w])
          PROVE  IsText(t.widgets[w]) /\ ToSet(s.widgets[w].text) \subseteq ToSet(t.widgets[w].text)
      <4>1. w \in DOMAIN s.widgets
        BY <1>2
      <4>2. CASE w # k
        BY <1>6, <3>2, <4>1, <4>2
      <4>3. CASE w = k
        <5>1. s.current # 0
          BY <1>8, <4>1, <4>3
        <5>. QED
          BY <1>4, <1>6, <1>7, <4>3, <5>1 DEF IsText
      <4>. QED
        BY <4>2, <4>3
    <3>. QED
      BY <3>1, <3>2, VisibleMore
  <2>3. ASSUME ~cut
        PROVE  /\ t.current # 0 => t.current \in t.shown
               /\ \A i \in DOMAIN t.replies : t.replies[i] \in t.shown
               /\ \A i \in since..Len(stored) : \A p \in ToSet(stored[i].text) \ {0} : Visible(t, p)
    <3>1. /\ s.current # 0 => s.current \in s.shown
          /\ \A i \in DOMAIN s.replies : s.replies[i] \in s.shown
          /\ \A i \in since..Len(stored) : \A p \in ToSet(stored[i].text) \ {0} : Visible(s, p)
      BY <2>3, <1>s DEF TranscriptInv, ShownOK
    <3>2. s.replies \in Seq(Nat)
      BY <1>2 DEF ScreenOK
    <3>3. k \in t.shown /\ s.shown \subseteq t.shown
      <4>1. CASE s.current # 0
        <5>1. k = s.current /\ t.shown = s.shown
          BY <1>6, <1>k, <4>1
        <5>. QED
          BY <3>1, <4>1, <5>1
      <4>2. CASE s.current = 0
        BY <1>6, <4>2
      <4>. QED
        BY <4>1, <4>2
    <3>4. ASSUME NEW i \in DOMAIN t.replies
          PROVE  t.replies[i] \in t.shown
      <4>1. CASE s.current # 0
        <5>1. t.replies = s.replies /\ t.shown = s.shown
          BY <1>6, <4>1
        <5>. QED
          BY <3>1, <3>4, <5>1
      <4>2. CASE s.current = 0
        <5>1. t.replies = Append(s.replies, k)
          BY <1>6, <4>2
        <5>2. t.replies[i] = k \/ (i \in DOMAIN s.replies /\ t.replies[i] = s.replies[i])
          BY <1>8, <3>2, <3>4, <5>1
        <5>. QED
          BY <3>1, <3>3, <5>2
      <4>. QED
        BY <4>1, <4>2
    <3>. QED
      BY <1>6, <2>2, <3>1, <3>3, <3>4
  <2>. QED
    BY <1>1, <1>t, <2>1, <2>3 DEF ShownOK
<1>. QED
  BY <1>1, <1>6, <1>n, <1>q, <1>t, <1>12, <1>13, <1>14, <1>15, <1>16, <1>17 DEF TranscriptInv
-----------------------------------------------------------------------------
(* The steps that leave the screen as it is *)

\* The rows of a screen that stays.
LEMMA StillRows ==
  ASSUME TranscriptInv, screen' = screen, results' = results, past' = past,
         \A w \in screen.shown : IsRow(screen.widgets[w]) => screen.widgets[w].call \notin ToSet(turnOf'.todo),
         \A w \in DOMAIN screen.widgets : IsRow(screen.widgets[w]) /\ screen.widgets[w].result = "running"
           => /\ idOf'[screen.widgets[w].call] = idOf[screen.widgets[w].call] /\ turnOf'.phase \in {"tools", "ending"}
              /\ turnOf'.phase = "tools" => screen.widgets[w].call \in Awaited',
         \A c \in Awaited' : c \in Awaited /\ idOf'[c] = idOf[c]
  PROVE  RowsOK'
<1>1. screen.shown \subseteq DOMAIN screen.widgets
  BY InvHas
<1>2. /\ screen'.rows = screen.rows /\ screen'.shown = screen.shown /\ screen'.widgets = screen.widgets
      /\ DOMAIN screen'.widgets = DOMAIN screen.widgets
  OBVIOUS
<1>3. /\ \A w \in DOMAIN screen'.widgets : IsRow(screen'.widgets[w]) => w \in DOMAIN screen.widgets /\ screen'.widgets[w] = screen.widgets[w]
      /\ \A w \in DOMAIN screen.widgets : IsRow(screen.widgets[w]) => screen'.widgets[w] = screen.widgets[w]
      /\ screen'.shown \subseteq DOMAIN screen'.widgets
      /\ \A w \in screen'.shown : w \in DOMAIN screen.widgets => w \in screen.shown
  BY <1>1, <1>2
<1>. QED
  BY <1>2, <1>3, RowsStay

\* What a screen that stays shows.
LEMMA StillShown ==
  ASSUME TranscriptInv, screen' = screen, cut' = cut, since' = since, again' \in BOOLEAN, ~again' => ~again,
         DOMAIN stored' = 1..Len(stored'),
         ~cut => \A i \in DOMAIN stored' : (i \in DOMAIN stored /\ stored'[i] = stored[i])
                                           \/ \A p \in ToSet(stored'[i].text) \ {0} : Visible(screen, p)
  PROVE  ShownOK'
<1>g. PICK g : g = stored'
  OBVIOUS
<1>1. ASSUME ~cut
      PROVE  \A i \in since..Len(stored') : \A p \in ToSet(stored'[i].text) \ {0} : Visible(screen', p)
  <2>1. \A i \in DOMAIN g : (i \in DOMAIN stored /\ g[i] = stored[i]) \/ \A p \in ToSet(g[i].text) \ {0} : Visible(screen, p)
    BY <1>1, <1>g
  <2>2. DOMAIN g = 1..Len(g) /\ \A p : Visible(screen, p) => Visible(screen, p)
    BY <1>g
  <2>3. \A i \in since..Len(g) : \A p \in ToSet(g[i].text) \ {0} : Visible(screen, p)
    BY <1>1, <2>1, <2>2, SeenMore
  <2>. QED
    BY <1>g, <2>3 DEF Visible
<1>2. /\ ~again => InOrder(screen)
      /\ ~cut => /\ screen.current # 0 => screen.current \in screen.shown
                 /\ \A k \in DOMAIN screen.replies : screen.replies[k] \in screen.shown
  BY DEF TranscriptInv, ShownOK
<1>. QED
  BY <1>1, <1>2 DEF ShownOK, InOrder

\* The message that streams can be seen.
LEMMA MessageSeen ==
  ASSUME TranscriptInv, turnOf.phase = "model", ~cut
  PROVE  \A p \in ToSet(turnOf.text) \ {0} : Visible(screen, p)
<1>1. CASE screen.current = 0
  <2>1. ToSet(turnOf.text) = {}
    BY <1>1 DEF TranscriptInv, ReplyOK, ToSet
  <2>. QED
    BY <2>1
<1>2. CASE screen.current # 0
  <2>1. screen.widgets[screen.current].text = turnOf.text /\ screen.current \in screen.shown
    BY <1>2 DEF TranscriptInv, ReplyOK, ShownOK
  <2>2. IsText(screen.widgets[screen.current])
    BY <1>2, InvHas DEF ScreenOK, IsText
  <2>. QED
    BY <2>1, <2>2 DEF Visible
<1>. QED
  BY <1>1, <1>2

\* The message that streamed is stored.
LEMMA SpokeIs ==
  ASSUME TranscriptInv, turnOf.phase = "model", NEW ids, NEW g, g = stored \o Spoke(turnOf.text, ids), NEW n, n = Len(idOf)
  PROVE  /\ HistoryOK(g, pieces, n) /\ DOMAIN g = 1..Len(g) /\ Len(g) \in Nat /\ Len(stored) <= Len(g)
         /\ \A i \in DOMAIN g : \/ i \in DOMAIN stored /\ g[i] = stored[i]
                                \/ g[i].text = turnOf.text /\ ~IsTool(g[i])
<1>1. /\ HistoryOK(stored, pieces, n) /\ AllBefore(stored, turnOf.text) /\ turnOf.text \in Seq(1..pieces) /\ Rising(turnOf.text)
      /\ pieces \in Nat /\ n \in Nat /\ Len(stored) \in Nat /\ DOMAIN stored = 1..Len(stored)
  BY InvHas DEF TranscriptInv, TurnOK, StoredOK
<1>2. stored \in Seq(Entries(pieces, n))
  BY <1>1 DEF HistoryOK
<1>3. CASE turnOf.text = <<>> /\ ids = <<>>
  <2>1. g = stored
    BY <1>2, <1>3 DEF Spoke
  <2>. QED
    BY <1>1, <2>1
<1>4. CASE ~(turnOf.text = <<>> /\ ids = <<>>)
  <2>e. PICK e : e = Entry("assistant", turnOf.text, 0)
    OBVIOUS
  <2>1. g = Append(stored, e)
    BY <1>2, <1>4, <2>e DEF Spoke
  <2>2. turnOf.text \in TextsOf(pieces)
    <3>1. 1..pieces \subseteq 0..pieces
      OBVIOUS
    <3>. QED
      BY <1>1, <3>1, SeqMore DEF TextsOf
  <2>3. e \in Entries(pieces, n) /\ EntryOK(e) /\ ~IsTool(e) /\ e.text = turnOf.text
    BY <1>1, <2>2, <2>e DEF Entry, Entries, EntryOK, IsTool
  <2>4. /\ HistoryOK(g, pieces, n) /\ Len(g) = Len(stored) + 1 /\ DOMAIN g = 1..Len(stored) + 1
        /\ g[Len(stored) + 1] = e /\ \A i \in DOMAIN stored : g[i] = stored[i]
        /\ \A i \in DOMAIN g : i \in DOMAIN stored \/ i = Len(stored) + 1
    BY <1>1, <2>1, <2>3, EntryMore
  <2>. QED
    BY <1>1, <2>3, <2>4
<1>. QED
  BY <1>3, <1>4

\* A message without calls that is complete.
LEMMA SaysKeeps ==
  ASSUME TranscriptInv, Says
  PROVE  TranscriptInv'
<1>g. PICK g : g = stored'
  OBVIOUS
<1>n. PICK n : n = Len(idOf)
  OBVIOUS
<1>d. PICK d : d = [turnOf EXCEPT !.prose = turnOf.text]
  OBVIOUS
<1>1. /\ turnOf.phase = "model" /\ g = stored \o Spoke(turnOf.text, <<>>) /\ turnOf' = Ending(d)
      /\ screen' = screen /\ idOf' = idOf /\ owned' = owned /\ results' = results /\ pieces' = pieces
      /\ since' = since /\ past' = past /\ cut' = cut /\ again' = again
  BY <1>g, <1>d DEF Says, In, history
<1>2. /\ turnOf \in Turns /\ turnOf.text \in Seq(1..pieces) /\ Rising(turnOf.text) /\ turnOf.text \in Seq(Nat)
      /\ pieces \in Nat /\ owned \in BOOLEAN /\ cut \in BOOLEAN /\ again \in BOOLEAN /\ screen.closed = FALSE
  <2>1. turnOf \in Turns /\ (screen.closed <=> turnOf.phase = "idle") /\ screen.closed \in BOOLEAN
    BY InvHas DEF TranscriptInv, TurnOK, ScreenOK
  <2>. QED
    BY <1>1, <2>1 DEF TranscriptInv, TurnOK, Turns
<1>3. d \in Turns /\ d.text = turnOf.text /\ d.prose = turnOf.text
  BY <1>2, <1>d DEF Turns
<1>4. /\ turnOf' \in Turns /\ turnOf'.phase = "ending" /\ turnOf'.text = turnOf.text /\ turnOf'.prose = turnOf.text
      /\ turnOf'.todo = <<>> /\ turnOf'.going = <<>> /\ ToSet(turnOf'.todo) = {} /\ ToSet(turnOf'.going) = {}
  BY <1>1, <1>3, EndingIs, IdleIs
<1>5. TurnOK'
  BY <1>1, <1>2, <1>4 DEF TurnOK
<1>6. CallsOK'
  BY <1>1, <1>4, IdleIs DEF TranscriptInv, CallsOK, Pending
<1>7. /\ HistoryOK(g, pieces, n) /\ DOMAIN g = 1..Len(g) /\ Len(g) \in Nat /\ Len(stored) <= Len(g)
      /\ \A i \in DOMAIN g : \/ i \in DOMAIN stored /\ g[i] = stored[i]
                             \/ g[i].text = turnOf.text /\ ~IsTool(g[i])
  BY <1>1, <1>n, SpokeIs
<1>8. StoredOK'
  <2>1. since \in 1..Len(g) + 1
    BY <1>7, InvHas
  <2>2. Unanswered(g, {})
    BY DEF Unanswered
  <2>. QED
    BY <1>1, <1>g, <1>n, <1>4, <1>7, <2>1, <2>2 DEF StoredOK, Pending
<1>9. RowsOK'
  <2>1. Awaited' = {} /\ \A w \in screen.shown : screen.widgets[w].call \notin ToSet(turnOf'.todo)
    BY <1>4 DEF Awaited
  <2>2. \A w \in DOMAIN screen.widgets : IsRow(screen.widgets[w]) => screen.widgets[w].result # "running"
    BY <1>1 DEF TranscriptInv, RowsOK, RowOK
  <2>. QED
    BY <1>1, <2>1, <2>2, StillRows
<1>10. ReplyOK'
  <2>1. turnOf.text # <<>> => screen.replies # <<>> /\ screen.widgets[LastReply].text = turnOf.text
    BY <1>1 DEF TranscriptInv, ReplyOK
  <2>2. \A v \in DOMAIN screen.widgets : IsText(screen.widgets[v]) =>
          (screen.current # 0 => v <= screen.current) /\ (screen.replies # <<>> => v <= LastReply)
    BY DEF TranscriptInv, ReplyOK
  <2>. QED
    BY <1>1, <1>4, <2>1, <2>2 DEF ReplyOK, LastReply
<1>11. ShownOK'
  <2>1. ASSUME ~cut
        PROVE  \A i \in DOMAIN g : (i \in DOMAIN stored /\ g[i] = stored[i]) \/ \A p \in ToSet(g[i].text) \ {0} : Visible(screen, p)
    BY <1>1, <1>7, <2>1, MessageSeen
  <2>. QED
    BY <1>1, <1>2, <1>7, <1>g, <2>1, StillShown
<1>. QED
  BY <1>1, <1>5, <1>6, <1>8, <1>9, <1>10, <1>11 DEF TranscriptInv
\* The calls of a message are numbered on from those there were.
LEMMA CalledIs ==
  ASSUME TranscriptInv, NEW ids \in Seq(Nat), NEW m, m = Len(idOf) + Len(ids), NEW calls, calls = Called(ids)
  PROVE  /\ m \in Nat /\ Len(idOf) \in Nat /\ Len(idOf) <= m
         /\ calls \in Seq(past + 1..m) /\ calls \in Seq(1..m) /\ calls \in Seq(Nat) /\ IsInjective(calls)
         /\ DOMAIN calls = DOMAIN ids /\ (ids # <<>> => calls # <<>>)
         /\ \A c \in ToSet(calls) : c \notin 1..Len(idOf) /\ \E k \in DOMAIN ids : c = Len(idOf) + k
<1>1. idOf \in Seq(Nat) /\ past \in 0..Len(idOf) /\ Len(idOf) \in Nat /\ DOMAIN idOf = 1..Len(idOf)
      /\ Len(ids) \in Nat /\ DOMAIN ids = 1..Len(ids)
  <2>1. idOf \in Seq(Nat) /\ past \in 0..Len(idOf)
    BY DEF TranscriptInv, CallsOK
  <2>. QED
    BY <2>1
<1>2. m \in Nat /\ Len(idOf) <= m
  BY <1>1
<1>3. DOMAIN calls = 1..Len(ids) /\ \A k \in 1..Len(ids) : calls[k] = Len(idOf) + k
  BY <1>1 DEF Called
<1>4. calls = [k \in 1..Len(ids) |-> Len(idOf) + k]
  BY <1>1 DEF Called
<1>5. /\ \A k \in 1..Len(ids) : Len(idOf) + k \in past + 1..m /\ Len(idOf) + k \in 1..m /\ Len(idOf) + k \in Nat
  BY <1>1
<1>6. calls \in Seq(past + 1..m) /\ calls \in Seq(1..m) /\ calls \in Seq(Nat)
  <2>1. \A S : (\A k \in 1..Len(ids) : Len(idOf) + k \in S) => calls \in Seq(S)
    <3>1. ASSUME NEW S, \A k \in 1..Len(ids) : Len(idOf) + k \in S
          PROVE  calls \in Seq(S)
      BY <1>1, <1>4, <3>1, IsASeq
    <3>. QED
      BY <3>1
  <2>. QED
    BY <1>5, <2>1
<1>7. IsInjective(calls)
  BY <1>1, <1>3 DEF IsInjective
<1>8. \A c \in ToSet(calls) : \E k \in DOMAIN ids : c = Len(idOf) + k
  BY <1>1, <1>3 DEF ToSet
<1>9. ids # <<>> => calls # <<>>
  <2>1. ASSUME calls = <<>>
        PROVE  ids = <<>>
    <3>1. DOMAIN ids = {}
      BY <1>1, <1>3, <2>1
    <3>. QED
      BY <1>1, <3>1
  <2>. QED
    BY <2>1
<1>. QED
  BY <1>1, <1>2, <1>3, <1>6, <1>7, <1>8, <1>9

\* The ids go on.
LEMMA IdsMore ==
  ASSUME TranscriptInv, NEW ids \in Seq(Nat), NEW all, all = idOf \o ids
  PROVE  /\ all \in Seq(Nat) /\ Len(all) = Len(idOf) + Len(ids)
         /\ \A c \in 1..Len(idOf) : all[c] = idOf[c]
         /\ \A k \in DOMAIN ids : all[Len(idOf) + k] = ids[k]
<1>1. idOf \in Seq(Nat)
  BY DEF TranscriptInv, CallsOK
<1>. QED
  BY <1>1, ConcatProperties

\* A message with calls that is complete, and is run or not.
LEMMA AsksKeeps ==
  ASSUME TranscriptInv, NEW ids \in Messages, NEW complete \in BOOLEAN, Asks(ids, complete)
  PROVE  TranscriptInv'
<1>g. PICK g : g = stored \o Spoke(turnOf.text, ids)
  OBVIOUS
<1>h. PICK h : h = stored'
  OBVIOUS
<1>n. PICK n : n = Len(idOf)
  OBVIOUS
<1>m. PICK m : m = Len(idOf) + Len(ids)
  OBVIOUS
<1>c. PICK calls : calls = Called(ids)
  OBVIOUS
<1>a. PICK all : all = idOf \o ids
  OBVIOUS
<1>d. PICK d : d = IF complete THEN [turnOf EXCEPT !.phase = "tools", !.todo = calls] ELSE [turnOf EXCEPT !.prose = turnOf.text]
  OBVIOUS
<1>1. /\ turnOf.phase = "model" /\ turnOf' = (IF complete THEN d ELSE Ending(d)) /\ idOf' = all /\ ids # <<>>
      /\ screen' = screen /\ owned' = owned /\ results' = results /\ pieces' = pieces
      /\ since' = since /\ past' = past /\ cut' = cut /\ again' = again
  BY <1>a, <1>c, <1>d DEF Asks, In, history
<1>2. h = IF complete THEN g \o <<>> ELSE g \o Answers(calls)
  BY <1>c, <1>g, <1>h DEF Asks
<1>3. ids \in Seq(Nat) /\ IsInjective(ids)
  <2>1. ids \in {<<i>> : i \in 1..MaxId} \cup ((1..MaxId) \X (1..MaxId)) /\ IsInjective(ids)
    BY DEF Messages
  <2>2. 1..MaxId \subseteq Nat
    BY TranscriptAssumption
  <2>3. ids \in Seq(1..MaxId)
    <3>1. CASE ids \in {<<i>> : i \in 1..MaxId}
      <4>1. PICK i \in 1..MaxId : ids = <<i>>
        BY <3>1
      <4>. QED
        BY <4>1
    <3>2. CASE ids \in (1..MaxId) \X (1..MaxId)
      <4>1. PICK i \in 1..MaxId, j \in 1..MaxId : ids = <<i, j>>
        BY <3>2
      <4>. QED
        BY <4>1
    <3>. QED
      BY <2>1, <3>1, <3>2
  <2>4. ids \in Seq(Nat)
    BY <2>2, <2>3, SeqMore
  <2>. QED
    BY <2>1, <2>4
<1>4. /\ m \in Nat /\ n <= m
      /\ calls \in Seq(past + 1..m) /\ calls \in Seq(1..m) /\ calls \in Seq(Nat) /\ IsInjective(calls) /\ calls # <<>>
      /\ \A c \in ToSet(calls) : c \notin 1..n /\ \E k \in DOMAIN ids : c = n + k
  BY <1>1, <1>3, <1>c, <1>m, <1>n, CalledIs
<1>b. /\ all \in Seq(Nat) /\ Len(all) = m
      /\ \A c \in 1..n : all[c] = idOf[c]
      /\ \A k \in DOMAIN ids : all[n + k] = ids[k]
  BY <1>3, <1>a, <1>m, <1>n, IdsMore
<1>5. /\ turnOf \in Turns /\ turnOf.text \in Seq(1..pieces) /\ Rising(turnOf.text) /\ turnOf.text \in Seq(Nat)
      /\ pieces \in Nat /\ owned \in BOOLEAN /\ cut \in BOOLEAN /\ again \in BOOLEAN /\ screen.closed = FALSE
      /\ turnOf.prose \in Seq(1..pieces) /\ n \in Nat
  <2>1. turnOf \in Turns /\ (screen.closed <=> turnOf.phase = "idle") /\ screen.closed \in BOOLEAN /\ n \in Nat
    BY <1>n, InvHas DEF TranscriptInv, TurnOK, ScreenOK
  <2>. QED
    BY <1>1, <2>1 DEF TranscriptInv, TurnOK, Turns
<1>6. turnOf.todo = <<>> /\ turnOf.going = <<>>
  BY <1>1 DEF TranscriptInv, CallsOK
<1>7. /\ d \in Turns /\ d.text = turnOf.text /\ d.going = <<>>
      /\ complete => d.phase = "tools" /\ d.todo = calls /\ d.prose = turnOf.prose
      /\ ~complete => d.prose = turnOf.text
  BY <1>4, <1>5, <1>6, <1>d DEF Turns
<1>8. /\ turnOf' \in Turns /\ turnOf'.text = turnOf.text /\ turnOf'.going = <<>> /\ ToSet(turnOf'.going) = {}
      /\ complete => turnOf'.phase = "tools" /\ turnOf'.todo = calls /\ turnOf'.prose = turnOf.prose
      /\ ~complete => /\ turnOf'.phase = "ending" /\ turnOf'.todo = <<>> /\ turnOf'.prose = turnOf.text
                      /\ ToSet(turnOf'.todo) = {}
  BY <1>1, <1>7, EndingIs, IdleIs
<1>9. TurnOK'
  <2>1. CASE complete
    BY <1>1, <1>5, <1>8, <2>1 DEF TurnOK
  <2>2. CASE ~complete
    BY <1>1, <1>5, <1>8, <2>2 DEF TurnOK
  <2>. QED
    BY <2>1, <2>2
<1>10. DOMAIN results \subseteq 1..n /\ past \in 0..n
  BY <1>n DEF TranscriptInv, CallsOK
<1>11. CallsOK'
  <2>1. past' \in 0..m /\ DOMAIN results' \subseteq 1..m
    BY <1>1, <1>4, <1>5, <1>10, <1>b
  <2>2. CASE complete
    <3>1. ASSUME NEW c \in ToSet(calls), NEW e \in ToSet(calls), all[c] = all[e]
          PROVE  c = e
      <4>1. PICK k \in DOMAIN ids : c = n + k
        BY <1>4
      <4>2. PICK l \in DOMAIN ids : e = n + l
        BY <1>4
      <4>3. ids[k] = ids[l]
        BY <1>b, <3>1, <4>1, <4>2
      <4>. QED
        BY <1>3, <4>1, <4>2, <4>3 DEF IsInjective
    <3>2. ToSet(calls) \cap DOMAIN results = {}
      BY <1>4, <1>10
    <3>. QED
      BY <1>1, <1>4, <1>b, <1>8, <2>1, <2>2, <3>1, <3>2, IdleIs DEF CallsOK, Pending
  <2>3. CASE ~complete
    BY <1>1, <1>4, <1>b, <1>8, <2>1, <2>3, IdleIs DEF CallsOK, Pending
  <2>. QED
    BY <2>2, <2>3
<1>12. /\ HistoryOK(g, pieces, n) /\ DOMAIN g = 1..Len(g) /\ Len(g) \in Nat /\ Len(stored) <= Len(g)
       /\ \A i \in DOMAIN g : \/ i \in DOMAIN stored /\ g[i] = stored[i]
                              \/ g[i].text = turnOf.text /\ ~IsTool(g[i])
  BY <1>1, <1>g, <1>n, SpokeIs
<1>13. HistoryOK(g, pieces, m) /\ Unanswered(g, ToSet(calls))
  <2>1. HistoryOK(g, pieces, m)
    BY <1>4, <1>5, <1>12, HistoryMore
  <2>2. ASSUME NEW i \in DOMAIN g, IsTool(g[i])
        PROVE  g[i].call \notin ToSet(calls)
    <3>1. i \in DOMAIN stored /\ g[i] = stored[i]
      BY <1>12, <2>2
    <3>2. stored[i].call \in 0..n /\ stored[i].call # 0
      BY <1>n, <2>2, <3>1, InvHas DEF TranscriptInv, StoredOK, HistoryOK, EntryOK
    <3>3. stored[i].call \in 1..n
      BY <1>5, <3>2
    <3>. QED
      BY <1>4, <3>1, <3>3
  <2>. QED
    BY <2>1, <2>2 DEF Unanswered
<1>14. /\ HistoryOK(h, pieces, m) /\ DOMAIN h = 1..Len(h) /\ Len(h) \in Nat /\ Len(g) <= Len(h)
       /\ \A i \in DOMAIN h : (i \in DOMAIN g /\ h[i] = g[i]) \/ h[i].text = <<>>
       /\ complete => h = g
  <2>1. CASE complete
    <3>1. h = g
      BY <1>2, <1>12, <2>1 DEF HistoryOK
    <3>. QED
      BY <1>12, <1>13, <2>1, <3>1
  <2>2. CASE ~complete
    <3>1. h = g \o Answers(calls)
      BY <1>2, <2>2
    <3>2. /\ HistoryOK(h, pieces, m) /\ Len(h) \in Nat /\ Len(g) <= Len(h) /\ DOMAIN h = 1..Len(h)
          /\ \A i \in DOMAIN g : i \in DOMAIN h /\ h[i] = g[i]
          /\ \A i \in DOMAIN h : i \in DOMAIN g \/ (IsTool(h[i]) /\ h[i].text = <<>> /\ h[i].call \in ToSet(calls))
      <4>1. /\ pieces \in Nat /\ m \in Nat /\ HistoryOK(g, pieces, m) /\ calls \in Seq(1..m)
            /\ IsInjective(calls) /\ Unanswered(g, ToSet(calls))
        BY <1>4, <1>5, <1>13
      <4>2. Answering(h, g, calls, pieces, m)
        BY <3>1, <4>1, AnswersMore
      <4>. QED
        BY <4>2 DEF Answering
    <3>. QED
      BY <2>2, <3>2
  <2>. QED
    BY <2>1, <2>2
<1>15. StoredOK'
  <2>1. since \in 1..Len(h) + 1
    BY <1>12, <1>14, InvHas
  <2>2. Unanswered(h, Pending')
    <3>1. CASE complete
      <4>1. Pending' = ToSet(calls)
        BY <1>8, <3>1 DEF Pending
      <4>. QED
        BY <1>13, <1>14, <3>1, <4>1
    <3>2. CASE ~complete
      <4>1. Pending' = {}
        BY <1>8, <3>2 DEF Pending
      <4>. QED
        BY <4>1 DEF Unanswered
    <3>. QED
      BY <3>1, <3>2
  <2>. QED
    BY <1>1, <1>b, <1>h, <1>4, <1>8, <1>14, <2>1, <2>2 DEF StoredOK
<1>16. RowsOK'
  <2>1. Awaited' = {}
    BY <1>8 DEF Awaited
  <2>2. \A w \in DOMAIN screen.widgets : IsRow(screen.widgets[w]) => screen.widgets[w].result # "running"
    BY <1>1 DEF TranscriptInv, RowsOK, RowOK
  <2>3. \A w \in screen.shown : IsRow(screen.widgets[w]) => screen.widgets[w].call \notin ToSet(turnOf'.todo)
    <3>1. \A w \in screen.shown : IsRow(screen.widgets[w]) => screen.widgets[w].call \in 1..n
      BY <1>n, InvHas
    <3>2. ToSet(turnOf'.todo) \subseteq ToSet(calls)
      BY <1>8
    <3>. QED
      BY <1>4, <3>1, <3>2
  <2>. QED
    BY <1>1, <2>1, <2>2, <2>3, StillRows
<1>17. ReplyOK'
  <2>1. turnOf.text # <<>> => screen.replies # <<>> /\ screen.widgets[LastReply].text = turnOf.text
    BY <1>1 DEF TranscriptInv, ReplyOK
  <2>2. \A v \in DOMAIN screen.widgets : IsText(screen.widgets[v]) =>
          (screen.current # 0 => v <= screen.current) /\ (screen.replies # <<>> => v <= LastReply)
    BY DEF TranscriptInv, ReplyOK
  <2>3. ~again => turnOf.prose = <<>>
    BY <1>1 DEF TranscriptInv, ReplyOK
  <2>4. CASE complete
    BY <1>1, <1>8, <2>2, <2>3, <2>4 DEF ReplyOK, LastReply
  <2>5. CASE ~complete
    BY <1>1, <1>8, <2>1, <2>2, <2>5 DEF ReplyOK, LastReply
  <2>. QED
    BY <2>4, <2>5
<1>18. ShownOK'
  <2>1. ASSUME ~cut
        PROVE  \A i \in DOMAIN h : (i \in DOMAIN stored /\ h[i] = stored[i]) \/ \A p \in ToSet(h[i].text) \ {0} : Visible(screen, p)
    <3>1. \A p \in ToSet(<<>>) \ {0} : Visible(screen, p)
      BY IdleIs
    <3>2. \A p \in ToSet(turnOf.text) \ {0} : Visible(screen, p)
      BY <1>1, <2>1, MessageSeen
    <3>. QED
      BY <1>12, <1>14, <3>1, <3>2
  <2>. QED
    BY <1>1, <1>5, <1>14, <1>h, <2>1, StillShown
<1>19. ScreenOK(screen', pieces', Len(idOf'))
  BY <1>1, <1>4, <1>5, <1>b, <1>n, InvHas, ScreenMore
<1>. QED
  BY <1>9, <1>11, <1>15, <1>16, <1>17, <1>18, <1>19 DEF TranscriptInv
\* The engine's own call, and its own words.
LEMMA VerifiesKeeps ==
  ASSUME TranscriptInv, Verifies
  PROVE  TranscriptInv'
<1>g. PICK g : g = stored \o Spoke(turnOf.text, <<>>)
  OBVIOUS
<1>e. PICK e : e = Entry("assistant", <<0>>, 0)
  OBVIOUS
<1>h. PICK h : h = stored'
  OBVIOUS
<1>n. PICK n : n = Len(idOf)
  OBVIOUS
<1>m. PICK m : m = n + 1
  OBVIOUS
<1>i. PICK ids : ids = <<0>>
  OBVIOUS
<1>c. PICK calls : calls = Called(ids)
  OBVIOUS
<1>a. PICK all : all = Append(idOf, MaxId + Len(idOf) + 1)
  OBVIOUS
<1>1. /\ turnOf.phase = "model" /\ idOf' = all
      /\ turnOf' = [turnOf EXCEPT !.phase = "tools", !.prose = turnOf.text, !.todo = calls, !.verifying = TRUE,
                                  !.verified = turnOf.verified + 1]
      /\ screen' = screen /\ owned' = owned /\ results' = results /\ pieces' = pieces
      /\ since' = since /\ past' = past /\ cut' = cut /\ again' = again
  BY <1>a, <1>c, <1>i DEF Verifies, In, history
<1>2. h = g \o <<e>>
  BY <1>e, <1>g, <1>h DEF Verifies
<1>3. ids \in Seq(Nat) /\ Len(ids) = 1 /\ DOMAIN ids = {1} /\ ids # <<>>
  BY <1>i
<1>4. /\ m \in Nat /\ n \in Nat /\ n <= m
      /\ calls \in Seq(past + 1..m) /\ calls \in Seq(1..m) /\ calls \in Seq(Nat) /\ IsInjective(calls) /\ calls # <<>>
      /\ \A c \in ToSet(calls) : c = n + 1 /\ c \notin 1..n
  <2>1. m = Len(idOf) + Len(ids)
    BY <1>3, <1>m, <1>n
  <2>2. /\ m \in Nat /\ n \in Nat /\ n <= m
        /\ calls \in Seq(past + 1..m) /\ calls \in Seq(1..m) /\ calls \in Seq(Nat) /\ IsInjective(calls) /\ (ids # <<>> => calls # <<>>)
    BY <1>3, <1>c, <1>n, <2>1, CalledIs
  <2>3. \A c \in ToSet(calls) : c = n + 1
    <3>1. DOMAIN calls = {1} /\ calls[1] = n + 1
      BY <1>3, <1>c, <1>n DEF Called
    <3>. QED
      BY <3>1 DEF ToSet
  <2>. QED
    BY <1>3, <2>2, <2>3
<1>b. /\ all \in Seq(Nat) /\ Len(all) = m /\ \A c \in 1..n : all[c] = idOf[c]
  <2>0. MaxId \in Nat /\ Len(idOf) \in Nat
    BY InvHas, TranscriptAssumption
  <2>1. idOf \in Seq(Nat) /\ MaxId + Len(idOf) + 1 \in Nat
    BY <2>0 DEF TranscriptInv, CallsOK
  <2>. QED
    BY <1>a, <1>m, <1>n, <2>1
<1>5. /\ turnOf \in Turns /\ turnOf.text \in Seq(1..pieces) /\ Rising(turnOf.text) /\ turnOf.text \in Seq(Nat)
      /\ pieces \in Nat /\ owned \in BOOLEAN /\ cut \in BOOLEAN /\ again \in BOOLEAN /\ screen.closed = FALSE
  <2>1. turnOf \in Turns /\ (screen.closed <=> turnOf.phase = "idle") /\ screen.closed \in BOOLEAN
    BY InvHas DEF TranscriptInv, TurnOK, ScreenOK
  <2>. QED
    BY <1>1, <2>1 DEF TranscriptInv, TurnOK, Turns
<1>6. turnOf.going = <<>>
  BY <1>1 DEF TranscriptInv, CallsOK
<1>7. /\ turnOf' \in Turns /\ turnOf'.text = turnOf.text /\ turnOf'.going = <<>> /\ ToSet(turnOf'.going) = {}
      /\ turnOf'.phase = "tools" /\ turnOf'.todo = calls /\ turnOf'.prose = turnOf.text /\ turnOf'.verifying
  <2>t. PICK t : t = [turnOf EXCEPT !.phase = "tools", !.prose = turnOf.text, !.todo = calls, !.verifying = TRUE,
                                    !.verified = turnOf.verified + 1]
    OBVIOUS
  <2>1. turnOf.verified + 1 \in Nat
    BY <1>5 DEF Turns
  <2>2. t \in Turns /\ t.text = turnOf.text /\ t.going = turnOf.going
        /\ t.phase = "tools" /\ t.todo = calls /\ t.prose = turnOf.text /\ t.verifying
    BY <1>4, <1>5, <2>1, <2>t DEF Turns
  <2>. QED
    BY <1>1, <1>6, <2>2, <2>t, IdleIs
<1>9. TurnOK'
  BY <1>1, <1>5, <1>7 DEF TurnOK
<1>10. DOMAIN results \subseteq 1..n /\ past \in 0..n
  BY <1>n DEF TranscriptInv, CallsOK
<1>11. CallsOK'
  <2>1. past' \in 0..m /\ DOMAIN results' \subseteq 1..m
    BY <1>1, <1>4, <1>10
  <2>2. \A c, d \in ToSet(calls) : c = d
    BY <1>4
  <2>3. ToSet(calls) \cap DOMAIN results = {}
    BY <1>4, <1>10
  <2>4. Pending' = ToSet(calls) /\ turnOf'.todo = calls /\ turnOf'.going = <<>> /\ ToSet(turnOf'.todo) \cap DOMAIN results' = {}
    BY <1>1, <1>7, <2>3 DEF Pending
  <2>5. <<>> \in Seq(past + 1..m) /\ IsInjective(<<>>) /\ ToSet(<<>>) = {}
    BY IdleIs
  <2>. QED
    BY <1>1, <1>4, <1>b, <1>7, <2>1, <2>2, <2>4, <2>5 DEF CallsOK
<1>12. /\ HistoryOK(g, pieces, n) /\ DOMAIN g = 1..Len(g) /\ Len(g) \in Nat /\ Len(stored) <= Len(g)
       /\ \A i \in DOMAIN g : \/ i \in DOMAIN stored /\ g[i] = stored[i]
                              \/ g[i].text = turnOf.text /\ ~IsTool(g[i])
  BY <1>1, <1>g, <1>n, SpokeIs
<1>13. HistoryOK(g, pieces, m)
  BY <1>4, <1>5, <1>12, HistoryMore
<1>14. /\ HistoryOK(h, pieces, m) /\ DOMAIN h = 1..Len(h) /\ Len(h) \in Nat /\ Len(g) <= Len(h)
       /\ \A i \in DOMAIN h : (i \in DOMAIN g /\ h[i] = g[i]) \/ (h[i].text = <<0>> /\ ~IsTool(h[i]))
  <2>1. h = Append(g, e)
    BY <1>2, <1>13 DEF HistoryOK
  <2>2. <<0>> \in TextsOf(pieces) /\ Rising(<<0>>) /\ \A u : Before(u, <<0>>)
    BY <1>5 DEF TextsOf, Rising, Before
  <2>3. e \in Entries(pieces, m) /\ EntryOK(e) /\ ~IsTool(e) /\ e.text = <<0>>
    BY <1>4, <1>e, <2>2 DEF Entry, Entries, EntryOK, IsTool
  <2>4. AllBefore(g, e.text)
    BY <2>2, <2>3 DEF AllBefore
  <2>5. /\ HistoryOK(h, pieces, m) /\ Len(h) = Len(g) + 1 /\ DOMAIN h = 1..Len(g) + 1
        /\ h[Len(g) + 1] = e /\ \A i \in DOMAIN g : h[i] = g[i]
        /\ \A i \in DOMAIN h : i \in DOMAIN g \/ i = Len(g) + 1
    <3>1. Rising(e.text)
      BY <2>2, <2>3
    <3>2. \A i \in DOMAIN g : IsTool(g[i]) /\ IsTool(e) => g[i].call # e.call
      BY <2>3
    <3>3. pieces \in Nat /\ m \in Nat
      BY <1>4, <1>5
    <3>. QED
      BY <1>13, <2>1, <2>3, <2>4, <3>1, <3>2, <3>3, EntryMore
  <2>. QED
    BY <1>12, <2>3, <2>5
<1>15. StoredOK'
  <2>1. since \in 1..Len(h) + 1
    BY <1>12, <1>14, InvHas
  <2>2. Unanswered(h, Pending')
    <3>1. Pending' = ToSet(calls)
      BY <1>7 DEF Pending
    <3>2. ASSUME NEW i \in DOMAIN h, IsTool(h[i])
          PROVE  h[i].call \notin ToSet(calls)
      <4>1. i \in DOMAIN stored /\ h[i] = stored[i]
        BY <1>12, <1>14, <3>2
      <4>2. stored[i].call \in 0..n /\ stored[i].call # 0
        BY <1>n, <3>2, <4>1, InvHas DEF TranscriptInv, StoredOK, HistoryOK, EntryOK
      <4>3. stored[i].call \in 1..n
        BY <1>4, <4>2
      <4>. QED
        BY <1>4, <4>1, <4>3
    <3>. QED
      BY <3>1, <3>2 DEF Unanswered
  <2>. QED
    BY <1>1, <1>b, <1>h, <1>4, <1>7, <1>14, <2>1, <2>2 DEF StoredOK
<1>16. RowsOK'
  <2>1. Awaited' = {}
    BY <1>7 DEF Awaited
  <2>2. \A w \in DOMAIN screen.widgets : IsRow(screen.widgets[w]) => screen.widgets[w].result # "running"
    BY <1>1 DEF TranscriptInv, RowsOK, RowOK
  <2>3. \A w \in screen.shown : IsRow(screen.widgets[w]) => screen.widgets[w].call \notin ToSet(turnOf'.todo)
    <3>1. \A w \in screen.shown : IsRow(screen.widgets[w]) => screen.widgets[w].call \in 1..n
      BY <1>n, InvHas
    <3>. QED
      BY <1>4, <1>7, <3>1
  <2>. QED
    BY <1>1, <2>1, <2>2, <2>3, StillRows
<1>17. ReplyOK'
  <2>1. turnOf.text # <<>> => screen.replies # <<>> /\ screen.widgets[LastReply].text = turnOf.text
    BY <1>1 DEF TranscriptInv, ReplyOK
  <2>2. \A v \in DOMAIN screen.widgets : IsText(screen.widgets[v]) =>
          (screen.current # 0 => v <= screen.current) /\ (screen.replies # <<>> => v <= LastReply)
    BY DEF TranscriptInv, ReplyOK
  <2>. QED
    BY <1>1, <1>7, <2>1, <2>2 DEF ReplyOK, LastReply
<1>18. ShownOK'
  <2>1. ASSUME ~cut
        PROVE  \A i \in DOMAIN h : (i \in DOMAIN stored /\ h[i] = stored[i]) \/ \A p \in ToSet(h[i].text) \ {0} : Visible(screen, p)
    <3>1. \A p \in ToSet(<<0>>) \ {0} : Visible(screen, p)
      BY DEF ToSet
    <3>2. \A p \in ToSet(turnOf.text) \ {0} : Visible(screen, p)
      BY <1>1, <2>1, MessageSeen
    <3>. QED
      BY <1>12, <1>14, <3>1, <3>2
  <2>. QED
    BY <1>1, <1>5, <1>14, <1>h, <2>1, StillShown
<1>19. ScreenOK(screen', pieces', Len(idOf'))
  <2>1. ScreenOK(screen, pieces, n) /\ pieces \in Nat /\ pieces <= pieces
    BY <1>5, <1>n, InvHas
  <2>2. ScreenOK(screen, pieces, m)
    BY <1>4, <2>1, ScreenMore
  <2>. QED
    BY <1>1, <1>b, <2>2
<1>. QED
  BY <1>9, <1>11, <1>15, <1>16, <1>17, <1>18, <1>19 DEF TranscriptInv
\* What the calls that are pending are.
LEMMA PendingHas ==
  ASSUME TranscriptInv, NEW n, n = Len(idOf)
  PROVE  /\ turnOf.going \in Seq(1..n) /\ turnOf.todo \in Seq(1..n)
         /\ turnOf.going \in Seq(Nat) /\ turnOf.todo \in Seq(Nat)
         /\ IsInjective(turnOf.going) /\ IsInjective(turnOf.todo)
         /\ Unanswered(stored, ToSet(turnOf.going)) /\ Unanswered(stored, ToSet(turnOf.todo))
         /\ ToSet(turnOf.going) \cap ToSet(turnOf.todo) = {}
         /\ ToSet(turnOf.going) \subseteq Pending /\ ToSet(turnOf.todo) \subseteq Pending
         /\ HistoryOK(stored, pieces, n) /\ turnOf \in Turns /\ pieces \in Nat /\ n \in Nat
<1>1. /\ turnOf.going \in Seq(past + 1..n) /\ turnOf.todo \in Seq(past + 1..n) /\ past \in 0..n
      /\ IsInjective(turnOf.going) /\ IsInjective(turnOf.todo) /\ ToSet(turnOf.going) \cap ToSet(turnOf.todo) = {}
      /\ Unanswered(stored, Pending) /\ HistoryOK(stored, pieces, n) /\ turnOf \in Turns /\ n \in Nat /\ pieces \in Nat
  BY InvHas DEF TranscriptInv, CallsOK, StoredOK, TurnOK
<1>2. past + 1..n \subseteq 1..n /\ past + 1..n \subseteq Nat
  BY <1>1
<1>3. /\ turnOf.going \in Seq(1..n) /\ turnOf.todo \in Seq(1..n)
      /\ turnOf.going \in Seq(Nat) /\ turnOf.todo \in Seq(Nat)
  BY <1>1, <1>2, SeqMore
<1>4. ToSet(turnOf.going) \subseteq Pending /\ ToSet(turnOf.todo) \subseteq Pending
  BY DEF Pending
<1>5. Unanswered(stored, ToSet(turnOf.going)) /\ Unanswered(stored, ToSet(turnOf.todo))
  BY <1>1, <1>4 DEF Unanswered
<1>. QED
  BY <1>1, <1>3, <1>4, <1>5

\* A group that is answered.
LEMMA AnsweredKeeps ==
  ASSUME TranscriptInv, NEW asks \in BOOLEAN, Answered(asks)
  PROVE  TranscriptInv'
<1>h. PICK h : h = stored \o Answers(turnOf.going)
  OBVIOUS
<1>n. PICK n : n = Len(idOf)
  OBVIOUS
<1>d. PICK d : d = [turnOf EXCEPT !.going = <<>>]
  OBVIOUS
<1>1. /\ turnOf.phase = "tools" /\ turnOf.going # <<>> /\ Awaited = {} /\ idOf' = idOf /\ stored' = h
      /\ screen' = screen /\ owned' = owned /\ results' = results /\ pieces' = pieces
      /\ since' = since /\ past' = past /\ cut' = cut /\ (asks => turnOf.todo = <<>>)
      /\ turnOf' = (IF turnOf.todo # <<>> THEN d ELSE IF asks THEN Asking(d) ELSE Ending(turnOf))
  BY <1>h, <1>d DEF Answered, In
<1>2. again' = (again \/ (asks /\ turnOf.verifying))
  BY DEF Answered
<1>5. /\ turnOf \in Turns /\ turnOf.text \in Seq(1..pieces) /\ Rising(turnOf.text)
      /\ pieces \in Nat /\ owned \in BOOLEAN /\ cut \in BOOLEAN /\ again \in BOOLEAN /\ screen.closed = FALSE
      /\ turnOf.prose \in Seq(1..pieces) /\ n \in Nat /\ screen.current = 0
  <2>1. turnOf \in Turns /\ (screen.closed <=> turnOf.phase = "idle") /\ screen.closed \in BOOLEAN /\ n \in Nat
    BY <1>n, InvHas DEF TranscriptInv, TurnOK, ScreenOK
  <2>2. turnOf.verifying \in BOOLEAN
    BY <2>1 DEF Turns
  <2>. QED
    BY <1>1, <2>1, <2>2 DEF TranscriptInv, TurnOK, Turns
<1>6. again' \in BOOLEAN /\ (~again' => ~again) /\ (~again' => ~(asks /\ turnOf.verifying))
  BY <1>2
<1>7. d \in Turns /\ d.text = turnOf.text /\ d.going = <<>> /\ d.prose = turnOf.prose /\ d.todo = turnOf.todo
      /\ d.phase = "tools" /\ d.verifying = turnOf.verifying
  BY <1>1, <1>5, <1>d, IdleIs DEF Turns
<1>8. /\ turnOf' \in Turns /\ turnOf'.going = <<>> /\ ToSet(turnOf'.going) = {} /\ turnOf'.prose = turnOf.prose
      /\ turnOf'.phase \in {"tools", "model", "ending"} /\ (turnOf'.text = turnOf.text \/ turnOf'.text = <<>>)
      /\ turnOf'.phase = "tools" => turnOf'.todo = turnOf.todo /\ turnOf.todo # <<>> /\ turnOf'.verifying = turnOf.verifying
      /\ turnOf'.phase = "model" => asks /\ turnOf'.text = <<>> /\ turnOf'.todo = <<>> /\ ToSet(turnOf'.todo) = {}
      /\ turnOf'.phase = "ending" => turnOf'.todo = <<>> /\ ToSet(turnOf'.todo) = {}
  <2>1. CASE turnOf.todo # <<>>
    BY <1>1, <1>7, <2>1, IdleIs
  <2>2. CASE turnOf.todo = <<>> /\ asks
    <3>1. turnOf' = Asking(d)
      BY <1>1, <2>2
    <3>. QED
      BY <1>7, <2>2, <3>1, IdleIs, AskingIs
  <2>3. CASE turnOf.todo = <<>> /\ ~asks
    <3>1. turnOf' = Ending(turnOf)
      BY <1>1, <2>3
    <3>. QED
      BY <1>5, <2>3, <3>1, IdleIs, EndingIs
  <2>. QED
    BY <2>1, <2>2, <2>3
<1>9. TurnOK'
  <2>1. turnOf'.text \in Seq(1..pieces) /\ Rising(turnOf'.text)
    BY <1>5, <1>8, IdleIs
  <2>. QED
    BY <1>1, <1>5, <1>6, <1>8, <2>1 DEF TurnOK
<1>10. ToSet(turnOf'.todo) \subseteq ToSet(turnOf.todo)
  BY <1>8
<1>11. CallsOK'
  <2>1. /\ idOf \in Seq(Nat) /\ past \in 0..Len(idOf) /\ DOMAIN results \subseteq 1..Len(idOf)
        /\ turnOf.todo \in Seq(past + 1..Len(idOf)) /\ IsInjective(turnOf.todo)
        /\ (\A c, e \in Pending : idOf[c] = idOf[e] => c = e) /\ ToSet(turnOf.todo) \cap DOMAIN results = {}
    BY DEF TranscriptInv, CallsOK
  <2>2. turnOf'.todo \in Seq(past + 1..Len(idOf)) /\ IsInjective(turnOf'.todo) /\ ToSet(turnOf'.todo) \cap DOMAIN results = {}
    BY <1>8, <1>10, <2>1, IdleIs
  <2>3. Pending' \subseteq Pending
    BY <1>8, <1>10 DEF Pending
  <2>4. IF turnOf'.phase = "tools" THEN turnOf'.going # <<>> \/ turnOf'.todo # <<>> ELSE turnOf'.going = <<>> /\ turnOf'.todo = <<>>
    BY <1>8
  <2>. QED
    BY <1>1, <1>8, <2>1, <2>2, <2>3, <2>4, IdleIs DEF CallsOK
<1>14. Answering(h, stored, turnOf.going, pieces, n)
  BY <1>h, <1>n, PendingHas, AnswersMore
<1>15. StoredOK'
  <2>1. since \in 1..Len(h) + 1
    BY <1>14, InvHas DEF Answering
  <2>2. Unanswered(h, Pending')
    <3>1. Pending' \subseteq ToSet(turnOf.todo)
      BY <1>8, <1>10 DEF Pending
    <3>2. ASSUME NEW i \in DOMAIN h, IsTool(h[i])
          PROVE  h[i].call \notin ToSet(turnOf.todo)
      <4>1. CASE i \in DOMAIN stored
        <5>1. h[i] = stored[i]
          BY <1>14, <4>1 DEF Answering
        <5>2. Unanswered(stored, ToSet(turnOf.todo))
          BY PendingHas
        <5>. QED
          BY <3>2, <4>1, <5>1, <5>2 DEF Unanswered
      <4>2. CASE h[i].call \in ToSet(turnOf.going)
        BY <4>2, PendingHas
      <4>. QED
        BY <1>14, <3>2, <4>1, <4>2 DEF Answering
    <3>. QED
      BY <3>1, <3>2 DEF Unanswered
  <2>3. turnOf'.phase = "model" => AllBefore(h, turnOf'.text)
    BY <1>8 DEF AllBefore, Before
  <2>. QED
    BY <1>1, <1>n, <1>14, <2>1, <2>2, <2>3 DEF StoredOK, Answering
<1>16. RowsOK'
  <2>1. Awaited' = {}
    BY <1>8 DEF Awaited
  <2>2. \A w \in DOMAIN screen.widgets : IsRow(screen.widgets[w]) => screen.widgets[w].result # "running"
    BY <1>1 DEF TranscriptInv, RowsOK, RowOK
  <2>3. \A w \in screen.shown : IsRow(screen.widgets[w]) => screen.widgets[w].call \notin ToSet(turnOf'.todo)
    BY <1>10, InvHas DEF TranscriptInv, RowsOK, RowOK
  <2>. QED
    BY <1>1, <2>1, <2>2, <2>3, StillRows
<1>17. ReplyOK'
  <2>1. ~again => /\ turnOf.prose # <<>> => turnOf.verifying
                  /\ turnOf.prose # <<>> => screen.replies # <<>> /\ screen.widgets[LastReply].text = turnOf.prose
    BY <1>1 DEF TranscriptInv, ReplyOK
  <2>2. \A v \in DOMAIN screen.widgets : IsText(screen.widgets[v]) =>
          (screen.current # 0 => v <= screen.current) /\ (screen.replies # <<>> => v <= LastReply)
    BY DEF TranscriptInv, ReplyOK
  <2>3. ~again' => /\ turnOf'.phase = "model" => turnOf'.prose = <<>>
                   /\ turnOf'.phase = "tools" /\ turnOf'.prose # <<>> => turnOf'.verifying
    BY <1>6, <1>8, <2>1
  <2>. QED
    BY <1>1, <1>5, <1>6, <1>8, <2>1, <2>2, <2>3 DEF ReplyOK, LastReply
<1>18. ShownOK'
  <2>1. \A i \in DOMAIN h : (i \in DOMAIN stored /\ h[i] = stored[i]) \/ \A p \in ToSet(h[i].text) \ {0} : Visible(screen, p)
    <3>1. \A i \in DOMAIN h : (i \in DOMAIN stored /\ h[i] = stored[i]) \/ h[i].text = <<>>
      BY <1>14 DEF Answering
    <3>. QED
      BY <3>1, IdleIs
  <2>. QED
    BY <1>1, <1>6, <1>14, <2>1, StillShown DEF Answering
<1>. QED
  BY <1>1, <1>9, <1>11, <1>15, <1>16, <1>17, <1>18 DEF TranscriptInv

\* The calls that are left are answered, as far as the lock is held, and the turn ends.
LEMMA EndsKeeps ==
  ASSUME TranscriptInv, turnOf.phase \in {"model", "tools"}, turnOf' = Ending(turnOf), NEW calls,
         stored' = stored \/ Answering(stored', stored, calls, pieces, Len(idOf)),
         UNCHANGED <<screen, idOf, owned, results, pieces, since, past, cut, again>>
  PROVE  TranscriptInv'
<1>h. PICK h : h = stored'
  OBVIOUS
<1>n. PICK n : n = Len(idOf)
  OBVIOUS
<1>1. /\ screen' = screen /\ idOf' = idOf /\ owned' = owned /\ results' = results /\ pieces' = pieces
      /\ since' = since /\ past' = past /\ cut' = cut /\ again' = again
  OBVIOUS
<1>5. /\ turnOf \in Turns /\ turnOf.text \in Seq(1..pieces) /\ Rising(turnOf.text)
      /\ pieces \in Nat /\ owned \in BOOLEAN /\ cut \in BOOLEAN /\ again \in BOOLEAN /\ screen.closed = FALSE
      /\ turnOf.prose \in Seq(1..pieces) /\ n \in Nat
  <2>1. turnOf \in Turns /\ (screen.closed <=> turnOf.phase = "idle") /\ screen.closed \in BOOLEAN /\ n \in Nat
    BY <1>n, InvHas DEF TranscriptInv, TurnOK, ScreenOK
  <2>. QED
    BY <2>1 DEF TranscriptInv, TurnOK
<1>8. /\ turnOf' \in Turns /\ turnOf'.going = <<>> /\ ToSet(turnOf'.going) = {} /\ turnOf'.prose = turnOf.prose
      /\ turnOf'.phase = "ending" /\ turnOf'.text = turnOf.text /\ turnOf'.todo = <<>> /\ ToSet(turnOf'.todo) = {}
  BY <1>5, EndingIs, IdleIs
<1>9. TurnOK'
  BY <1>1, <1>5, <1>8 DEF TurnOK
<1>11. CallsOK'
  <2>1. idOf \in Seq(Nat) /\ past \in 0..Len(idOf) /\ DOMAIN results \subseteq 1..Len(idOf)
    BY DEF TranscriptInv, CallsOK
  <2>. QED
    BY <1>1, <1>8, <2>1, IdleIs DEF CallsOK, Pending
<1>14. /\ HistoryOK(h, pieces, n) /\ Len(h) \in Nat /\ Len(stored) <= Len(h) /\ DOMAIN h = 1..Len(h)
       /\ \A i \in DOMAIN h : (i \in DOMAIN stored /\ h[i] = stored[i]) \/ h[i].text = <<>>
  <2>1. CASE h = stored
    BY <1>n, <2>1, InvHas, PendingHas
  <2>2. CASE Answering(h, stored, calls, pieces, n)
    BY <2>2 DEF Answering
  <2>. QED
    BY <1>h, <1>n, <2>1, <2>2
<1>15. StoredOK'
  <2>1. since \in 1..Len(h) + 1
    BY <1>14, InvHas
  <2>2. Unanswered(h, Pending')
    BY <1>8 DEF Unanswered, Pending
  <2>. QED
    BY <1>1, <1>8, <1>h, <1>n, <1>14, <2>1, <2>2 DEF StoredOK
<1>16. RowsOK'
  <2>1. Awaited' = {} /\ \A w \in screen.shown : screen.widgets[w].call \notin ToSet(turnOf'.todo)
    BY <1>8 DEF Awaited
  <2>. QED
    BY <1>1, <1>8, <2>1, StillRows
<1>17. ReplyOK'
  <2>1. ~again => (turnOf.prose # <<>> => screen.replies # <<>> /\ screen.widgets[LastReply].text = turnOf.prose)
    BY DEF TranscriptInv, ReplyOK
  <2>2. \A v \in DOMAIN screen.widgets : IsText(screen.widgets[v]) =>
          (screen.current # 0 => v <= screen.current) /\ (screen.replies # <<>> => v <= LastReply)
    BY DEF TranscriptInv, ReplyOK
  <2>. QED
    BY <1>1, <1>8, <2>1, <2>2 DEF ReplyOK, LastReply
<1>18. ShownOK'
  <2>1. \A i \in DOMAIN h : (i \in DOMAIN stored /\ h[i] = stored[i]) \/ \A p \in ToSet(h[i].text) \ {0} : Visible(screen, p)
    BY <1>14, IdleIs
  <2>. QED
    BY <1>1, <1>5, <1>14, <1>h, <2>1, StillShown
<1>. QED
  BY <1>1, <1>9, <1>11, <1>15, <1>16, <1>17, <1>18, InvHas DEF TranscriptInv

\* The budget is used up: the calls that are left are answered.
LEMMA ExhaustedKeeps ==
  ASSUME TranscriptInv, Exhausted
  PROVE  TranscriptInv'
<1>h. PICK h : h = stored \o Answers(turnOf.todo)
  OBVIOUS
<1>n. PICK n : n = Len(idOf)
  OBVIOUS
<1>1. /\ turnOf.phase = "tools" /\ turnOf.going = <<>> /\ turnOf' = Ending(turnOf) /\ stored' = h /\ UNCHANGED again
      /\ screen' = screen /\ idOf' = idOf /\ owned' = owned /\ results' = results /\ pieces' = pieces
      /\ since' = since /\ past' = past /\ cut' = cut
  BY <1>h DEF Exhausted, In, history
<1>2. Answering(h, stored, turnOf.todo, pieces, n)
  BY <1>h, <1>n, PendingHas, AnswersMore
<1>3. Awaited = {}
  BY <1>1, IdleIs DEF Awaited
<1>. QED
  BY <1>1, <1>2, <1>3, <1>n, EndsKeeps

\* The lock is lost.
LEMMA LosesLockKeeps ==
  ASSUME TranscriptInv, LosesLock
  PROVE  TranscriptInv'
<1>1. /\ owned' = FALSE
      /\ UNCHANGED <<screen, turnOf, stored, idOf, results, pieces, since, past, cut, again>>
  BY DEF LosesLock, history
<1>2. ScreenOK(screen, pieces, Len(idOf))' /\ TurnOK' /\ CallsOK' /\ StoredOK'
  BY <1>1 DEF TranscriptInv, TurnOK, CallsOK, Pending, StoredOK
<1>3. RowsOK' /\ ReplyOK' /\ ShownOK'
  BY <1>1 DEF TranscriptInv, RowsOK, RowOK, Awaited, ReplyOK, LastReply, ShownOK
<1>. QED
  BY <1>1, <1>2, <1>3 DEF TranscriptInv
\* What is kept of different members.
LEMMA KeptInjective ==
  ASSUME NEW T, NEW s \in Seq(T), IsInjective(s), NEW S, NEW t, t = Kept(s, S)
  PROVE  t \in Seq(T) /\ IsInjective(t) /\ \A x : x \in ToSet(t) <=> x \in ToSet(s) /\ x \in S
<1>1. t \in Seq(T) /\ IsKept(t, s, S, Len(s)) /\ Len(s) \in Nat /\ DOMAIN s = 1..Len(s) /\ DOMAIN t = 1..Len(t) /\ Len(t) \in Nat
  <2>1. t \in Seq(T) /\ IsKept(t, s, S, Len(s))
    BY KeptIs
  <2>. QED
    BY <2>1
<1>2. ASSUME NEW i \in DOMAIN t, NEW j \in DOMAIN t, i < j
      PROVE  t[i] # t[j]
  <2>1. PICK a \in 1..Len(s), b \in 1..Len(s) : a < b /\ t[i] = s[a] /\ t[j] = s[b]
    BY <1>1, <1>2 DEF IsKept
  <2>. QED
    BY <1>1, <2>1 DEF IsInjective
<1>3. IsInjective(t)
  <2>1. ASSUME NEW i \in DOMAIN t, NEW j \in DOMAIN t, t[i] = t[j]
        PROVE  i = j
    <3>1. i \in Nat /\ j \in Nat
      BY <1>1
    <3>2. ~(i < j) /\ ~(j < i)
      BY <1>2, <2>1
    <3>. QED
      BY <3>1, <3>2
  <2>. QED
    BY <2>1 DEF IsInjective
<1>4. \A x \in ToSet(t) : x \in ToSet(s) /\ x \in S
  BY <1>1 DEF IsKept, ToSet
<1>5. \A x \in ToSet(s) : x \in S => x \in ToSet(t)
  BY <1>1 DEF IsKept, ToSet
<1>. QED
  BY <1>1, <1>3, <1>4, <1>5

\* Sequence u has the members of both, each once.
Joined(u, s, t, T) == u \in Seq(T) /\ IsInjective(u) /\ ToSet(u) = ToSet(s) \cup ToSet(t)

\* One sequence after the other, that have no member in common.
LEMMA JoinInjective ==
  ASSUME NEW T, NEW s \in Seq(T), NEW t \in Seq(T), IsInjective(s), IsInjective(t), ToSet(s) \cap ToSet(t) = {},
         NEW u, u = s \o t
  PROVE  Joined(u, s, t, T)
<1>1. /\ Len(s) \in Nat /\ Len(t) \in Nat /\ DOMAIN s = 1..Len(s) /\ DOMAIN t = 1..Len(t)
      /\ u \in Seq(T) /\ Len(u) = Len(s) + Len(t) /\ DOMAIN u = 1..Len(s) + Len(t)
  <2>1. u \in Seq(T) /\ Len(u) = Len(s) + Len(t)
    BY ConcatProperties
  <2>. QED
    BY <2>1
<1>2. (\A i \in 1..Len(s) : u[i] = s[i]) /\ (\A i \in 1..Len(t) : u[Len(s) + i] = t[i])
  BY ConcatProperties
<1>3. ASSUME NEW i \in DOMAIN u
      PROVE  \/ i \in DOMAIN s /\ u[i] = s[i] /\ u[i] \in ToSet(s)
             \/ \E k \in DOMAIN t : i = Len(s) + k /\ u[i] = t[k] /\ u[i] \in ToSet(t)
  <2>1. CASE i <= Len(s)
    BY <1>1, <1>2, <2>1 DEF ToSet
  <2>2. CASE ~(i <= Len(s))
    <3>1. i - Len(s) \in DOMAIN t /\ i = Len(s) + (i - Len(s))
      BY <1>1, <2>2
    <3>. QED
      BY <1>1, <1>2, <3>1 DEF ToSet
  <2>. QED
    BY <2>1, <2>2
<1>4. IsInjective(u)
  <2>1. ASSUME NEW i \in DOMAIN u, NEW j \in DOMAIN u, u[i] = u[j]
        PROVE  i = j
    <3>1. CASE i \in DOMAIN s /\ u[i] = s[i] /\ u[i] \in ToSet(s)
      <4>1. j \in DOMAIN s /\ u[j] = s[j]
        BY <1>3, <2>1, <3>1
      <4>. QED
        BY <2>1, <3>1, <4>1 DEF IsInjective
    <3>2. CASE \E k \in DOMAIN t : i = Len(s) + k /\ u[i] = t[k] /\ u[i] \in ToSet(t)
      <4>1. PICK k \in DOMAIN t : i = Len(s) + k /\ u[i] = t[k] /\ u[i] \in ToSet(t)
        BY <3>2
      <4>2. PICK l \in DOMAIN t : j = Len(s) + l /\ u[j] = t[l]
        BY <1>3, <2>1, <4>1
      <4>3. k = l
        BY <2>1, <4>1, <4>2 DEF IsInjective
      <4>. QED
        BY <4>1, <4>2, <4>3
    <3>. QED
      BY <1>3, <3>1, <3>2
  <2>. QED
    BY <2>1 DEF IsInjective
<1>5. ToSet(u) = ToSet(s) \cup ToSet(t)
  <2>1. \A x \in ToSet(u) : x \in ToSet(s) \cup ToSet(t)
    BY <1>3 DEF ToSet
  <2>2. \A x \in ToSet(s) : x \in ToSet(u)
    <3>1. \A i \in DOMAIN s : i \in DOMAIN u
      BY <1>1
    <3>. QED
      BY <1>1, <1>2, <3>1 DEF ToSet
  <2>3. \A x \in ToSet(t) : x \in ToSet(u)
    <3>1. \A i \in DOMAIN t : Len(s) + i \in DOMAIN u
      BY <1>1
    <3>. QED
      BY <1>1, <1>2, <3>1 DEF ToSet
  <2>. QED
    BY <2>1, <2>2, <2>3
<1>. QED
  BY <1>1, <1>4, <1>5 DEF Joined

\* The calls that a cancelled turn answers: what is finished of the group, the rest of it, and the calls that never ran
LEMMA StoppedCalls ==
  ASSUME TranscriptInv, NEW done, done = Kept(turnOf.going, DOMAIN results), NEW rest, rest = Kept(turnOf.going, Awaited),
         NEW calls, calls = done \o rest \o turnOf.todo, NEW n, n = Len(idOf)
  PROVE  calls \in Seq(1..n) /\ IsInjective(calls) /\ Unanswered(stored, ToSet(calls))
<1>T. PICK T : T = 1..n
  OBVIOUS
<1>1. /\ turnOf.going \in Seq(T) /\ turnOf.todo \in Seq(T) /\ IsInjective(turnOf.going) /\ IsInjective(turnOf.todo)
      /\ Unanswered(stored, ToSet(turnOf.going)) /\ Unanswered(stored, ToSet(turnOf.todo))
      /\ ToSet(turnOf.going) \cap ToSet(turnOf.todo) = {}
  BY <1>T, PendingHas
<1>2. done \in Seq(T) /\ IsInjective(done) /\ \A x : x \in ToSet(done) <=> x \in ToSet(turnOf.going) /\ x \in DOMAIN results
  BY <1>1, KeptInjective
<1>3. rest \in Seq(T) /\ IsInjective(rest) /\ \A x : x \in ToSet(rest) <=> x \in ToSet(turnOf.going) /\ x \in Awaited
  BY <1>1, KeptInjective
<1>4. ToSet(done) \cap ToSet(rest) = {}
  BY <1>2, <1>3 DEF Awaited
<1>g. PICK g : g = done \o rest
  OBVIOUS
<1>5. g \in Seq(T) /\ IsInjective(g) /\ ToSet(g) = ToSet(done) \cup ToSet(rest)
  <2>1. Joined(g, done, rest, T)
    BY <1>2, <1>3, <1>4, <1>g, JoinInjective
  <2>. QED
    BY <2>1 DEF Joined
<1>6. ToSet(g) \subseteq ToSet(turnOf.going)
  BY <1>2, <1>3, <1>5
<1>7. calls = g \o turnOf.todo /\ ToSet(g) \cap ToSet(turnOf.todo) = {}
  BY <1>1, <1>6, <1>g
<1>8. calls \in Seq(T) /\ IsInjective(calls) /\ ToSet(calls) = ToSet(g) \cup ToSet(turnOf.todo)
  <2>1. Joined(calls, g, turnOf.todo, T)
    BY <1>1, <1>5, <1>7, JoinInjective
  <2>. QED
    BY <2>1 DEF Joined
<1>9. Unanswered(stored, ToSet(calls))
  BY <1>1, <1>6, <1>8 DEF Unanswered
<1>. QED
  BY <1>8, <1>9, <1>T

\* A cancelled turn.
LEMMA StopsKeeps ==
  ASSUME TranscriptInv, Stops
  PROVE  TranscriptInv'
<1>d. PICK done : done = Kept(turnOf.going, DOMAIN results)
  OBVIOUS
<1>r. PICK rest : rest = Kept(turnOf.going, Awaited)
  OBVIOUS
<1>c. PICK calls : calls = done \o rest \o turnOf.todo
  OBVIOUS
<1>n. PICK n : n = Len(idOf)
  OBVIOUS
<1>h. PICK h : h = stored \o Answers(calls)
  OBVIOUS
<1>1. /\ turnOf.phase \in {"model", "tools"} /\ turnOf' = Ending(turnOf) /\ (stored' = h \/ stored' = stored)
      /\ UNCHANGED <<screen, idOf, owned, results, pieces, since, past, cut, again>>
  BY <1>d, <1>r, <1>c, <1>h DEF Stops, In, history
<1>2. calls \in Seq(1..n) /\ IsInjective(calls) /\ Unanswered(stored, ToSet(calls))
  BY <1>d, <1>r, <1>c, <1>n, StoppedCalls
<1>3. Answering(h, stored, calls, pieces, n)
  BY <1>2, <1>h, <1>n, PendingHas, AnswersMore
<1>. QED
  BY <1>1, <1>3, <1>n, EndsKeeps
-----------------------------------------------------------------------------
(* The steps that change the rows *)

\* Window t is s in which the calls of C were started.
Started(s, t, C) ==
  /\ s.shown \subseteq t.shown /\ t.current = 0
  /\ t.replies = s.replies /\ t.badge = s.badge /\ t.closed = s.closed
  /\ DOMAIN s.widgets \subseteq DOMAIN t.widgets
  /\ \A w \in DOMAIN s.widgets : t.widgets[w] = s.widgets[w] /\ (w \in t.shown => w \in s.shown)
  /\ \A w \in DOMAIN t.widgets : w \notin DOMAIN s.widgets =>
       /\ IsRow(t.widgets[w]) /\ t.widgets[w].result = "running" /\ t.widgets[w].of = t.widgets[w].call
       /\ t.widgets[w].call \in C /\ idOf[t.widgets[w].call] \in DOMAIN t.rows /\ t.rows[idOf[t.widgets[w].call]] = w
  /\ \A c \in C : \E w \in DOMAIN t.widgets : w \notin DOMAIN s.widgets /\ t.widgets[w].call = c

\* One call was started.
LEMMA OneStarts ==
  ASSUME NEW p \in Nat, NEW n \in Nat, NEW s, ScreenOK(s, p, n), NEW c \in 1..n, idOf[c] \in Nat, NEW t, t = ToolStarted(s, c)
  PROVE  ScreenOK(t, p, n) /\ Started(s, t, {c})
<1>k. PICK k : k = Len(s.widgets) + 1
  OBVIOUS
<1>r. PICK r : r = Row(c, "running")
  OBVIOUS
<1>1. /\ ScreenOK(t, p, n) /\ t.shown = s.shown \cup {k} /\ t.current = 0
      /\ t.replies = s.replies /\ t.badge = s.badge /\ t.closed = s.closed
      /\ DOMAIN t.rows = DOMAIN s.rows \cup {idOf[c]} /\ t.rows[idOf[c]] = k
      /\ DOMAIN s.widgets = 1..Len(s.widgets) /\ DOMAIN t.widgets = 1..k /\ t.widgets[k] = r
      /\ \A w \in DOMAIN s.widgets : t.widgets[w] = s.widgets[w]
  <2>1. /\ ScreenOK(t, p, n) /\ t.shown = s.shown \cup {Len(s.widgets) + 1} /\ t.current = 0
        /\ t.replies = s.replies /\ t.badge = s.badge /\ t.closed = s.closed
    BY ToolStartedIs
  <2>2. DOMAIN t.rows = DOMAIN s.rows \cup {idOf[c]} /\ t.rows[idOf[c]] = Len(s.widgets) + 1
    BY ToolStartedIs
  <2>3. /\ DOMAIN s.widgets = 1..Len(s.widgets) /\ DOMAIN t.widgets = 1..Len(s.widgets) + 1
        /\ t.widgets[Len(s.widgets) + 1] = Row(c, "running")
        /\ \A w \in DOMAIN s.widgets : t.widgets[w] = s.widgets[w]
    BY ToolStartedIs
  <2>. QED
    BY <1>k, <1>r, <2>1, <2>2, <2>3
<1>2. Len(s.widgets) \in Nat
  BY DEF ScreenOK
<1>3. IsRow(r) /\ r.call = c /\ r.result = "running" /\ r.of = c
  BY <1>r DEF Row, IsRow
<1>4. k \notin DOMAIN s.widgets /\ k \in DOMAIN t.widgets /\ \A w \in DOMAIN t.widgets : w \in DOMAIN s.widgets \/ w = k
  BY <1>1, <1>2, <1>k
<1>5. DOMAIN s.widgets \subseteq DOMAIN t.widgets
  BY <1>1, <1>2, <1>k
<1>6. Started(s, t, {c})
  BY <1>1, <1>3, <1>4, <1>5 DEF Started
<1>. QED
  BY <1>1, <1>6

\* And another.
LEMMA AnotherStarts ==
  ASSUME NEW p \in Nat, NEW n \in Nat, NEW s, NEW c, NEW t, ScreenOK(t, p, n), Started(s, t, {c}),
         NEW d \in 1..n, idOf[d] \in Nat, idOf[d] # idOf[c], NEW u, u = ToolStarted(t, d)
  PROVE  ScreenOK(u, p, n) /\ Started(s, u, {c, d})
<1>k. PICK k : k = Len(t.widgets) + 1
  OBVIOUS
<1>r. PICK r : r = Row(d, "running")
  OBVIOUS
<1>1. /\ ScreenOK(u, p, n) /\ u.shown = t.shown \cup {k} /\ u.current = 0
      /\ u.replies = t.replies /\ u.badge = t.badge /\ u.closed = t.closed
      /\ DOMAIN u.rows = DOMAIN t.rows \cup {idOf[d]} /\ u.rows[idOf[d]] = k
      /\ \A i \in DOMAIN t.rows : i # idOf[d] => u.rows[i] = t.rows[i]
      /\ DOMAIN t.widgets = 1..Len(t.widgets) /\ DOMAIN u.widgets = 1..k /\ u.widgets[k] = r
      /\ \A w \in DOMAIN t.widgets : u.widgets[w] = t.widgets[w]
  <2>1. /\ ScreenOK(u, p, n) /\ u.shown = t.shown \cup {Len(t.widgets) + 1} /\ u.current = 0
        /\ u.replies = t.replies /\ u.badge = t.badge /\ u.closed = t.closed
    BY ToolStartedIs
  <2>2. /\ DOMAIN u.rows = DOMAIN t.rows \cup {idOf[d]} /\ u.rows[idOf[d]] = Len(t.widgets) + 1
        /\ \A i \in DOMAIN t.rows : i # idOf[d] => u.rows[i] = t.rows[i]
    BY ToolStartedIs
  <2>3. /\ DOMAIN t.widgets = 1..Len(t.widgets) /\ DOMAIN u.widgets = 1..Len(t.widgets) + 1
        /\ u.widgets[Len(t.widgets) + 1] = Row(d, "running")
        /\ \A w \in DOMAIN t.widgets : u.widgets[w] = t.widgets[w]
    BY ToolStartedIs
  <2>. QED
    BY <1>k, <1>r, <2>1, <2>2, <2>3
<1>2. Len(t.widgets) \in Nat
  BY DEF ScreenOK
<1>3. IsRow(r) /\ r.call = d /\ r.result = "running" /\ r.of = d
  BY <1>r DEF Row, IsRow
<1>4. k \notin DOMAIN t.widgets /\ k \in DOMAIN u.widgets /\ \A w \in DOMAIN u.widgets : w \in DOMAIN t.widgets \/ w = k
  BY <1>1, <1>2, <1>k
<1>5. DOMAIN t.widgets \subseteq DOMAIN u.widgets
  BY <1>1, <1>2, <1>k
<1>6. /\ s.shown \subseteq u.shown /\ u.current = 0
      /\ u.replies = s.replies /\ u.badge = s.badge /\ u.closed = s.closed
      /\ DOMAIN s.widgets \subseteq DOMAIN u.widgets /\ k \notin DOMAIN s.widgets
  BY <1>1, <1>4, <1>5 DEF Started
<1>7. \A w \in DOMAIN s.widgets : u.widgets[w] = s.widgets[w] /\ (w \in u.shown => w \in s.shown)
  BY <1>1, <1>6 DEF Started
<1>8. ASSUME NEW w \in DOMAIN u.widgets, w \notin DOMAIN s.widgets
      PROVE  /\ IsRow(u.widgets[w]) /\ u.widgets[w].result = "running" /\ u.widgets[w].of = u.widgets[w].call
             /\ u.widgets[w].call \in {c, d} /\ idOf[u.widgets[w].call] \in DOMAIN u.rows /\ u.rows[idOf[u.widgets[w].call]] = w
  <2>1. CASE w = k
    BY <1>1, <1>3, <2>1
  <2>2. CASE w \in DOMAIN t.widgets
    <3>1. /\ IsRow(t.widgets[w]) /\ t.widgets[w].result = "running" /\ t.widgets[w].of = t.widgets[w].call
          /\ t.widgets[w].call = c /\ idOf[c] \in DOMAIN t.rows /\ t.rows[idOf[c]] = w
      BY <1>8, <2>2 DEF Started
    <3>. QED
      BY <1>1, <2>2, <3>1
  <2>. QED
    BY <1>4, <2>1, <2>2
<1>9. \A x \in {c, d} : \E w \in DOMAIN u.widgets : w \notin DOMAIN s.widgets /\ u.widgets[w].call = x
  <2>1. \E w \in DOMAIN u.widgets : w \notin DOMAIN s.widgets /\ u.widgets[w].call = c
    <3>1. PICK w \in DOMAIN t.widgets : w \notin DOMAIN s.widgets /\ t.widgets[w].call = c
      BY DEF Started
    <3>. QED
      BY <1>1, <1>5, <3>1
  <2>2. \E w \in DOMAIN u.widgets : w \notin DOMAIN s.widgets /\ u.widgets[w].call = d
    BY <1>1, <1>3, <1>4, <1>6
  <2>. QED
    BY <2>1, <2>2
<1>10. Started(s, u, {c, d})
  BY <1>6, <1>7, <1>8, <1>9 DEF Started
<1>. QED
  BY <1>1, <1>10

\* The group a of the first n of the calls todo, and those that are left, b.
Group(todo, n, a, b, m) ==
  /\ a \in Seq(past + 1..m) /\ b \in Seq(past + 1..m) /\ a \in Seq(Nat) /\ b \in Seq(Nat)
  /\ IsInjective(a) /\ IsInjective(b) /\ a # <<>>
  /\ ToSet(a) \cap ToSet(b) = {} /\ ToSet(a) \subseteq ToSet(todo) /\ ToSet(b) \subseteq ToSet(todo)
  /\ todo[1] \in past + 1..m /\ todo[1] \in 1..m /\ (n = 1 => ToSet(a) = {todo[1]})
  /\ n = 2 => ToSet(a) = {todo[1], todo[2]} /\ todo[2] \in 1..m /\ todo[1] # todo[2] /\ idOf[todo[1]] # idOf[todo[2]]

\* The calls are split into a group and the rest.
LEMMA GroupIs ==
  ASSUME TranscriptInv, turnOf.phase = "tools", turnOf.going = <<>>, NEW n \in 1..2, n \in {1, Len(turnOf.todo)},
         NEW todo, todo = turnOf.todo, NEW a, a = SubSeq(todo, 1, n), NEW b, b = SubSeq(todo, n + 1, Len(todo)), NEW m, m = Len(idOf)
  PROVE  Group(todo, n, a, b, m)
<1>P. PICK P : P = past + 1..m
  OBVIOUS
<1>1. /\ todo \in Seq(P) /\ IsInjective(todo) /\ todo # <<>> /\ past \in 0..m /\ m \in Nat
      /\ \A c, d \in Pending : idOf[c] = idOf[d] => c = d
  BY <1>P, InvHas DEF TranscriptInv, CallsOK
<1>2. P \subseteq 1..m /\ P \subseteq Nat
  BY <1>1, <1>P
<1>3. Len(todo) \in Nat /\ DOMAIN todo = 1..Len(todo) /\ n \in 1..Len(todo) /\ n \in Nat /\ 1 <= n
  <2>1. Len(todo) \in Nat /\ DOMAIN todo = 1..Len(todo) /\ Len(todo) # 0
    BY <1>1
  <2>. QED
    BY <2>1
<1>4. a \in Seq(P) /\ Len(a) = n /\ DOMAIN a = 1..n /\ \A i \in 1..n : a[i] = todo[i] /\ i \in DOMAIN todo
  <2>1. \A i \in 1..n : i \in DOMAIN todo
    BY <1>3
  <2>2. a \in Seq(P) /\ Len(a) = n - 1 + 1 /\ \A i \in 1..n - 1 + 1 : a[i] = todo[1 + i - 1]
    BY <1>1, <1>3, <2>1, SubSeqProperties
  <2>3. n - 1 + 1 = n /\ \A i \in 1..n : 1 + i - 1 = i
    BY <1>3
  <2>. QED
    BY <2>1, <2>2, <2>3
<1>5. /\ b \in Seq(P) /\ Len(b) = Len(todo) - n /\ DOMAIN b = 1..Len(todo) - n
      /\ \A i \in 1..Len(todo) - n : b[i] = todo[n + i] /\ n + i \in DOMAIN todo
  <2>1. n + 1 \in Nat /\ \A i \in n + 1..Len(todo) : i \in 1..Len(todo)
    BY <1>3
  <2>2. b \in Seq(P)
    BY <1>1, <1>3, <2>1
  <2>3. Len(b) = Len(todo) - n
    BY <1>1, <1>3, SubSeqProperties
  <2>4. DOMAIN b = 1..Len(todo) - n
    BY <2>2, <2>3
  <2>5. \A i \in 1..Len(todo) - n : n + i \in DOMAIN todo
    BY <1>3
  <2>6. ASSUME NEW i \in 1..Len(todo) - n
        PROVE  b[i] = todo[n + i]
    <3>0. n \in Int /\ n + 1 \in Int /\ Len(todo) \in Int /\ i \in Int /\ i \in 1..Len(todo) - (n + 1) + 1
      BY <1>3
    <3>1. \A j \in n + 1..Len(todo) : todo[j] \in P
      BY <1>1, <1>3, <2>1
    <3>s. PICK from, upto, z : from = n + 1 /\ upto = Len(todo) /\ z = SubSeq(todo, from, upto)
      OBVIOUS
    <3>2. z[i] = todo[from + i - 1]
      <4>1. from \in Int /\ upto \in Int /\ i \in 1..upto - from + 1 /\ \A j \in from..upto : todo[j] \in P
        BY <3>0, <3>1, <3>s
      <4>2. \A j \in 1..upto - from + 1 : SubSeq(todo, from, upto)[j] = todo[from + j - 1]
        BY <4>1, SubSeqProperties
      <4>. QED
        BY <3>s, <4>1, <4>2
    <3>3. from + i - 1 = n + i /\ z = b
      BY <3>0, <3>s
    <3>. QED
      BY <3>2, <3>3
  <2>. QED
    BY <2>2, <2>3, <2>4, <2>5, <2>6
<1>6. a \in Seq(Nat) /\ b \in Seq(Nat)
  <2>1. Seq(P) \subseteq Seq(Nat)
    BY <1>2, SeqMore
  <2>. QED
    BY <1>4, <1>5, <2>1
<1>7. IsInjective(a)
  BY <1>1, <1>3, <1>4 DEF IsInjective
<1>8. IsInjective(b)
  <2>1. ASSUME NEW i \in DOMAIN b, NEW j \in DOMAIN b, b[i] = b[j]
        PROVE  i = j
    <3>0. i \in 1..Len(todo) - n /\ j \in 1..Len(todo) - n /\ i \in Nat /\ j \in Nat
      BY <1>3, <1>5
    <3>1. todo[n + i] = todo[n + j] /\ n + i \in DOMAIN todo /\ n + j \in DOMAIN todo
      BY <1>5, <2>1, <3>0
    <3>2. n + i = n + j
      BY <1>1, <3>1 DEF IsInjective
    <3>. QED
      BY <1>3, <3>0, <3>2
  <2>. QED
    BY <2>1 DEF IsInjective
<1>9. ToSet(a) \cap ToSet(b) = {}
  <2>1. ASSUME NEW i \in DOMAIN a, NEW j \in DOMAIN b
        PROVE  a[i] # b[j]
    <3>0. i \in 1..n /\ j \in 1..Len(todo) - n
      BY <1>4, <1>5
    <3>1. a[i] = todo[i] /\ b[j] = todo[n + j] /\ i \in DOMAIN todo /\ n + j \in DOMAIN todo
      BY <1>4, <1>5, <3>0
    <3>2. i # n + j
      BY <1>3, <3>0
    <3>. QED
      BY <1>1, <3>1, <3>2 DEF IsInjective
  <2>2. ASSUME NEW x, x \in ToSet(a), x \in ToSet(b)
        PROVE  FALSE
    <3>1. PICK i \in DOMAIN a : a[i] = x
      BY <2>2 DEF ToSet
    <3>2. PICK j \in DOMAIN b : b[j] = x
      BY <2>2 DEF ToSet
    <3>. QED
      BY <2>1, <3>1, <3>2
  <2>. QED
    BY <2>2
<1>10. ToSet(a) \subseteq ToSet(todo) /\ ToSet(b) \subseteq ToSet(todo)
  <2>1. (\A i \in DOMAIN a : a[i] \in ToSet(todo)) /\ \A i \in DOMAIN b : b[i] \in ToSet(todo)
    BY <1>4, <1>5 DEF ToSet
  <2>. QED
    BY <2>1 DEF ToSet
<1>11. 1 \in DOMAIN todo /\ todo[1] \in P /\ (n = 2 => 2 \in DOMAIN todo /\ todo[2] \in P)
  BY <1>1, <1>3
<1>12. n = 1 => ToSet(a) = {todo[1]}
  BY <1>4 DEF ToSet
<1>13. n = 2 => ToSet(a) = {todo[1], todo[2]}
  <2>1. ASSUME n = 2
        PROVE  ToSet(a) = {todo[1], todo[2]}
    <3>1. DOMAIN a = {1, 2} /\ a[1] = todo[1] /\ a[2] = todo[2]
      BY <1>4, <2>1
    <3>. QED
      BY <3>1 DEF ToSet
  <2>. QED
    BY <2>1
<1>14. n = 2 => todo[1] # todo[2] /\ idOf[todo[1]] # idOf[todo[2]]
  <2>1. ASSUME n = 2
        PROVE  todo[1] # todo[2] /\ idOf[todo[1]] # idOf[todo[2]]
    <3>1. todo[1] # todo[2]
      BY <1>1, <1>11, <2>1 DEF IsInjective
    <3>2. todo[1] \in Pending /\ todo[2] \in Pending
      BY <1>11, <2>1 DEF Pending, ToSet
    <3>. QED
      BY <1>1, <3>1, <3>2
  <2>. QED
    BY <2>1
<1>15. a # <<>>
  <2>1. Len(a) # 0
    BY <1>3, <1>4
  <2>. QED
    BY <1>4, <2>1
<1>. QED
  BY <1>P, <1>2, <1>4, <1>5, <1>6, <1>7, <1>8, <1>9, <1>10, <1>11, <1>12, <1>13, <1>14, <1>15 DEF Group
\* A group of calls that starts.
LEMMA StartsKeeps ==
  ASSUME TranscriptInv, NEW n \in 1..2, Starts(n)
  PROVE  TranscriptInv'
<1>o. PICK todo : todo = turnOf.todo
  OBVIOUS
<1>a. PICK a : a = SubSeq(todo, 1, n)
  OBVIOUS
<1>b. PICK b : b = SubSeq(todo, n + 1, Len(todo))
  OBVIOUS
<1>m. PICK m : m = Len(idOf)
  OBVIOUS
<1>s. PICK s : s = screen
  OBVIOUS
<1>t. PICK t : t = screen'
  OBVIOUS
<1>1. /\ turnOf.phase = "tools" /\ turnOf.going = <<>> /\ n \in {1, Len(turnOf.todo)}
      /\ turnOf' = [turnOf EXCEPT !.going = a, !.todo = b]
      /\ t = (IF n = 1 THEN ToolStarted(s, todo[1]) ELSE ToolStarted(ToolStarted(s, todo[1]), todo[2]))
      /\ stored' = stored /\ idOf' = idOf /\ owned' = owned /\ results' = results /\ pieces' = pieces
      /\ since' = since /\ past' = past /\ cut' = cut /\ again' = again
  BY <1>o, <1>a, <1>b, <1>s, <1>t DEF Starts, In, conversation, history
<1>g. Group(todo, n, a, b, m)
  BY <1>1, <1>o, <1>a, <1>b, <1>m, GroupIs
<1>2. /\ a \in Seq(past + 1..m) /\ b \in Seq(past + 1..m) /\ a \in Seq(Nat) /\ b \in Seq(Nat)
      /\ IsInjective(a) /\ IsInjective(b) /\ a # <<>>
      /\ ToSet(a) \cap ToSet(b) = {} /\ ToSet(a) \subseteq ToSet(todo) /\ ToSet(b) \subseteq ToSet(todo)
  BY <1>g DEF Group
<1>3. /\ todo[1] \in 1..m /\ (n = 1 => ToSet(a) = {todo[1]})
      /\ n = 2 => ToSet(a) = {todo[1], todo[2]} /\ todo[2] \in 1..m /\ idOf[todo[1]] # idOf[todo[2]]
  BY <1>g DEF Group
<1>4. /\ ScreenOK(s, pieces, m) /\ pieces \in Nat /\ m \in Nat /\ s.shown \subseteq DOMAIN s.widgets
      /\ \A c \in 1..m : idOf[c] \in Nat
  <2>1. idOf \in Seq(Nat)
    BY DEF TranscriptInv, CallsOK
  <2>. QED
    BY <1>m, <1>s, <2>1, InvHas
<1>5. ScreenOK(t, pieces, m) /\ Started(s, t, ToSet(a))
  <2>c. PICK c : c = todo[1]
    OBVIOUS
  <2>d. PICK d : d = todo[2]
    OBVIOUS
  <2>o. PICK one : one = ToolStarted(s, c)
    OBVIOUS
  <2>1. c \in 1..m /\ (n = 1 => ToSet(a) = {c}) /\ (n = 2 => ToSet(a) = {c, d} /\ d \in 1..m /\ idOf[c] # idOf[d])
    BY <1>3, <2>c, <2>d
  <2>2. ScreenOK(one, pieces, m) /\ Started(s, one, {c})
    BY <1>4, <2>1, <2>o, OneStarts
  <2>3. CASE n = 1
    BY <1>1, <2>1, <2>2, <2>3, <2>c, <2>o
  <2>4. CASE n = 2
    <3>1. t = ToolStarted(one, d)
      BY <1>1, <2>c, <2>d, <2>o, <2>4
    <3>2. ScreenOK(t, pieces, m) /\ Started(s, t, {c, d})
      BY <1>4, <2>1, <2>2, <2>4, <3>1, AnotherStarts
    <3>. QED
      BY <2>1, <2>4, <3>2
  <2>. QED
    BY <2>3, <2>4
<1>6. /\ s.shown \subseteq t.shown /\ t.current = 0 /\ t.replies = s.replies /\ t.closed = s.closed
      /\ DOMAIN s.widgets \subseteq DOMAIN t.widgets
      /\ \A w \in DOMAIN s.widgets : t.widgets[w] = s.widgets[w] /\ (w \in t.shown => w \in s.shown)
      /\ \A w \in DOMAIN t.widgets : w \notin DOMAIN s.widgets =>
           /\ IsRow(t.widgets[w]) /\ t.widgets[w].result = "running" /\ t.widgets[w].of = t.widgets[w].call
           /\ t.widgets[w].call \in ToSet(a)
           /\ idOf[t.widgets[w].call] \in DOMAIN t.rows /\ t.rows[idOf[t.widgets[w].call]] = w
      /\ t.shown \subseteq DOMAIN t.widgets
  BY <1>5 DEF Started, ScreenOK
<1>7. \A c \in ToSet(a) : \E w \in DOMAIN t.widgets : w \notin DOMAIN s.widgets /\ t.widgets[w].call = c
  BY <1>5 DEF Started
<1>8. /\ turnOf \in Turns /\ turnOf.text \in Seq(1..pieces) /\ Rising(turnOf.text)
      /\ owned \in BOOLEAN /\ cut \in BOOLEAN /\ again \in BOOLEAN /\ s.closed = FALSE /\ turnOf.prose \in Seq(1..pieces)
  <2>1. turnOf \in Turns /\ (s.closed <=> turnOf.phase = "idle") /\ s.closed \in BOOLEAN
    BY <1>s, InvHas DEF TranscriptInv, TurnOK, ScreenOK
  <2>. QED
    BY <1>1, <2>1 DEF TranscriptInv, TurnOK
<1>9. /\ turnOf' \in Turns /\ turnOf'.phase = "tools" /\ turnOf'.text = turnOf.text /\ turnOf'.prose = turnOf.prose
      /\ turnOf'.going = a /\ turnOf'.todo = b /\ turnOf'.verifying = turnOf.verifying
  <2>u. PICK u : u = [turnOf EXCEPT !.going = a, !.todo = b]
    OBVIOUS
  <2>1. u \in Turns /\ u.phase = "tools" /\ u.text = turnOf.text /\ u.prose = turnOf.prose
        /\ u.going = a /\ u.todo = b /\ u.verifying = turnOf.verifying
    BY <1>1, <1>2, <1>8, <2>u DEF Turns
  <2>. QED
    BY <1>1, <2>1, <2>u
<1>10. TurnOK'
  BY <1>1, <1>4, <1>6, <1>8, <1>9, <1>t DEF TurnOK
<1>11. /\ idOf \in Seq(Nat) /\ past \in 0..m /\ DOMAIN results \subseteq 1..m
       /\ (\A c, d \in Pending : idOf[c] = idOf[d] => c = d) /\ ToSet(todo) \cap DOMAIN results = {}
  BY <1>m, <1>o DEF TranscriptInv, CallsOK
<1>12. Pending' \subseteq Pending /\ ToSet(a) \cup ToSet(b) = Pending'
  BY <1>2, <1>9, <1>o DEF Pending
<1>13. CallsOK'
  <2>1. ToSet(b) \cap DOMAIN results = {} /\ \A c, d \in Pending' : idOf[c] = idOf[d] => c = d
    BY <1>2, <1>11, <1>12
  <2>. QED
    BY <1>1, <1>2, <1>9, <1>11, <1>m, <2>1 DEF CallsOK
<1>14. StoredOK'
  <2>1. Unanswered(stored, Pending')
    BY <1>12 DEF TranscriptInv, StoredOK, Unanswered
  <2>. QED
    BY <1>1, <1>9, <2>1 DEF TranscriptInv, StoredOK
<1>15. Awaited' = ToSet(a)
  BY <1>1, <1>2, <1>9, <1>11 DEF Awaited
<1>16. /\ \A w \in DOMAIN s.widgets : IsRow(s.widgets[w]) => RowOK(w) /\ s.widgets[w].result # "running"
       /\ \A v, w \in s.shown : IsRow(s.widgets[v]) /\ IsRow(s.widgets[w]) /\ s.widgets[v].call = s.widgets[w].call => v = w
  <2>1. Awaited = {}
    BY <1>1, IdleIs DEF Awaited
  <2>. QED
    BY <1>1, <1>s, <2>1 DEF TranscriptInv, RowsOK, RowOK
<1>17. RowsOK'
  <2>1. ASSUME NEW w \in DOMAIN t.widgets, IsRow(t.widgets[w])
        PROVE  RowOK(w)'
    <3>1. CASE w \in DOMAIN s.widgets
      <4>1. t.widgets[w] = s.widgets[w] /\ RowOK(w) /\ s.widgets[w].result # "running" /\ (w \in t.shown => w \in s.shown)
        BY <1>6, <1>16, <2>1, <3>1
      <4>2. ToSet(turnOf'.todo) \subseteq ToSet(turnOf.todo)
        BY <1>2, <1>9, <1>o
      <4>. QED
        BY <1>1, <1>s, <1>t, <4>1, <4>2 DEF RowOK
    <3>2. CASE w \notin DOMAIN s.widgets
      <4>r. PICK line : line = t.widgets[w]
        OBVIOUS
      <4>1. /\ line.result = "running" /\ line.of = line.call
            /\ line.call \in ToSet(a) /\ idOf[line.call] \in DOMAIN t.rows /\ t.rows[idOf[line.call]] = w
        BY <1>6, <3>2, <4>r
      <4>2. line.call > past /\ line.call \notin ToSet(b)
        <5>P. PICK P : P = past + 1..m
          OBVIOUS
        <5>0. a \in Seq(P)
          BY <1>2, <5>P
        <5>1. \A i \in DOMAIN a : a[i] \in P
          BY <5>0
        <5>i. PICK i \in DOMAIN a : line.call = a[i]
          BY <4>1 DEF ToSet
        <5>2. line.call \in past + 1..m
          BY <5>1, <5>i, <5>P
        <5>. QED
          BY <1>2, <1>11, <4>1, <5>2
      <4>. QED
        BY <1>1, <1>9, <1>15, <1>t, <4>r, <4>1, <4>2 DEF RowOK
    <3>. QED
      BY <3>1, <3>2
  <2>2. ASSUME NEW v \in t.shown, NEW w \in t.shown, IsRow(t.widgets[v]), IsRow(t.widgets[w]), t.widgets[v].call = t.widgets[w].call
        PROVE  v = w
    <3>0. v \in DOMAIN t.widgets /\ w \in DOMAIN t.widgets
      BY <1>6
    <3>4. \A x \in DOMAIN s.widgets : x \in t.shown /\ IsRow(t.widgets[x]) => t.widgets[x].call \notin ToSet(a)
      <4>1. ASSUME NEW x \in DOMAIN s.widgets, x \in t.shown, IsRow(t.widgets[x])
            PROVE  t.widgets[x].call \notin ToSet(todo)
        <5>1. t.widgets[x] = s.widgets[x] /\ x \in s.shown
          BY <1>6, <4>1
        <5>. QED
          BY <1>16, <1>o, <1>s, <4>1, <5>1 DEF RowOK
      <4>. QED
        BY <1>2, <4>1
    <3>1. CASE v \in DOMAIN s.widgets /\ w \in DOMAIN s.widgets
      <4>1. /\ t.widgets[v] = s.widgets[v] /\ v \in s.shown /\ t.widgets[w] = s.widgets[w] /\ w \in s.shown
        BY <1>6, <2>2, <3>1
      <4>. QED
        BY <1>16, <2>2, <4>1
    <3>2. CASE v \notin DOMAIN s.widgets /\ w \notin DOMAIN s.widgets
      BY <1>6, <2>2, <3>0, <3>2
    <3>3. CASE v \in DOMAIN s.widgets /\ w \notin DOMAIN s.widgets
      BY <1>6, <2>2, <3>0, <3>3, <3>4
    <3>5. CASE v \notin DOMAIN s.widgets /\ w \in DOMAIN s.widgets
      BY <1>6, <2>2, <3>0, <3>5, <3>4
    <3>. QED
      BY <3>1, <3>2, <3>3, <3>5
  <2>3. ASSUME NEW c \in ToSet(a)
        PROVE  /\ idOf[c] \in DOMAIN t.rows
               /\ IsRow(t.widgets[t.rows[idOf[c]]]) /\ t.widgets[t.rows[idOf[c]]].call = c /\ t.widgets[t.rows[idOf[c]]].result = "running"
    <3>1. PICK w \in DOMAIN t.widgets : w \notin DOMAIN s.widgets /\ t.widgets[w].call = c
      BY <1>7
    <3>2. idOf[c] \in DOMAIN t.rows /\ t.rows[idOf[c]] = w /\ IsRow(t.widgets[w]) /\ t.widgets[w].result = "running"
      BY <1>6, <3>1
    <3>. QED
      BY <3>1, <3>2
  <2>4. \A c \in Awaited' :
          /\ idOf'[c] \in DOMAIN screen'.rows
          /\ LET line == screen'.widgets[screen'.rows[idOf'[c]]] IN IsRow(line) /\ line.call = c /\ line.result = "running"
    BY <1>1, <1>15, <1>t, <2>3
  <2>. QED
    BY <1>t, <2>1, <2>2, <2>4 DEF RowsOK
<1>18. \A w \in DOMAIN t.widgets : IsText(t.widgets[w]) => w \in DOMAIN s.widgets /\ t.widgets[w] = s.widgets[w]
  <2>1. \A w \in DOMAIN t.widgets : IsRow(t.widgets[w]) => ~IsText(t.widgets[w])
    BY DEF IsRow, IsText
  <2>. QED
    BY <1>6, <2>1
<1>19. s.replies \in Seq(Nat) /\ \A k \in DOMAIN s.replies : s.replies[k] \in DOMAIN s.widgets
  BY <1>4 DEF ScreenOK
<1>20. ReplyOK'
  <2>1. ~again => /\ turnOf.prose # <<>> => turnOf.verifying
                  /\ turnOf.prose # <<>> => s.replies # <<>> /\ s.widgets[s.replies[Len(s.replies)]].text = turnOf.prose
    BY <1>1, <1>s DEF TranscriptInv, ReplyOK, LastReply
  <2>2. s.replies # <<>> => /\ t.widgets[s.replies[Len(s.replies)]] = s.widgets[s.replies[Len(s.replies)]]
                            /\ \A v \in DOMAIN s.widgets : IsText(s.widgets[v]) => v <= s.replies[Len(s.replies)]
    <3>1. s.replies # <<>> => Len(s.replies) \in DOMAIN s.replies
      BY <1>19
    <3>. QED
      BY <1>6, <1>19, <1>s, <3>1 DEF TranscriptInv, ReplyOK, LastReply
  <2>3. \A v \in DOMAIN t.widgets : IsText(t.widgets[v]) => (s.replies # <<>> => v <= s.replies[Len(s.replies)])
    BY <1>18, <2>2
  <2>. QED
    BY <1>1, <1>6, <1>9, <1>t, <2>1, <2>2, <2>3 DEF ReplyOK, LastReply
<1>21. ShownOK'
  <2>1. ASSUME ~again
        PROVE  InOrder(t)
    <3>1. InOrder(s)
      BY <1>s, <2>1 DEF TranscriptInv, ShownOK
    <3>2. \A w \in t.shown : IsText(t.widgets[w]) => w \in s.shown /\ t.widgets[w] = s.widgets[w]
      BY <1>6, <1>18
    <3>. QED
      BY <3>1, <3>2 DEF InOrder
  <2>2. ASSUME ~cut
        PROVE  /\ \A k \in DOMAIN t.replies : t.replies[k] \in t.shown
               /\ \A i \in since..Len(stored) : \A p \in ToSet(stored[i].text) \ {0} : Visible(t, p)
    <3>1. /\ \A k \in DOMAIN s.replies : s.replies[k] \in s.shown
          /\ \A i \in since..Len(stored) : \A p \in ToSet(stored[i].text) \ {0} : Visible(s, p)
      BY <1>s, <2>2 DEF TranscriptInv, ShownOK
    <3>2. \A w \in s.shown : t.widgets[w] = s.widgets[w]
      BY <1>4, <1>6
    <3>3. \A p : Visible(s, p) => Visible(t, p)
      BY <1>6, <3>2, VisibleMore
    <3>. QED
      BY <1>6, <3>1, <3>3
  <2>. QED
    BY <1>1, <1>6, <1>t, <2>1, <2>2 DEF ShownOK
<1>. QED
  BY <1>1, <1>5, <1>10, <1>13, <1>14, <1>17, <1>20, <1>21, <1>m, <1>t DEF TranscriptInv
\* A call that returns.
LEMMA ReturnsKeeps ==
  ASSUME TranscriptInv, NEW call \in Awaited, NEW result \in {"ok", "failed"}, Returns(call, result)
  PROVE  TranscriptInv'
<1>m. PICK m : m = Len(idOf)
  OBVIOUS
<1>s. PICK s : s = screen
  OBVIOUS
<1>t. PICK t : t = screen'
  OBVIOUS
<1>k. PICK k : k = s.rows[idOf[call]]
  OBVIOUS
<1>r. PICK r : r = Put(results, call, result)
  OBVIOUS
<1>1. /\ turnOf.phase = "tools" /\ t = ToolFinished(s, call, result) /\ results' = r
      /\ turnOf' = turnOf /\ stored' = stored /\ idOf' = idOf /\ owned' = owned /\ pieces' = pieces
      /\ since' = since /\ past' = past /\ cut' = cut /\ again' = again
  BY <1>s, <1>t, <1>r DEF Returns, In, history
<1>2. /\ idOf[call] \in DOMAIN s.rows /\ IsRow(s.widgets[k]) /\ s.widgets[k].call = call /\ s.widgets[k].result = "running"
  BY <1>s, <1>k DEF TranscriptInv, RowsOK
<1>3. /\ ScreenOK(s, pieces, m) /\ pieces \in Nat /\ m \in Nat /\ s.shown \subseteq DOMAIN s.widgets
  BY <1>m, <1>s, InvHas
<1>4. /\ idOf \in Seq(Nat) /\ past \in 0..m /\ DOMAIN results \subseteq 1..m
      /\ ToSet(turnOf.todo) \cap DOMAIN results = {} /\ ToSet(turnOf.going) \cap ToSet(turnOf.todo) = {}
  BY <1>m DEF TranscriptInv, CallsOK
<1>5. call \in ToSet(turnOf.going) /\ call \notin DOMAIN results /\ call \in past + 1..m /\ call \in 1..m /\ call > past
      /\ call \notin ToSet(turnOf.todo)
  <2>P. PICK P : P = past + 1..m
    OBVIOUS
  <2>1. call \in ToSet(turnOf.going) /\ call \notin DOMAIN results
    BY DEF Awaited
  <2>2. turnOf.going \in Seq(P)
    BY <1>m, <2>P DEF TranscriptInv, CallsOK
  <2>3. \A i \in DOMAIN turnOf.going : turnOf.going[i] \in P
    BY <2>2
  <2>i. PICK i \in DOMAIN turnOf.going : call = turnOf.going[i]
    BY <2>1 DEF ToSet
  <2>4. call \in past + 1..m
    BY <2>3, <2>i, <2>P
  <2>. QED
    BY <1>3, <1>4, <2>1, <2>4
<1>6. /\ DOMAIN r = DOMAIN results \cup {call} /\ r[call] = result
      /\ \A c \in DOMAIN results : r[c] = results[c]
  BY <1>5, <1>r DEF Put
<1>7. /\ ScreenOK(t, pieces, m) /\ t.shown = s.shown /\ t.current = s.current
      /\ t.replies = s.replies /\ t.rows = s.rows /\ t.badge = s.badge /\ t.closed = s.closed
      /\ DOMAIN t.widgets = DOMAIN s.widgets /\ k \in DOMAIN s.widgets
      /\ IsRow(t.widgets[k]) /\ t.widgets[k].call = call
      /\ t.widgets[k].result = result /\ t.widgets[k].of = call
      /\ \A w \in DOMAIN s.widgets : w # k => t.widgets[w] = s.widgets[w]
  <2>1. k = RowOf(s, call) /\ s.widgets[RowOf(s, call)].kind = "row" /\ result \in Results
    BY <1>2, <1>k DEF RowOf, IsRow, Results
  <2>2. /\ ScreenOK(t, pieces, m) /\ t.shown = s.shown /\ t.current = s.current
        /\ t.replies = s.replies /\ t.rows = s.rows /\ t.badge = s.badge /\ t.closed = s.closed
        /\ DOMAIN t.widgets = DOMAIN s.widgets /\ k \in DOMAIN s.widgets
        /\ t.widgets[k].kind = "row" /\ t.widgets[k].call = s.widgets[k].call
        /\ t.widgets[k].result = result /\ t.widgets[k].of = call
        /\ \A w \in DOMAIN s.widgets : w # k => t.widgets[w] = s.widgets[w]
    BY <1>1, <1>2, <1>3, <1>5, <2>1, ToolFinishedIs
  <2>. QED
    BY <1>2, <2>2 DEF IsRow
<1>8. TurnOK'
  BY <1>1, <1>7, <1>s, <1>t DEF TranscriptInv, TurnOK
<1>9. CallsOK'
  <2>1. DOMAIN r \subseteq 1..m /\ ToSet(turnOf.todo) \cap DOMAIN r = {}
    BY <1>4, <1>5, <1>6
  <2>. QED
    BY <1>1, <1>m, <2>1 DEF TranscriptInv, CallsOK, Pending
<1>10. StoredOK'
  BY <1>1 DEF TranscriptInv, StoredOK, Pending
<1>11. \A c : c \in Awaited' <=> c \in Awaited /\ c # call
  BY <1>1, <1>6 DEF Awaited
<1>12. RowsOK'
  <2>1. ASSUME NEW w \in DOMAIN t.widgets, IsRow(t.widgets[w])
        PROVE  RowOK(w)'
    <3>1. CASE w = k
      <4>1. result # "running" /\ call \in DOMAIN r /\ r[call] = result /\ call \notin ToSet(turnOf'.todo)
        BY <1>1, <1>5, <1>6
      <4>. QED
        BY <1>1, <1>5, <1>7, <1>t, <3>1, <4>1 DEF RowOK
    <3>2. CASE w # k
      <4>r. PICK line : line = s.widgets[w]
        OBVIOUS
      <4>1. w \in DOMAIN s.widgets /\ t.widgets[w] = line /\ IsRow(line)
        BY <1>7, <2>1, <3>2, <4>r
      <4>2. /\ line.of = line.call
            /\ line.result \in {"ok", "failed"} => line.call \in DOMAIN results /\ results[line.call] = line.result
            /\ w \in s.shown /\ line.result # "historical" => line.call > past
            /\ w \in s.shown => line.call \notin ToSet(turnOf.todo)
            /\ line.result = "running" =>
                 /\ idOf[line.call] \in DOMAIN s.rows /\ s.rows[idOf[line.call]] = w /\ line.call \in Awaited
        BY <1>1, <1>s, <4>1, <4>r DEF TranscriptInv, RowsOK, RowOK
      <4>3. line.result = "running" => line.call \in Awaited'
        BY <1>11, <1>k, <3>2, <4>2
      <4>4. line.result \in {"ok", "failed"} => line.call \in DOMAIN r /\ r[line.call] = line.result
        BY <1>6, <4>2
      <4>. QED
        BY <1>1, <1>7, <1>t, <4>1, <4>2, <4>3, <4>4 DEF RowOK
    <3>. QED
      BY <3>1, <3>2
  <2>2. \A w \in DOMAIN s.widgets : (IsRow(t.widgets[w]) <=> IsRow(s.widgets[w])) /\ (IsRow(s.widgets[w]) => t.widgets[w].call = s.widgets[w].call)
    BY <1>2, <1>7
  <2>3. \A v, w \in t.shown : IsRow(t.widgets[v]) /\ IsRow(t.widgets[w]) /\ t.widgets[v].call = t.widgets[w].call => v = w
    <3>1. \A v, w \in s.shown : IsRow(s.widgets[v]) /\ IsRow(s.widgets[w]) /\ s.widgets[v].call = s.widgets[w].call => v = w
      BY <1>s DEF TranscriptInv, RowsOK
    <3>. QED
      BY <1>3, <1>7, <2>2, <3>1
  <2>4. ASSUME NEW c \in Awaited, c # call
        PROVE  /\ idOf[c] \in DOMAIN t.rows
               /\ LET line == t.widgets[t.rows[idOf[c]]] IN IsRow(line) /\ line.call = c /\ line.result = "running"
    <3>v. PICK v : v = s.rows[idOf[c]]
      OBVIOUS
    <3>1. idOf[c] \in DOMAIN s.rows /\ IsRow(s.widgets[v]) /\ s.widgets[v].call = c /\ s.widgets[v].result = "running"
      BY <1>s, <3>v DEF TranscriptInv, RowsOK
    <3>2. v # k /\ v \in DOMAIN s.widgets
      BY <1>2, <1>3, <2>4, <3>1, <3>v DEF ScreenOK
    <3>. QED
      BY <1>7, <3>1, <3>2, <3>v
  <2>5. \A c \in Awaited' :
          /\ idOf'[c] \in DOMAIN screen'.rows
          /\ LET line == screen'.widgets[screen'.rows[idOf'[c]]] IN IsRow(line) /\ line.call = c /\ line.result = "running"
    BY <1>1, <1>11, <1>t, <2>4
  <2>. QED
    BY <1>t, <2>1, <2>3, <2>5 DEF RowsOK
<1>13. \A w \in DOMAIN s.widgets : (IsText(t.widgets[w]) <=> IsText(s.widgets[w])) /\ (IsText(s.widgets[w]) => t.widgets[w] = s.widgets[w])
  <2>1. ~IsText(s.widgets[k]) /\ ~IsText(t.widgets[k])
    BY <1>2, <1>7 DEF IsText, IsRow
  <2>. QED
    BY <1>7, <2>1
<1>14. ReplyOK'
  <2>1. ~again => /\ turnOf.prose # <<>> => turnOf.verifying
                  /\ turnOf.prose # <<>> => s.replies # <<>> /\ s.widgets[s.replies[Len(s.replies)]].text = turnOf.prose
    BY <1>1, <1>s DEF TranscriptInv, ReplyOK, LastReply
  <2>2. s.replies # <<>> => t.widgets[s.replies[Len(s.replies)]] = s.widgets[s.replies[Len(s.replies)]]
    <3>0. s.replies \in Seq(Nat) /\ \A i \in DOMAIN s.replies : s.replies[i] \in DOMAIN s.widgets /\ s.widgets[s.replies[i]].kind = "reply"
      BY <1>3 DEF ScreenOK
    <3>1. s.replies # <<>> => Len(s.replies) \in DOMAIN s.replies
      BY <3>0
    <3>. QED
      BY <1>13, <3>0, <3>1 DEF IsText
  <2>3. \A v \in DOMAIN s.widgets : IsText(s.widgets[v]) =>
          (s.current # 0 => v <= s.current) /\ (s.replies # <<>> => v <= s.replies[Len(s.replies)])
    BY <1>s DEF TranscriptInv, ReplyOK, LastReply
  <2>4. \A v \in DOMAIN t.widgets : IsText(t.widgets[v]) =>
          (s.current # 0 => v <= s.current) /\ (s.replies # <<>> => v <= s.replies[Len(s.replies)])
    BY <1>7, <1>13, <2>3
  <2>. QED
    BY <1>1, <1>7, <1>t, <2>1, <2>2, <2>4 DEF ReplyOK, LastReply
<1>15. ShownOK'
  <2>1. ASSUME ~again
        PROVE  InOrder(t)
    <3>1. InOrder(s)
      BY <1>s, <2>1 DEF TranscriptInv, ShownOK
    <3>2. \A w \in t.shown : IsText(t.widgets[w]) => w \in s.shown /\ IsText(s.widgets[w]) /\ t.widgets[w] = s.widgets[w]
      BY <1>3, <1>7, <1>13
    <3>. QED
      BY <3>1, <3>2 DEF InOrder
  <2>2. ASSUME ~cut
        PROVE  /\ t.current # 0 => t.current \in t.shown
               /\ \A i \in DOMAIN t.replies : t.replies[i] \in t.shown
               /\ \A i \in since..Len(stored) : \A p \in ToSet(stored[i].text) \ {0} : Visible(t, p)
    <3>1. /\ s.current # 0 => s.current \in s.shown
          /\ \A i \in DOMAIN s.replies : s.replies[i] \in s.shown
          /\ \A i \in since..Len(stored) : \A p \in ToSet(stored[i].text) \ {0} : Visible(s, p)
      BY <1>s, <2>2 DEF TranscriptInv, ShownOK
    <3>2. \A w \in s.shown : IsText(s.widgets[w]) => IsText(t.widgets[w]) /\ t.widgets[w] = s.widgets[w]
      BY <1>3, <1>13
    <3>3. \A p : Visible(s, p) => Visible(t, p)
      BY <1>7, <3>2, VisibleMore
    <3>. QED
      BY <1>7, <3>1, <3>3
  <2>. QED
    BY <1>1, <1>t, <2>1, <2>2 DEF ShownOK
<1>. QED
  BY <1>1, <1>7, <1>8, <1>9, <1>10, <1>12, <1>14, <1>15, <1>m, <1>t DEF TranscriptInv
-----------------------------------------------------------------------------
(* The steps that end a turn *)

\* Window x has the rows of the window, and nothing that was not shown.
RowsAlike(x) ==
  /\ x.rows = screen.rows /\ ~x.closed
  /\ \A w \in DOMAIN x.widgets : IsRow(x.widgets[w]) => w \in DOMAIN screen.widgets /\ x.widgets[w] = screen.widgets[w]
  /\ \A w \in DOMAIN screen.widgets : IsRow(screen.widgets[w]) => w \in DOMAIN x.widgets /\ x.widgets[w] = screen.widgets[w]
  /\ \A w \in x.shown : w \in DOMAIN screen.widgets => w \in screen.shown

\* Window t is s with its turn closed.
Closing(s, t, p, n) ==
  /\ ScreenOK(t, p, n) /\ t.rows = s.rows
  /\ DOMAIN s.widgets \subseteq DOMAIN t.widgets /\ s.shown \subseteq t.shown
  /\ \A w \in t.shown : w \in DOMAIN s.widgets => w \in s.shown
  /\ \A w \in DOMAIN t.widgets : w \notin DOMAIN s.widgets => t.widgets[w].kind = "badge"
  /\ \A w \in DOMAIN s.widgets :
       /\ t.widgets[w].kind = s.widgets[w].kind
       /\ w \notin Unfinished(s) => t.widgets[w] = s.widgets[w]
       /\ w \in Unfinished(s) => /\ t.widgets[w].call = s.widgets[w].call /\ t.widgets[w].of = s.widgets[w].of
                                 /\ t.widgets[w].result = "cancelled"

\* _close_turn.
LEMMA TurnCloses ==
  ASSUME NEW p \in Nat, NEW n \in Nat, NEW s, ScreenOK(s, p, n), ~s.closed, NEW t, t = CloseTurn(s)
  PROVE  Closing(s, t, p, n)
<1>1. /\ ScreenOK(t, p, n) /\ t.closed /\ t.current = 0 /\ t.replies = <<>> /\ t.rows = s.rows
      /\ DOMAIN s.widgets \subseteq DOMAIN t.widgets /\ s.shown \subseteq t.shown
      /\ \A w \in t.shown : w \in DOMAIN s.widgets => w \in s.shown
      /\ \A w \in DOMAIN t.widgets : w \notin DOMAIN s.widgets => t.widgets[w].kind = "badge"
      /\ \A w \in DOMAIN s.widgets :
           /\ t.widgets[w].kind = s.widgets[w].kind
           /\ w \notin Unfinished(s) => t.widgets[w] = s.widgets[w]
           /\ w \in Unfinished(s) => /\ t.widgets[w].call = s.widgets[w].call /\ t.widgets[w].of = s.widgets[w].of
                                     /\ t.widgets[w].result = "cancelled"
  BY CloseTurnIs
<1>. QED
  BY <1>1 DEF Closing

\* No row of a turn that is closed runs.
LEMMA ClosedRows ==
  ASSUME TranscriptInv, NEW p \in Nat, NEW x, ScreenOK(x, p, Len(idOf)), RowsAlike(x), screen' = CloseTurn(x),
         turnOf' = Idle, idOf' = idOf, results' = results, past' = past
  PROVE  RowsOK'
<1>m. PICK m : m = Len(idOf)
  OBVIOUS
<1>t. PICK t : t = screen'
  OBVIOUS
<1>0. m \in Nat /\ ScreenOK(x, p, m) /\ ~x.closed /\ t = CloseTurn(x) /\ x.shown \subseteq DOMAIN x.widgets
  BY <1>m, <1>t, InvHas DEF RowsAlike, ScreenOK
<1>c. Closing(x, t, p, m)
  BY <1>0, TurnCloses
<1>1. /\ ScreenOK(t, p, m) /\ t.rows = x.rows
      /\ DOMAIN x.widgets \subseteq DOMAIN t.widgets /\ x.shown \subseteq t.shown
      /\ \A w \in t.shown : w \in DOMAIN x.widgets => w \in x.shown
      /\ \A w \in DOMAIN t.widgets : w \notin DOMAIN x.widgets => t.widgets[w].kind = "badge"
      /\ \A w \in DOMAIN x.widgets :
           /\ t.widgets[w].kind = x.widgets[w].kind
           /\ w \notin Unfinished(x) => t.widgets[w] = x.widgets[w]
           /\ w \in Unfinished(x) => /\ t.widgets[w].call = x.widgets[w].call /\ t.widgets[w].of = x.widgets[w].of
                                     /\ t.widgets[w].result = "cancelled"
  BY <1>c DEF Closing
<1>2. turnOf'.phase = "idle" /\ turnOf'.going = <<>> /\ turnOf'.todo = <<>> /\ ToSet(turnOf'.going) = {} /\ ToSet(turnOf'.todo) = {}
  BY IdleIs
<1>3. Awaited' = {}
  BY <1>2 DEF Awaited
<1>4. ASSUME NEW w \in DOMAIN t.widgets, IsRow(t.widgets[w])
      PROVE  /\ w \in DOMAIN screen.widgets /\ IsRow(screen.widgets[w]) /\ (w \in t.shown => w \in screen.shown)
             /\ t.widgets[w].call = screen.widgets[w].call /\ t.widgets[w].of = screen.widgets[w].of
             /\ t.widgets[w].result # "running"
             /\ (t.widgets[w].result = screen.widgets[w].result \/ (t.widgets[w].result = "cancelled" /\ screen.widgets[w].result = "running"))
  <2>1. w \in DOMAIN x.widgets /\ IsRow(x.widgets[w])
    BY <1>1, <1>4 DEF IsRow
  <2>2. w \in DOMAIN screen.widgets /\ x.widgets[w] = screen.widgets[w] /\ (w \in t.shown => w \in screen.shown)
    BY <1>1, <2>1 DEF RowsAlike
  <2>3. CASE w \in Unfinished(x)
    <3>1. x.widgets[w].result = "running"
      BY <2>3 DEF Unfinished, Running
    <3>. QED
      BY <1>1, <2>1, <2>2, <2>3, <3>1
  <2>4. CASE w \notin Unfinished(x)
    <3>1. t.widgets[w] = x.widgets[w]
      BY <1>1, <2>1, <2>4
    <3>2. x.widgets[w].result # "running"
      <4>1. ASSUME x.widgets[w].result = "running"
            PROVE  FALSE
        <5>1. idOf[x.widgets[w].call] \in DOMAIN x.rows /\ x.rows[idOf[x.widgets[w].call]] = w
          BY <2>1, <2>2, <4>1 DEF TranscriptInv, RowsOK, RowOK, RowsAlike
        <5>2. w \in Tracked(x)
          BY <5>1 DEF Tracked
        <5>3. w \in Running(x)
          BY <2>1, <4>1 DEF Running, IsRow
        <5>. QED
          BY <2>4, <5>2, <5>3 DEF Unfinished
      <4>. QED
        BY <4>1
    <3>. QED
      BY <2>1, <2>2, <3>1, <3>2
  <2>. QED
    BY <2>3, <2>4
<1>5. ASSUME NEW w \in DOMAIN t.widgets, IsRow(t.widgets[w])
      PROVE  RowOK(w)'
  <2>s. PICK o : o = screen.widgets[w]
    OBVIOUS
  <2>r. PICK line : line = t.widgets[w]
    OBVIOUS
  <2>1. /\ w \in DOMAIN screen.widgets /\ IsRow(screen.widgets[w]) /\ (w \in t.shown => w \in screen.shown)
        /\ line.call = o.call /\ line.of = o.of /\ line.result # "running"
        /\ (line.result = o.result \/ (line.result = "cancelled" /\ o.result = "running"))
    BY <1>4, <1>5, <2>r, <2>s
  <2>2. /\ o.of = o.call
        /\ o.result \in {"ok", "failed"} => o.call \in DOMAIN results /\ results[o.call] = o.result
        /\ w \in screen.shown /\ o.result # "historical" => o.call > past
    BY <2>1, <2>s DEF TranscriptInv, RowsOK, RowOK
  <2>. QED
    BY <1>2, <1>t, <2>1, <2>2, <2>r DEF RowOK
<1>6. \A v, w \in t.shown :
        IsRow(t.widgets[v]) /\ IsRow(t.widgets[w]) /\ t.widgets[v].call = t.widgets[w].call => v = w
  <2>1. t.shown \subseteq DOMAIN t.widgets
    BY <1>1 DEF ScreenOK
  <2>2. \A v, w \in screen.shown :
          IsRow(screen.widgets[v]) /\ IsRow(screen.widgets[w]) /\ screen.widgets[v].call = screen.widgets[w].call => v = w
    BY DEF TranscriptInv, RowsOK
  <2>. QED
    BY <1>4, <2>1, <2>2
<1>. QED
  BY <1>3, <1>5, <1>6, <1>t DEF RowsOK

\* A turn that is over.
LEMMA ClosesKeeps ==
  ASSUME TranscriptInv, NEW q \in Nat, NEW x, ScreenOK(x, q, Len(idOf)), RowsAlike(x),
         screen' = CloseTurn(x), turnOf' = Idle, cut' = FALSE, pieces' = q,
         idOf' = idOf, results' = results, past' = past, again' = again, owned' = owned,
         HistoryOK(stored', q, Len(idOf)), since' \in 1..Len(stored') + 1,
         ~again => InOrder(x),
         \A i \in since'..Len(stored') : \A p \in ToSet(stored'[i].text) \ {0} : Visible(x, p)
  PROVE  TranscriptInv'
<1>m. PICK m : m = Len(idOf)
  OBVIOUS
<1>t. PICK t : t = screen'
  OBVIOUS
<1>0. m \in Nat /\ ScreenOK(x, q, m) /\ ~x.closed /\ t = CloseTurn(x) /\ x.shown \subseteq DOMAIN x.widgets
  BY <1>m, <1>t, InvHas DEF RowsAlike, ScreenOK
<1>1. /\ ScreenOK(t, q, m) /\ t.closed /\ t.current = 0 /\ t.replies = <<>>
      /\ DOMAIN x.widgets \subseteq DOMAIN t.widgets /\ x.shown \subseteq t.shown
      /\ \A w \in t.shown : w \in DOMAIN x.widgets => w \in x.shown
      /\ \A w \in DOMAIN t.widgets : w \notin DOMAIN x.widgets => t.widgets[w].kind = "badge"
      /\ \A w \in DOMAIN x.widgets :
           /\ t.widgets[w].kind = x.widgets[w].kind
           /\ w \notin Unfinished(x) => t.widgets[w] = x.widgets[w]
  BY <1>0, CloseTurnIs
<1>2. /\ turnOf' \in Turns /\ turnOf'.phase = "idle" /\ turnOf'.going = <<>> /\ turnOf'.todo = <<>> /\ turnOf'.text = <<>> /\ turnOf'.prose = <<>>
      /\ ToSet(turnOf'.going) = {} /\ ToSet(turnOf'.todo) = {} /\ Rising(<<>>) /\ <<>> \in Seq(1..q)
  BY IdleIs
<1>3. TurnOK'
  <2>1. owned \in BOOLEAN /\ again \in BOOLEAN
    BY DEF TranscriptInv, TurnOK
  <2>2. t.closed = TRUE
    BY <1>1 DEF ScreenOK
  <2>. QED
    BY <1>1, <1>2, <1>t, <2>1, <2>2 DEF TurnOK
<1>4. CallsOK'
  <2>1. idOf \in Seq(Nat) /\ past \in 0..Len(idOf) /\ DOMAIN results \subseteq 1..Len(idOf)
    BY DEF TranscriptInv, CallsOK
  <2>. QED
    BY <1>2, <2>1, IdleIs DEF CallsOK, Pending
<1>5. StoredOK'
  <2>1. Unanswered(stored', Pending')
    BY <1>2 DEF Unanswered, Pending
  <2>. QED
    BY <1>2, <2>1 DEF StoredOK
<1>6. RowsOK'
  BY ClosedRows
<1>7. ReplyOK'
  BY <1>1, <1>2, <1>t DEF ReplyOK
<1>8. \A w \in DOMAIN t.widgets : IsText(t.widgets[w]) => w \in DOMAIN x.widgets /\ t.widgets[w] = x.widgets[w]
  <2>1. ASSUME NEW w \in DOMAIN t.widgets, IsText(t.widgets[w])
        PROVE  w \in DOMAIN x.widgets /\ t.widgets[w] = x.widgets[w]
    <3>1. w \in DOMAIN x.widgets
      BY <1>1, <2>1 DEF IsText
    <3>2. w \notin Unfinished(x)
      BY <1>1, <2>1, <3>1 DEF IsText, Unfinished, Running
    <3>. QED
      BY <1>1, <3>1, <3>2
  <2>. QED
    BY <2>1
<1>9. \A w \in DOMAIN x.widgets : IsText(x.widgets[w]) => IsText(t.widgets[w]) /\ t.widgets[w] = x.widgets[w]
  BY <1>1 DEF IsText, Unfinished, Running
<1>10. ShownOK'
  <2>1. ASSUME ~again
        PROVE  InOrder(t)
    <3>1. InOrder(x) /\ t.shown \subseteq DOMAIN t.widgets
      BY <1>1, <2>1 DEF ScreenOK
    <3>2. \A w \in t.shown : IsText(t.widgets[w]) => w \in x.shown /\ IsText(x.widgets[w]) /\ t.widgets[w] = x.widgets[w]
      BY <1>1, <1>8, <3>1
    <3>. QED
      BY <3>1, <3>2 DEF InOrder
  <2>2. \A p : Visible(x, p) => Visible(t, p)
    <3>1. \A w \in x.shown : IsText(x.widgets[w]) => IsText(t.widgets[w]) /\ t.widgets[w] = x.widgets[w]
      BY <1>0, <1>9
    <3>. QED
      BY <1>1, <3>1, VisibleMore
  <2>3. DOMAIN <<>> = {}
    OBVIOUS
  <2>. QED
    BY <1>1, <1>t, <2>1, <2>2, <2>3 DEF ShownOK
<1>. QED
  BY <1>1, <1>3, <1>4, <1>5, <1>6, <1>7, <1>10, <1>m, <1>t DEF TranscriptInv

\* A turn that ends without an answer.
LEMMA FailsKeeps ==
  ASSUME TranscriptInv, Fails
  PROVE  TranscriptInv'
<1>1. /\ turnOf.phase # "idle" /\ screen' = CloseTurn(screen) /\ turnOf' = Idle /\ cut' = FALSE
      /\ since' = (IF cut THEN Len(stored) + 1 ELSE since)
      /\ pieces' = pieces /\ idOf' = idOf /\ results' = results /\ past' = past /\ again' = again /\ owned' = owned /\ stored' = stored
  BY DEF Fails, In, conversation
<1>2. /\ ScreenOK(screen, pieces, Len(idOf)) /\ pieces \in Nat /\ Len(stored) \in Nat /\ since \in 1..Len(stored) + 1
      /\ HistoryOK(stored, pieces, Len(idOf))
  BY InvHas, PendingHas
<1>3. RowsAlike(screen)
  <2>1. screen.closed = FALSE
    BY <1>1, <1>2 DEF TranscriptInv, TurnOK, ScreenOK
  <2>. QED
    BY <2>1 DEF RowsAlike
<1>4. ~again => InOrder(screen)
  BY DEF TranscriptInv, ShownOK
<1>5. \A i \in since'..Len(stored) : \A p \in ToSet(stored[i].text) \ {0} : Visible(screen, p)
  <2>1. CASE cut
    BY <1>1, <1>2, <2>1
  <2>2. CASE ~cut
    BY <1>1, <2>2 DEF TranscriptInv, ShownOK
  <2>. QED
    BY <2>1, <2>2
<1>6. since' \in 1..Len(stored) + 1
  BY <1>1, <1>2
<1>. QED
  BY <1>1, <1>2, <1>3, <1>4, <1>5, <1>6, ClosesKeeps
-----------------------------------------------------------------------------
(* The answer of a turn *)

\* Window x shows the answer in widget k: the last reply, which it goes on, or a new one.
Told(x, k, answer) ==
  /\ k \in DOMAIN x.widgets /\ IsText(x.widgets[k]) /\ x.widgets[k].text = answer
  /\ DOMAIN screen.widgets \subseteq DOMAIN x.widgets
  /\ \A w \in DOMAIN x.widgets : w # k => w \in DOMAIN screen.widgets
  /\ \A w \in DOMAIN screen.widgets :
       /\ IsText(x.widgets[w]) <=> IsText(screen.widgets[w])
       /\ IsText(screen.widgets[w]) /\ w # k => x.widgets[w].text = screen.widgets[w].text
  /\ IF screen.replies # <<>> /\ screen.widgets[LastReply].text # <<>> /\ IsPrefix(screen.widgets[LastReply].text, answer)
     THEN k = LastReply /\ x.shown = screen.shown
     ELSE k = Len(screen.widgets) + 1 /\ x.shown = screen.shown \cup {k}

\* The window, once the turn is known to be over.
LEMMA BadgeIs ==
  ASSUME TranscriptInv, NEW s, s = [screen EXCEPT !.badge = TRUE]
  PROVE  /\ ScreenOK(s, pieces, Len(idOf)) /\ s.widgets = screen.widgets /\ s.shown = screen.shown
         /\ s.current = screen.current /\ s.replies = screen.replies /\ s.rows = screen.rows /\ s.closed = screen.closed
<1>1. ScreenOK(screen, pieces, Len(idOf)) /\ IsScreen(screen)
  BY InvHas
<1>2. DOMAIN screen = {"widgets", "shown", "current", "replies", "rows", "badge", "closed"}
  BY <1>1, ScreenHas
<1>3. /\ s.widgets = screen.widgets /\ s.shown = screen.shown /\ s.current = screen.current
      /\ s.replies = screen.replies /\ s.rows = screen.rows /\ s.badge = TRUE /\ s.closed = screen.closed
  BY <1>2
<1>4. IsScreen(s)
  <2>1. s = [i \in DOMAIN screen |-> s[i]]
    OBVIOUS
  <2>. QED
    BY <1>1, <2>1, ScreenIf
<1>. QED
  BY <1>1, <1>3, <1>4 DEF ScreenOK

\* The answer: what was said before the engine's own verification, and a piece of its own.
LEMMA AnswerIs ==
  ASSUME TranscriptInv, NEW q, q = pieces + 1, NEW answer, answer = Append(turnOf.prose, q)
  PROVE  /\ q \in Nat /\ pieces <= q /\ turnOf.prose \in Seq(Nat) /\ turnOf.prose \in TextsOf(pieces)
         /\ answer \in TextsOf(q) /\ answer \notin TextsOf(pieces) /\ Len(answer) = Len(turnOf.prose) + 1 /\ Len(turnOf.prose) \in Nat
         /\ answer[Len(answer)] = q /\ \A i \in 1..Len(turnOf.prose) : answer[i] = turnOf.prose[i]
         /\ ToSet(answer) = ToSet(turnOf.prose) \cup {q}
<1>p. PICK p : p = turnOf.prose
  OBVIOUS
<1>1. pieces \in Nat /\ p \in Seq(1..pieces) /\ p \in Seq(Nat)
  BY <1>p, InvHas DEF TranscriptInv, TurnOK, Turns
<1>2. p \in TextsOf(pieces)
  <2>1. 1..pieces \subseteq 0..pieces
    OBVIOUS
  <2>. QED
    BY <1>1, <2>1, SeqMore DEF TextsOf
<1>3. Append(p, q) \in TextsOf(q) /\ ToSet(Append(p, q)) = ToSet(p) \cup {q}
  <2>1. Append(p, q) \in TextsOf(q)
    <3>1. pieces \in Nat /\ p \in TextsOf(pieces) /\ q = pieces + 1
      BY <1>1, <1>2
    <3>. QED
      BY <3>1, PieceMore
  <2>2. ToSet(Append(p, q)) = ToSet(p) \cup {q}
    <3>1. Len(p) \in Nat /\ DOMAIN p = 1..Len(p) /\ DOMAIN Append(p, q) = 1..Len(p) + 1
          /\ Append(p, q)[Len(p) + 1] = q /\ \A i \in 1..Len(p) : Append(p, q)[i] = p[i]
      BY <1>1
    <3>2. \A i \in 1..Len(p) : i \in 1..Len(p) + 1
      BY <3>1
    <3>3. \A i \in 1..Len(p) + 1 : i \in 1..Len(p) \/ i = Len(p) + 1
      BY <3>1
    <3>4. Len(p) + 1 \in 1..Len(p) + 1
      BY <3>1
    <3>. QED
      BY <3>1, <3>2, <3>3, <3>4 DEF ToSet
  <2>. QED
    BY <2>1, <2>2
<1>4. /\ Len(Append(p, q)) = Len(p) + 1 /\ Len(p) \in Nat /\ Append(p, q)[Len(p) + 1] = q
      /\ \A i \in 1..Len(p) : Append(p, q)[i] = p[i]
  BY <1>1
<1>5. answer \notin TextsOf(pieces)
  <2>1. ASSUME answer \in TextsOf(pieces)
        PROVE  FALSE
    <3>0. answer \in Seq(0..pieces)
      BY <2>1 DEF TextsOf
    <3>1. Len(answer) \in 1..Len(answer) /\ answer[Len(answer)] = q
      BY <1>4, <1>p
    <3>2. answer[Len(answer)] \in 0..pieces
      BY <3>0, <3>1
    <3>. QED
      BY <1>1, <3>1, <3>2
  <2>. QED
    BY <2>1
<1>. QED
  BY <1>1, <1>2, <1>3, <1>4, <1>5, <1>p

\* The answer is shown.
LEMMA AnswerTold ==
  ASSUME TranscriptInv, turnOf.phase # "idle", NEW q, q = pieces + 1, NEW answer, answer = Append(turnOf.prose, q),
         NEW s, s = [screen EXCEPT !.badge = TRUE], NEW x, x = ShowAnswer(s, answer)
  PROVE  ScreenOK(x, q, Len(idOf)) /\ RowsAlike(x) /\ \E k : Told(x, k, answer)
<1>m. PICK m : m = Len(idOf)
  OBVIOUS
<1>W. PICK W : W = screen.widgets
  OBVIOUS
<1>0. pieces \in Nat /\ m \in Nat /\ m <= m /\ Len(W) \in Nat
  BY <1>m, <1>W, InvHas
<1>1. q \in Nat /\ pieces <= q /\ answer \in TextsOf(q) /\ answer \notin TextsOf(pieces)
  BY AnswerIs
<1>2. /\ ScreenOK(s, pieces, m) /\ s.widgets = W /\ s.shown = screen.shown
      /\ s.current = screen.current /\ s.replies = screen.replies /\ s.rows = screen.rows /\ s.closed = screen.closed
  BY <1>m, <1>W, BadgeIs
<1>3. ScreenOK(s, q, m)
  BY <1>0, <1>1, <1>2, ScreenMore
<1>4. TextOf(s, s.replies) # answer
  <2>1. TextOf(s, s.replies) \in TextsOf(pieces)
    BY <1>0, <1>2, TextOfAll
  <2>. QED
    BY <1>1, <2>1
<1>5. /\ WithAnswer(x, s, answer, q, m)
      /\ IF Continues(s, answer) THEN GoesOn(x, s, answer, Last(s.replies)) ELSE IsAdded(x, s, answer, Len(s.widgets) + 1)
  BY <1>0, <1>1, <1>3, <1>4, ShowAnswerIs
<1>6. Last(s.replies) = LastReply
  BY <1>2 DEF Last, LastReply
<1>7. s.replies # <<>> => LastReply \in DOMAIN W /\ W[LastReply].kind = "reply"
  <2>1. ASSUME s.replies # <<>>
        PROVE  Len(screen.replies) \in DOMAIN screen.replies
    <3>1. s.replies \in Seq(Nat)
      BY <1>2 DEF ScreenOK
    <3>. QED
      BY <1>2, <2>1, <3>1
  <2>. QED
    BY <1>2, <2>1 DEF LastReply, ScreenOK
<1>8. Continues(s, answer) <=> /\ screen.replies # <<>> /\ screen.widgets[LastReply].text # <<>>
                               /\ IsPrefix(screen.widgets[LastReply].text, answer)
  <2>1. ASSUME s.replies # <<>>
        PROVE  TextOf(s, <<Last(s.replies)>>) = screen.widgets[LastReply].text
    <3>k. PICK k : k = LastReply
      OBVIOUS
    <3>1. k \in DOMAIN s.widgets /\ s.widgets[k].kind \in {"user", "reply"}
      BY <1>2, <1>7, <2>1, <3>k
    <3>2. TextOf(s, <<k>>) = s.widgets[k].text
      BY TextOfOne
    <3>. QED
      BY <1>2, <1>6, <1>W, <3>2, <3>k
  <2>. QED
    BY <1>2, <2>1 DEF Continues
<1>9. /\ ScreenOK(x, q, m) /\ x.rows = screen.rows /\ x.closed = screen.closed /\ DOMAIN W = 1..Len(W)
      /\ \A w \in DOMAIN W : x.widgets[w].kind = W[w].kind /\ (W[w].kind = "row" => x.widgets[w] = W[w])
  BY <1>2, <1>5 DEF WithAnswer
<1>10. ~x.closed
  <2>1. screen.closed \in BOOLEAN /\ ~screen.closed
    BY InvHas DEF TranscriptInv, TurnOK, ScreenOK
  <2>. QED
    BY <1>9, <2>1
<1>11. CASE Continues(s, answer)
  <2>1. s.replies # <<>>
    BY <1>11 DEF Continues
  <2>k. PICK k : k = LastReply
    OBVIOUS
  <2>2. GoesOn(x, s, answer, k)
    BY <1>5, <1>6, <1>11, <2>k
  <2>3. /\ x.shown = screen.shown /\ DOMAIN x.widgets = DOMAIN W /\ x.widgets[k].text = answer
        /\ \A w \in DOMAIN W : w # k /\ W[w].kind \in {"user", "reply"} => x.widgets[w].text = W[w].text
    BY <1>2, <2>2 DEF GoesOn
  <2>4. k \in DOMAIN W /\ W[k].kind = "reply"
    BY <1>7, <2>1, <2>k
  <2>5. Told(x, k, answer)
    BY <1>8, <1>9, <1>11, <1>W, <2>3, <2>4, <2>k DEF Told, IsText
  <2>r1. \A w \in DOMAIN W : IsRow(W[w]) => w \in DOMAIN x.widgets /\ x.widgets[w] = W[w]
    BY <1>9, <2>3 DEF IsRow
  <2>r2. ASSUME NEW w \in DOMAIN x.widgets, IsRow(x.widgets[w])
         PROVE  w \in DOMAIN W /\ x.widgets[w] = W[w]
    <3>1. w \in DOMAIN W
      BY <2>3, <2>r2 DEF IsRow
    <3>2. x.widgets[w].kind = W[w].kind /\ (W[w].kind = "row" => x.widgets[w] = W[w])
      BY <1>9, <3>1
    <3>. QED
      BY <2>r2, <3>1, <3>2 DEF IsRow
  <2>r3. \A w \in x.shown : w \in DOMAIN W => w \in screen.shown
    BY <2>3
  <2>6. RowsAlike(x)
    BY <1>9, <1>10, <1>W, <2>r1, <2>r2, <2>r3 DEF RowsAlike
  <2>. QED
    BY <1>9, <1>m, <2>5, <2>6
<1>12. CASE ~Continues(s, answer)
  <2>k. PICK k : k = Len(W) + 1
    OBVIOUS
  <2>2. IsAdded(x, s, answer, k)
    BY <1>2, <1>5, <1>12, <2>k
  <2>3. /\ x.shown = screen.shown \cup {k} /\ DOMAIN x.widgets = 1..k /\ x.widgets[k].text = answer /\ x.widgets[k].kind = "reply"
        /\ \A w \in DOMAIN W : W[w].kind \in {"user", "reply"} => x.widgets[w].text = W[w].text
    BY <1>2, <2>2 DEF IsAdded
  <2>4. /\ k \in DOMAIN x.widgets /\ DOMAIN W \subseteq DOMAIN x.widgets /\ k \notin DOMAIN W
        /\ \A w \in DOMAIN x.widgets : w # k => w \in DOMAIN W
    <3>l. PICK l : l = Len(W)
      OBVIOUS
    <3>1. l \in Nat /\ k = l + 1 /\ DOMAIN W = 1..l /\ DOMAIN x.widgets = 1..k
      BY <1>0, <1>9, <2>3, <2>k, <3>l
    <3>2. k \in 1..k /\ 1..l \subseteq 1..k /\ k \notin 1..l /\ \A w \in 1..k : w # k => w \in 1..l
      BY <3>1
    <3>. QED
      BY <3>1, <3>2
  <2>5. Told(x, k, answer)
    BY <1>8, <1>9, <1>12, <1>W, <2>3, <2>4, <2>k DEF Told, IsText
  <2>r1. \A w \in DOMAIN W : IsRow(W[w]) => w \in DOMAIN x.widgets /\ x.widgets[w] = W[w]
    BY <1>9, <2>4 DEF IsRow
  <2>r2. ASSUME NEW w \in DOMAIN x.widgets, IsRow(x.widgets[w])
         PROVE  w \in DOMAIN W /\ x.widgets[w] = W[w]
    <3>1. w \in DOMAIN W
      BY <2>3, <2>4, <2>r2 DEF IsRow
    <3>2. x.widgets[w].kind = W[w].kind /\ (W[w].kind = "row" => x.widgets[w] = W[w])
      BY <1>9, <3>1
    <3>. QED
      BY <2>r2, <3>1, <3>2 DEF IsRow
  <2>r3. \A w \in x.shown : w \in DOMAIN W => w \in screen.shown
    BY <2>3, <2>4
  <2>6. RowsAlike(x)
    BY <1>9, <1>10, <1>W, <2>r1, <2>r2, <2>r3 DEF RowsAlike
  <2>. QED
    BY <1>9, <1>m, <2>5, <2>6
<1>. QED
  BY <1>11, <1>12

\* The reply that the answer goes on is the text before the engine's own verification, and if
\* there is none, nor is there such a text.
LEMMA AnswerGoesOn ==
  ASSUME TranscriptInv, turnOf.phase # "idle", ~again, NEW q, q = pieces + 1, NEW answer, answer = Append(turnOf.prose, q)
  PROVE  IF screen.replies # <<>> /\ screen.widgets[LastReply].text # <<>> /\ IsPrefix(screen.widgets[LastReply].text, answer)
         THEN turnOf.prose = screen.widgets[LastReply].text
         ELSE turnOf.prose = <<>>
<1>1. /\ turnOf.prose \in Seq(Nat) /\ answer[Len(answer)] = q /\ Len(turnOf.prose) \in Nat /\ Len(answer) = Len(turnOf.prose) + 1
      /\ \A i \in 1..Len(turnOf.prose) : answer[i] = turnOf.prose[i]
  BY AnswerIs
<1>2. turnOf.prose # <<>> => screen.replies # <<>> /\ screen.widgets[LastReply].text = turnOf.prose
  BY DEF TranscriptInv, ReplyOK
<1>3. CASE turnOf.prose # <<>>
  <2>p. PICK p : p = turnOf.prose
    OBVIOUS
  <2>1. p \in Seq(Nat) /\ Len(p) \in Nat /\ answer = Append(p, q)
    BY <1>1, <2>p
  <2>2. Len(p) <= Len(answer) /\ SubSeq(p, 1, Len(p)) = SubSeq(answer, 1, Len(p))
    <3>1. SubSeq(p, 1, Len(p)) = [i \in 1..Len(p) |-> p[i]] /\ SubSeq(answer, 1, Len(p)) = [i \in 1..Len(p) |-> answer[i]]
      BY <2>1
    <3>. QED
      BY <1>1, <2>p, <3>1
  <2>3. IsPrefix(p, answer)
    BY <2>2 DEF IsPrefix
  <2>. QED
    BY <1>2, <1>3, <2>3, <2>p
<1>4. CASE turnOf.prose = <<>>
  <2>1. ASSUME screen.replies # <<>>, screen.widgets[LastReply].text # <<>>, IsPrefix(screen.widgets[LastReply].text, answer)
        PROVE  FALSE
    <3>u. PICK u : u = screen.widgets[LastReply].text
      OBVIOUS
    <3>1. u \in TextsOf(pieces) /\ pieces \in Nat
      <4>0. screen.replies \in Seq(Nat) /\ \A k \in DOMAIN screen.replies : screen.replies[k] \in DOMAIN screen.widgets /\ screen.widgets[screen.replies[k]].kind = "reply"
        BY DEF TranscriptInv, ScreenOK
      <4>1. Len(screen.replies) \in DOMAIN screen.replies
        BY <2>1, <4>0
      <4>2. LastReply \in DOMAIN screen.widgets /\ IsText(screen.widgets[LastReply])
        BY <4>0, <4>1 DEF LastReply, IsText
      <4>. QED
        BY <4>2, <3>u, InvHas
    <3>2. u \in Seq(0..pieces) /\ u # <<>> /\ Len(u) \in Nat /\ Len(u) # 0
      BY <2>1, <3>1, <3>u DEF TextsOf
    <3>3. Len(u) <= Len(answer) /\ SubSeq(u, 1, Len(u)) = SubSeq(answer, 1, Len(u))
      BY <2>1, <3>u DEF IsPrefix
    <3>4. Len(answer) = 1 /\ answer[1] = q /\ Len(u) = 1 /\ answer = <<q>>
      BY <1>1, <1>4, <3>2, <3>3
    <3>5. SubSeq(u, 1, Len(u))[1] = u[1] /\ u[1] \in 0..pieces
      <4>1. 1 \in DOMAIN u /\ 1 \in 1..Len(u)
        BY <3>2, <3>4
      <4>T. PICK T : T = 0..pieces
        OBVIOUS
      <4>2. u[1] \in T
        <5>1. u \in Seq(T)
          BY <3>2, <4>T
        <5>. QED
          BY <4>1, <5>1
      <4>3. SubSeq(u, 1, Len(u)) = u
        BY <3>2
      <4>. QED
        BY <4>2, <4>3, <4>T
    <3>6. SubSeq(answer, 1, Len(u))[1] = q
      BY <3>4, <1>1, AnswerIs
    <3>. QED
      BY <3>1, <3>3, <3>4, <3>5, <3>6
  <2>. QED
    BY <1>4, <2>1
<1>. QED
  BY <1>3, <1>4
\* The answer comes after what is shown.
LEMMA AnswerInOrder ==
  ASSUME TranscriptInv, turnOf.phase # "idle", ~again, NEW q, q = pieces + 1, NEW answer, answer = Append(turnOf.prose, q),
         NEW x, x.shown \subseteq DOMAIN x.widgets, NEW k, Told(x, k, answer)
  PROVE  InOrder(x)
<1>W. PICK W : W = screen.widgets
  OBVIOUS
<1>l. PICK l : l = Len(W)
  OBVIOUS
<1>1. /\ InOrder(screen) /\ l \in Nat /\ DOMAIN W = 1..l /\ pieces \in Nat /\ screen.shown \subseteq DOMAIN W
      /\ \A w \in DOMAIN W : IsText(W[w]) => W[w].text \in TextsOf(pieces)
  <2>1. InOrder(screen)
    BY DEF TranscriptInv, ShownOK
  <2>. QED
    BY <2>1, <1>W, <1>l, InvHas
<1>2. /\ k \in DOMAIN x.widgets /\ IsText(x.widgets[k]) /\ x.widgets[k].text = answer
      /\ \A w \in DOMAIN x.widgets : w # k => w \in DOMAIN W
      /\ \A w \in DOMAIN W : /\ IsText(x.widgets[w]) <=> IsText(W[w])
                             /\ IsText(W[w]) /\ w # k => x.widgets[w].text = W[w].text
  BY <1>W DEF Told
<1>3. /\ k \in Nat
      /\ \A w \in x.shown : IsText(x.widgets[w]) => w = k \/ (w < k /\ w \in screen.shown /\ IsText(W[w]) /\ x.widgets[w].text = W[w].text)
      /\ k \in x.shown => /\ Rising(answer)
                          /\ \A w \in screen.shown : w < k /\ IsText(W[w]) => Before(W[w].text, answer)
  <2>1. CASE screen.replies # <<>> /\ screen.widgets[LastReply].text # <<>> /\ IsPrefix(screen.widgets[LastReply].text, answer)
    <3>1. k = LastReply /\ x.shown = screen.shown /\ turnOf.prose = W[k].text
      BY <2>1, <1>W, AnswerGoesOn DEF Told
    <3>2. LastReply \in DOMAIN W /\ \A v \in DOMAIN W : IsText(W[v]) => v <= LastReply
      <4>1. screen.replies \in Seq(Nat) /\ \A i \in DOMAIN screen.replies : screen.replies[i] \in DOMAIN screen.widgets
        BY DEF TranscriptInv, ScreenOK
      <4>2. Len(screen.replies) \in DOMAIN screen.replies
        BY <2>1, <4>1
      <4>. QED
        BY <2>1, <4>1, <4>2, <1>W DEF LastReply, TranscriptInv, ReplyOK
    <3>3. k \in Nat /\ k \in DOMAIN W /\ \A v \in DOMAIN W : v \in Nat /\ (IsText(W[v]) => v <= k)
      BY <1>1, <3>1, <3>2
    <3>4. \A w \in x.shown : IsText(x.widgets[w]) => w = k \/ (w < k /\ w \in screen.shown /\ IsText(W[w]) /\ x.widgets[w].text = W[w].text)
      BY <1>1, <1>2, <3>1, <3>3
    <3>u. PICK u : u = W[k].text
      OBVIOUS
    <3>5. u \in TextsOf(pieces) /\ answer = Append(u, q) /\ IsText(W[k])
      BY <1>1, <1>2, <3>1, <3>3, <3>u
    <3>6. k \in x.shown => Rising(u) /\ \A w \in screen.shown : w < k /\ IsText(W[w]) => Before(W[w].text, u)
      BY <1>1, <1>W, <3>1, <3>5, <3>u DEF InOrder
    <3>7. (Rising(u) => Rising(answer)) /\ \A v \in TextsOf(pieces) : Before(v, u) => Before(v, answer)
      <4>1. pieces \in Nat /\ u \in TextsOf(pieces)
        BY <1>1, <3>5
      <4>2. (Rising(u) => Rising(Append(u, q))) /\ \A v \in TextsOf(pieces) : Before(v, u) => Before(v, Append(u, q))
        BY <4>1, PieceMore
      <4>. QED
        BY <3>5, <4>2
    <3>8. \A w \in screen.shown : w < k /\ IsText(W[w]) => W[w].text \in TextsOf(pieces)
      BY <1>1
    <3>. QED
      BY <3>3, <3>4, <3>6, <3>7, <3>8
  <2>2. CASE ~(screen.replies # <<>> /\ screen.widgets[LastReply].text # <<>> /\ IsPrefix(screen.widgets[LastReply].text, answer))
    <3>1. k = l + 1 /\ x.shown = screen.shown \cup {k}
      BY <2>2, <1>W, <1>l DEF Told
    <3>2. turnOf.prose = <<>>
      BY <2>2, AnswerGoesOn
    <3>3. answer = <<q>>
      BY <3>2
    <3>4. k \in Nat /\ \A v \in DOMAIN W : v < k /\ v # k
      BY <1>1, <3>1
    <3>5. \A w \in x.shown : IsText(x.widgets[w]) => w = k \/ (w < k /\ w \in screen.shown /\ IsText(W[w]) /\ x.widgets[w].text = W[w].text)
      BY <1>1, <1>2, <3>1, <3>4
    <3>6. Rising(answer) /\ \A u \in TextsOf(pieces) : Before(u, answer)
      BY <1>1, <3>3, PieceAlone
    <3>. QED
      BY <1>1, <3>4, <3>5, <3>6
  <2>. QED
    BY <2>1, <2>2
<1>4. x.shown \subseteq Nat /\ screen.shown \subseteq Nat
  <2>1. DOMAIN W \subseteq Nat
    BY <1>1
  <2>. QED
    BY <1>1, <1>2, <1>3, <2>1
<1>5. \A w \in x.shown : IsText(x.widgets[w]) =>
        w = k \/ (w < k /\ w \in screen.shown /\ IsText(screen.widgets[w]) /\ x.widgets[w].text = screen.widgets[w].text)
  BY <1>3, <1>W
<1>6. k \in x.shown /\ IsText(x.widgets[k]) =>
        /\ Rising(x.widgets[k].text)
        /\ \A w \in screen.shown : w < k /\ IsText(screen.widgets[w]) => Before(screen.widgets[w].text, x.widgets[k].text)
  BY <1>2, <1>3, <1>W
<1>. QED
  BY <1>1, <1>3, <1>4, <1>5, <1>6, OrderMore

\* What is on the screen stays there when the answer is shown, and the answer is on it.
LEMMA AnswerSeen ==
  ASSUME TranscriptInv, turnOf.phase # "idle", ~cut, NEW q, q = pieces + 1, NEW answer, answer = Append(turnOf.prose, q),
         NEW x, NEW k, Told(x, k, answer)
  PROVE  Visible(x, q) /\ \A p : Visible(screen, p) => Visible(x, p)
<1>1. /\ k \in DOMAIN x.widgets /\ IsText(x.widgets[k]) /\ x.widgets[k].text = answer
      /\ \A w \in DOMAIN screen.widgets : /\ IsText(x.widgets[w]) <=> IsText(screen.widgets[w])
                                          /\ IsText(screen.widgets[w]) /\ w # k => x.widgets[w].text = screen.widgets[w].text
  BY DEF Told
<1>2. q \in ToSet(answer) /\ answer \in TextsOf(q)
  <2>1. ToSet(answer) = ToSet(turnOf.prose) \cup {q} /\ answer \in TextsOf(q)
    BY AnswerIs
  <2>. QED
    BY <2>1
<1>3. screen.shown \subseteq DOMAIN screen.widgets /\ Len(screen.widgets) \in Nat /\ DOMAIN screen.widgets = 1..Len(screen.widgets)
  BY InvHas
<1>4. /\ k \in x.shown /\ screen.shown \subseteq x.shown
      /\ k \in screen.shown => ToSet(screen.widgets[k].text) \subseteq ToSet(answer)
  <2>1. CASE screen.replies # <<>> /\ screen.widgets[LastReply].text # <<>> /\ IsPrefix(screen.widgets[LastReply].text, answer)
    <3>1. k = LastReply /\ x.shown = screen.shown
      BY <2>1 DEF Told
    <3>2. k \in screen.shown /\ IsText(screen.widgets[k])
      <4>1. screen.replies \in Seq(Nat) /\ \A i \in DOMAIN screen.replies : screen.widgets[screen.replies[i]].kind = "reply"
        BY DEF TranscriptInv, ScreenOK
      <4>2. Len(screen.replies) \in DOMAIN screen.replies
        BY <2>1, <4>1
      <4>3. \A i \in DOMAIN screen.replies : screen.replies[i] \in screen.shown
        BY DEF TranscriptInv, ShownOK
      <4>. QED
        BY <3>1, <4>1, <4>2, <4>3 DEF LastReply, IsText
    <3>u. PICK u : u = screen.widgets[k].text
      OBVIOUS
    <3>3. u \in TextsOf(pieces) /\ IsPrefix(u, answer)
      BY <1>3, <2>1, <3>1, <3>2, <3>u, InvHas
    <3>4. ToSet(u) \subseteq ToSet(answer)
      <4>1. u \in Seq(0..pieces) /\ answer \in Seq(0..q) /\ Len(u) \in Nat /\ Len(answer) \in Nat
        BY <1>2, <3>3 DEF TextsOf
      <4>2. Len(u) <= Len(answer) /\ SubSeq(u, 1, Len(u)) = SubSeq(answer, 1, Len(u))
        BY <3>3 DEF IsPrefix
      <4>3. SubSeq(u, 1, Len(u)) = [i \in 1..Len(u) |-> u[i]] /\ SubSeq(answer, 1, Len(u)) = [i \in 1..Len(u) |-> answer[i]]
        BY <4>1, <4>2
      <4>4. \A i \in 1..Len(u) : u[i] = answer[i] /\ i \in 1..Len(answer)
        <5>1. \A i \in 1..Len(u) : [j \in 1..Len(u) |-> u[j]][i] = [j \in 1..Len(u) |-> answer[j]][i]
          BY <4>2, <4>3
        <5>2. 1..Len(u) \subseteq 1..Len(answer)
          BY <4>1, <4>2
        <5>. QED
          BY <5>1, <5>2
      <4>5. DOMAIN u = 1..Len(u) /\ DOMAIN answer = 1..Len(answer)
        BY <4>1
      <4>. QED
        BY <4>4, <4>5 DEF ToSet
    <3>. QED
      BY <3>1, <3>2, <3>4, <3>u
  <2>2. CASE ~(screen.replies # <<>> /\ screen.widgets[LastReply].text # <<>> /\ IsPrefix(screen.widgets[LastReply].text, answer))
    <3>1. k = Len(screen.widgets) + 1 /\ x.shown = screen.shown \cup {k}
      BY <2>2 DEF Told
    <3>2. k \notin DOMAIN screen.widgets
      BY <1>3, <3>1
    <3>. QED
      BY <1>3, <3>1, <3>2
  <2>. QED
    BY <2>1, <2>2
<1>5. Visible(x, q)
  BY <1>1, <1>2, <1>4 DEF Visible
<1>6. \A w \in screen.shown : IsText(screen.widgets[w]) => IsText(x.widgets[w]) /\ ToSet(screen.widgets[w].text) \subseteq ToSet(x.widgets[w].text)
  BY <1>1, <1>3, <1>4
<1>7. \A p : Visible(screen, p) => Visible(x, p)
  BY <1>4, <1>6, VisibleMore
<1>. QED
  BY <1>5, <1>7

\* A turn that ends with an answer.
LEMMA FinishesKeeps ==
  ASSUME TranscriptInv, Finishes
  PROVE  TranscriptInv'
<1>q. PICK q : q = pieces + 1
  OBVIOUS
<1>m. PICK m : m = Len(idOf)
  OBVIOUS
<1>a. PICK answer : answer = Append(turnOf.prose, q)
  OBVIOUS
<1>s. PICK s : s = [screen EXCEPT !.badge = TRUE]
  OBVIOUS
<1>x. PICK x : x = ShowAnswer(s, answer)
  OBVIOUS
<1>g. PICK g : g = stored'
  OBVIOUS
<1>1. /\ turnOf.phase # "idle" /\ screen' = CloseTurn(x) /\ turnOf' = Idle /\ cut' = FALSE /\ pieces' = q
      /\ g = (IF owned THEN Append(stored, Entry("assistant", <<q>>, 0)) ELSE stored)
      /\ since' = (IF cut THEN Len(g) + 1 ELSE since)
      /\ idOf' = idOf /\ results' = results /\ past' = past /\ again' = again /\ owned' = owned
  <2>1. turnOf.phase # "idle"
    BY DEF Finishes, In
  <2>. QED
    BY <2>1, <1>q, <1>a, <1>s, <1>x, <1>g DEF Finishes
<1>2. /\ pieces \in Nat /\ Len(stored) \in Nat /\ since \in 1..Len(stored) + 1 /\ DOMAIN stored = 1..Len(stored)
      /\ \A i \in DOMAIN stored : stored[i].text \in TextsOf(pieces)
  BY InvHas
<1>h. HistoryOK(stored, pieces, m) /\ m \in Nat
  BY <1>m, PendingHas
<1>3. q \in Nat /\ pieces <= q
  BY <1>2, <1>q
<1>4. ScreenOK(x, q, m) /\ RowsAlike(x)
  BY <1>1, <1>a, <1>m, <1>q, <1>s, <1>x, AnswerTold
<1>k. PICK k : Told(x, k, answer)
  BY <1>1, <1>a, <1>q, <1>s, <1>x, AnswerTold
<1>5. HistoryOK(stored, q, m)
  BY <1>2, <1>3, <1>h, HistoryMore
<1>6. /\ HistoryOK(g, q, m) /\ DOMAIN g = 1..Len(g) /\ Len(g) \in Nat /\ Len(stored) <= Len(g)
      /\ \A i \in DOMAIN g : (i \in DOMAIN stored /\ g[i] = stored[i]) \/ ToSet(g[i].text) = {q}
  <2>1. CASE owned
    <3>e. PICK e : e = Entry("assistant", <<q>>, 0)
      OBVIOUS
    <3>a. /\ <<q>> \in TextsOf(q) /\ Rising(<<q>>) /\ ToSet(<<q>>) = {q}
          /\ \A u \in TextsOf(pieces) : Before(u, <<q>>)
      BY <1>2, <1>q, PieceAlone
    <3>1. e.role = "assistant" /\ e.text = <<q>> /\ e.call = 0 /\ e \in Entries(q, m)
      BY <1>h, <3>a, <3>e DEF Entry, Entries
    <3>2. EntryOK(e) /\ Rising(e.text) /\ ~IsTool(e)
      BY <3>1, <3>a DEF EntryOK, IsTool
    <3>3. AllBefore(stored, e.text)
      BY <1>2, <3>1, <3>a DEF AllBefore
    <3>4. \A i \in DOMAIN stored : IsTool(stored[i]) /\ IsTool(e) => stored[i].call # e.call
      BY <3>2
    <3>5. g = Append(stored, e)
      BY <1>1, <2>1, <3>e
    <3>6. /\ HistoryOK(Append(stored, e), q, m) /\ Len(Append(stored, e)) = Len(stored) + 1 /\ Len(stored) \in Nat
          /\ DOMAIN stored = 1..Len(stored) /\ DOMAIN Append(stored, e) = 1..Len(stored) + 1
          /\ Append(stored, e)[Len(stored) + 1] = e /\ (\A i \in DOMAIN stored : Append(stored, e)[i] = stored[i])
          /\ \A i \in DOMAIN Append(stored, e) : i \in DOMAIN stored \/ i = Len(stored) + 1
      BY <1>3, <1>5, <1>h, <3>1, <3>2, <3>3, <3>4, EntryMore
    <3>. QED
      BY <3>1, <3>5, <3>6, <3>a
  <2>2. CASE ~owned
    BY <1>1, <1>2, <1>5, <2>2
  <2>. QED
    BY <2>1, <2>2
<1>7. since' \in 1..Len(g) + 1
  BY <1>1, <1>2, <1>6
<1>8. ~again => InOrder(x)
  <2>1. x.shown \subseteq DOMAIN x.widgets
    BY <1>4 DEF ScreenOK
  <2>. QED
    BY <1>1, <1>a, <1>k, <1>q, <2>1, AnswerInOrder
<1>9. \A i \in since'..Len(g) : \A p \in ToSet(g[i].text) \ {0} : Visible(x, p)
  <2>1. CASE cut
    BY <1>1, <1>6, <2>1
  <2>2. CASE ~cut
    <3>1. Visible(x, q) /\ \A p : Visible(screen, p) => Visible(x, p)
      BY <1>1, <1>a, <1>k, <1>q, <2>2, AnswerSeen
    <3>2. \A i \in DOMAIN g : (i \in DOMAIN stored /\ g[i] = stored[i]) \/ \A p \in ToSet(g[i].text) \ {0} : Visible(x, p)
      BY <1>6, <3>1
    <3>3. since' = since
      BY <1>1, <2>2
    <3>4. \A i \in since..Len(g) : \A p \in ToSet(g[i].text) \ {0} : Visible(x, p)
      BY <1>6, <2>2, <3>1, <3>2, SeenMore
    <3>. QED
      BY <3>3, <3>4
  <2>. QED
    BY <2>1, <2>2
<1>. QED
  BY <1>1, <1>3, <1>4, <1>6, <1>7, <1>8, <1>9, <1>g, <1>m, ClosesKeeps
-----------------------------------------------------------------------------
(* Screens that are cleared and conversations that are resumed *)

\* Ctrl+L: rows that run are still found.
LEMMA ClearedRows ==
  ASSUME TranscriptInv, Clear
  PROVE  RowsOK'
<1>t. PICK t : t = screen'
  OBVIOUS
<1>m. PICK m : m = Len(idOf)
  OBVIOUS
<1>1. t = Cleared(screen) /\ turnOf' = turnOf /\ idOf' = idOf /\ results' = results /\ past' = past
  BY <1>t DEF Clear, conversation
<1>2. ScreenOK(screen, pieces, m) /\ pieces \in Nat /\ m \in Nat
  BY <1>m, InvHas
<1>3. /\ t.widgets = screen.widgets /\ t.shown = {}
      /\ \A i : i \in DOMAIN t.rows <=> i \in DOMAIN screen.rows /\ screen.rows[i] \in Running(screen)
      /\ \A i \in DOMAIN t.rows : t.rows[i] = screen.rows[i]
  BY <1>1, <1>2, ClearedIs
<1>4. Awaited' = Awaited
  BY <1>1 DEF Awaited
<1>5. \A i \in DOMAIN screen.rows : screen.rows[i] \in DOMAIN screen.widgets
  BY <1>2 DEF ScreenOK
<1>6. ASSUME NEW i \in DOMAIN screen.rows, IsRow(screen.widgets[screen.rows[i]]), screen.widgets[screen.rows[i]].result = "running"
      PROVE  i \in DOMAIN t.rows /\ t.rows[i] = screen.rows[i]
  <2>1. screen.rows[i] \in Running(screen)
    BY <1>5, <1>6 DEF Running, IsRow
  <2>. QED
    BY <1>3, <2>1
<1>7. ASSUME NEW w \in DOMAIN t.widgets, IsRow(t.widgets[w])
      PROVE  RowOK(w)'
  <2>r. PICK line : line = screen.widgets[w]
    OBVIOUS
  <2>1. w \in DOMAIN screen.widgets /\ IsRow(line) /\ t.widgets[w] = line /\ w \notin t.shown
    BY <1>3, <1>7, <2>r
  <2>2. /\ line.of = line.call
        /\ line.result \in {"ok", "failed"} => line.call \in DOMAIN results /\ results[line.call] = line.result
        /\ line.result = "running" =>
             /\ idOf[line.call] \in DOMAIN screen.rows /\ screen.rows[idOf[line.call]] = w
             /\ turnOf.phase \in {"tools", "ending"} /\ (turnOf.phase = "tools" => line.call \in Awaited)
    BY <2>1, <2>r DEF TranscriptInv, RowsOK, RowOK
  <2>3. line.result = "running" => idOf[line.call] \in DOMAIN t.rows /\ t.rows[idOf[line.call]] = w
    BY <1>6, <2>1, <2>2, <2>r
  <2>. QED
    BY <1>1, <1>4, <1>t, <2>1, <2>2, <2>3 DEF RowOK
<1>8. ASSUME NEW c \in Awaited
      PROVE  /\ idOf[c] \in DOMAIN t.rows
             /\ LET line == t.widgets[t.rows[idOf[c]]] IN IsRow(line) /\ line.call = c /\ line.result = "running"
  <2>i. PICK i : i = idOf[c]
    OBVIOUS
  <2>1. i \in DOMAIN screen.rows /\ IsRow(screen.widgets[screen.rows[i]]) /\ screen.widgets[screen.rows[i]].call = c
        /\ screen.widgets[screen.rows[i]].result = "running"
    BY <1>8, <2>i DEF TranscriptInv, RowsOK
  <2>2. i \in DOMAIN t.rows /\ t.rows[i] = screen.rows[i]
    BY <1>6, <2>1
  <2>. QED
    BY <1>3, <2>1, <2>2, <2>i
<1>9. \A w \in DOMAIN t.widgets : IsRow(t.widgets[w]) => RowOK(w)'
  BY <1>7
<1>. QED
  BY <1>1, <1>3, <1>4, <1>8, <1>9, <1>t DEF RowsOK

\* Ctrl+L: nothing is on the screen, and nothing is due on it.
LEMMA ClearKeeps ==
  ASSUME TranscriptInv, Clear
  PROVE  TranscriptInv'
<1>t. PICK t : t = screen'
  OBVIOUS
<1>m. PICK m : m = Len(idOf)
  OBVIOUS
<1>1. /\ t = Cleared(screen) /\ since' = Len(stored) + 1 /\ cut' = ~In("idle") /\ turnOf' = turnOf
      /\ stored' = stored /\ idOf' = idOf /\ owned' = owned /\ results' = results /\ pieces' = pieces /\ past' = past /\ again' = again
  BY <1>t DEF Clear, conversation
<1>2. ScreenOK(screen, pieces, m) /\ pieces \in Nat /\ m \in Nat /\ Len(stored) \in Nat
  BY <1>m, InvHas
<1>3. /\ ScreenOK(t, pieces, m) /\ t.widgets = screen.widgets /\ t.shown = {} /\ t.current = screen.current /\ t.replies = screen.replies
      /\ t.closed = screen.closed
  BY <1>1, <1>2, ClearedIs
<1>4. TurnOK'
  <2>1. cut' \in BOOLEAN /\ (turnOf.phase = "idle" => ~cut')
    BY <1>1 DEF In
  <2>. QED
    BY <1>1, <1>3, <1>t, <2>1 DEF TranscriptInv, TurnOK
<1>5. CallsOK'
  BY <1>1 DEF TranscriptInv, CallsOK, Pending
<1>6. StoredOK'
  <2>1. since' \in 1..Len(stored) + 1
    BY <1>1, <1>2
  <2>. QED
    BY <1>1, <2>1 DEF TranscriptInv, StoredOK, Pending
<1>7. RowsOK'
  BY ClearedRows
<1>8. ReplyOK'
  BY <1>1, <1>3, <1>t DEF TranscriptInv, ReplyOK, LastReply
<1>9. ShownOK'
  <2>1. InOrder(t)
    BY <1>3 DEF InOrder
  <2>2. ~cut' => screen.current = 0 /\ screen.replies = <<>>
    BY <1>1 DEF In, TranscriptInv, TurnOK
  <2>3. since'..Len(stored) = {}
    BY <1>1, <1>2
  <2>4. DOMAIN <<>> = {}
    OBVIOUS
  <2>. QED
    BY <1>1, <1>3, <1>t, <2>1, <2>2, <2>3, <2>4 DEF ShownOK
<1>. QED
  BY <1>1, <1>3, <1>4, <1>5, <1>6, <1>7, <1>8, <1>9, <1>m, <1>t DEF TranscriptInv

\* The rows of a window in which nothing runs
RowsRest(s) ==
  \A w \in DOMAIN s.widgets : IsRow(s.widgets[w]) =>
    /\ s.widgets[w].of = s.widgets[w].call /\ s.widgets[w].result # "running"
    /\ s.widgets[w].result \in {"ok", "failed"} => s.widgets[w].call \in DOMAIN results /\ results[s.widgets[w].call] = s.widgets[w].result

\* Of what is told, a call has one row.
LEMMA RetoldRows ==
  ASSUME TranscriptInv, NEW s, RowsRest(s), NEW k, Retold(screen', s, stored, k), screen'.shown \subseteq DOMAIN screen'.widgets,
         DOMAIN screen'.widgets \subseteq Nat, turnOf' = Idle, results' = results
  PROVE  RowsOK'
<1>t. PICK t : t = screen'
  OBVIOUS
<1>1. /\ \A w \in DOMAIN s.widgets : w \notin t.shown /\ t.widgets[w] = s.widgets[w]
      /\ \A w \in DOMAIN t.widgets : w \notin DOMAIN s.widgets => w \in t.shown
      /\ \A w \in t.shown : \E a \in k + 1..Len(stored) : Tells(t.widgets[w], stored[a])
      /\ \A v, w \in t.shown : v < w =>
           \E a, b \in k + 1..Len(stored) : a < b /\ Tells(t.widgets[v], stored[a]) /\ Tells(t.widgets[w], stored[b])
      /\ t.shown \subseteq DOMAIN t.widgets /\ t.shown \subseteq Nat /\ k \in 0..Len(stored)
  BY <1>t DEF Retold
<1>2. turnOf'.going = <<>> /\ turnOf'.todo = <<>> /\ ToSet(<<>>) = {}
  BY IdleIs
<1>3. Awaited' = {}
  BY <1>2 DEF Awaited
<1>4. ASSUME NEW w \in DOMAIN t.widgets, IsRow(t.widgets[w])
      PROVE  RowOK(w)'
  <2>r. PICK line : line = t.widgets[w]
    OBVIOUS
  <2>1. CASE w \in DOMAIN s.widgets
    <3>1. line = s.widgets[w] /\ w \notin t.shown /\ IsRow(line)
      BY <1>1, <1>4, <2>1, <2>r
    <3>2. /\ line.of = line.call /\ line.result # "running"
          /\ line.result \in {"ok", "failed"} => line.call \in DOMAIN results /\ results[line.call] = line.result
      BY <2>1, <3>1 DEF RowsRest
    <3>. QED
      BY <1>t, <2>r, <3>1, <3>2 DEF RowOK
  <2>2. CASE w \notin DOMAIN s.widgets
    <3>1. PICK a \in k + 1..Len(stored) : Tells(line, stored[a])
      BY <1>1, <2>2, <2>r
    <3>2. line.of = line.call /\ line.result = "historical"
      BY <1>4, <2>r, <3>1 DEF Tells, IsRow
    <3>. QED
      BY <1>2, <1>t, <2>r, <3>2 DEF RowOK
  <2>. QED
    BY <2>1, <2>2
<1>5. ASSUME NEW v \in t.shown, NEW w \in t.shown, IsRow(t.widgets[v]), IsRow(t.widgets[w]), t.widgets[v].call = t.widgets[w].call, v < w
      PROVE  FALSE
  <2>1. PICK a \in k + 1..Len(stored), b \in k + 1..Len(stored) : a < b /\ Tells(t.widgets[v], stored[a]) /\ Tells(t.widgets[w], stored[b])
    BY <1>1, <1>5
  <2>2. IsTool(stored[a]) /\ IsTool(stored[b]) /\ stored[a].call = stored[b].call
    BY <1>5, <2>1 DEF Tells, IsRow
  <2>3. a \in DOMAIN stored /\ b \in DOMAIN stored /\ a \in Nat /\ b \in Nat
    BY <1>1, InvHas
  <2>4. a = b
    BY <2>2, <2>3 DEF TranscriptInv, StoredOK, HistoryOK
  <2>. QED
    BY <2>1, <2>3, <2>4
<1>6. \A v, w \in t.shown : IsRow(t.widgets[v]) /\ IsRow(t.widgets[w]) /\ t.widgets[v].call = t.widgets[w].call => v = w
  <2>1. \A v, w \in t.shown : v \in Nat /\ w \in Nat
    BY <1>1
  <2>2. \A v, w \in t.shown : v # w => v < w \/ w < v
    BY <2>1
  <2>. QED
    BY <1>5, <2>2
<1>7. \A w \in DOMAIN t.widgets : IsRow(t.widgets[w]) => RowOK(w)'
  BY <1>4
<1>. QED
  BY <1>3, <1>6, <1>7, <1>t DEF RowsOK

\* What is told is on the screen, in order.
LEMMA RetoldTexts ==
  ASSUME TranscriptInv, NEW t, NEW s, NEW k, Retold(t, s, stored, k)
  PROVE  /\ InOrder(t)
         /\ \A i \in k + 1..Len(stored) : \A p \in ToSet(stored[i].text) \ {0} : Visible(t, p)
<1>1. /\ \A w \in t.shown : \E a \in k + 1..Len(stored) : Tells(t.widgets[w], stored[a])
      /\ \A a \in k + 1..Len(stored) : stored[a].text # <<>> => \E w \in t.shown : Tells(t.widgets[w], stored[a])
      /\ \A v, w \in t.shown : v < w =>
           \E a, b \in k + 1..Len(stored) : a < b /\ Tells(t.widgets[v], stored[a]) /\ Tells(t.widgets[w], stored[b])
      /\ k \in 0..Len(stored)
  BY DEF Retold
<1>2. \A a \in k + 1..Len(stored) : a \in DOMAIN stored /\ a \in Nat
  BY <1>1, InvHas
<1>3. /\ \A i \in DOMAIN stored : Rising(stored[i].text) /\ EntryOK(stored[i])
      /\ \A i, j \in DOMAIN stored : i < j => Before(stored[i].text, stored[j].text)
  BY DEF TranscriptInv, StoredOK, HistoryOK
<1>4. ASSUME NEW w \in t.shown, IsText(t.widgets[w])
      PROVE  Rising(t.widgets[w].text)
  <2>1. PICK a \in k + 1..Len(stored) : Tells(t.widgets[w], stored[a])
    BY <1>1
  <2>2. t.widgets[w].text = stored[a].text
    BY <1>4, <2>1 DEF Tells, IsText
  <2>. QED
    BY <1>2, <1>3, <2>2
<1>5. ASSUME NEW v \in t.shown, NEW w \in t.shown, v < w, IsText(t.widgets[v]), IsText(t.widgets[w])
      PROVE  Before(t.widgets[v].text, t.widgets[w].text)
  <2>1. PICK a \in k + 1..Len(stored), b \in k + 1..Len(stored) : a < b /\ Tells(t.widgets[v], stored[a]) /\ Tells(t.widgets[w], stored[b])
    BY <1>1, <1>5
  <2>2. t.widgets[v].text = stored[a].text /\ t.widgets[w].text = stored[b].text
    BY <1>5, <2>1 DEF Tells, IsText
  <2>. QED
    BY <1>2, <1>3, <2>1, <2>2
<1>6. InOrder(t)
  BY <1>4, <1>5 DEF InOrder
<1>7. ASSUME NEW i \in k + 1..Len(stored), NEW p \in ToSet(stored[i].text) \ {0}
      PROVE  Visible(t, p)
  <2>1. stored[i].text # <<>>
    BY IdleIs
  <2>2. PICK w \in t.shown : Tells(t.widgets[w], stored[i])
    BY <1>1, <2>1
  <2>3. ~IsTool(stored[i])
    BY <1>2, <1>3, <2>1 DEF EntryOK
  <2>. QED
    BY <2>2, <2>3 DEF Tells, IsText, Visible
<1>. QED
  BY <1>6, <1>7

\* /resume, or a new process.
LEMMA ResumesKeeps ==
  ASSUME TranscriptInv, NEW s, ScreenOK(s, pieces, Len(idOf)), s.closed, s.current = 0, s.replies = <<>>, RowsRest(s), Resumes(s)
  PROVE  TranscriptInv'
<1>t. PICK t : t = screen'
  OBVIOUS
<1>m. PICK m : m = Len(idOf)
  OBVIOUS
<1>k. PICK k : k = Len(stored) - Len(Newest(stored))
  OBVIOUS
<1>1. /\ t = Replay(s, stored) /\ turnOf' = Idle /\ owned' = TRUE /\ since' = k + 1 /\ past' = m /\ cut' = FALSE /\ again' = FALSE
      /\ stored' = stored /\ idOf' = idOf /\ results' = results /\ pieces' = pieces
  BY <1>t, <1>m, <1>k DEF Resumes
<1>2. ScreenOK(s, pieces, m) /\ pieces \in Nat /\ m \in Nat /\ Len(stored) \in Nat
  BY <1>m, InvHas
<1>3. stored \in Seq(Entries(pieces, m)) /\ \A i \in DOMAIN stored : EntryOK(stored[i])
  BY <1>m DEF TranscriptInv, StoredOK, HistoryOK
<1>4. ScreenOK(t, pieces, m) /\ Retold(t, s, stored, k)
  BY <1>1, <1>2, <1>3, <1>k, ReplayIs
<1>5. k \in 0..Len(stored) /\ t.current = 0 /\ t.replies = <<>> /\ t.closed
  BY <1>4 DEF Retold
<1>i. /\ turnOf' \in Turns /\ turnOf'.phase = "idle" /\ turnOf'.going = <<>> /\ turnOf'.todo = <<>> /\ turnOf'.text = <<>> /\ turnOf'.prose = <<>>
      /\ ToSet(turnOf'.going) = {} /\ ToSet(turnOf'.todo) = {} /\ Rising(<<>>) /\ <<>> \in Seq(1..pieces)
  BY <1>1, IdleIs
<1>6. TurnOK'
  <2>1. t.closed = TRUE
    BY <1>4, <1>5 DEF ScreenOK
  <2>. QED
    BY <1>1, <1>2, <1>5, <1>i, <1>t, <2>1 DEF TurnOK
<1>7. CallsOK'
  <2>1. idOf \in Seq(Nat) /\ DOMAIN results \subseteq 1..Len(idOf)
    BY DEF TranscriptInv, CallsOK
  <2>2. past' \in 0..Len(idOf)
    BY <1>1, <1>2, <1>m
  <2>. QED
    BY <1>1, <1>i, <2>1, <2>2, IdleIs DEF CallsOK, Pending
<1>8. StoredOK'
  <2>1. Unanswered(stored, Pending')
    BY <1>i DEF Unanswered, Pending
  <2>2. since' \in 1..Len(stored) + 1
    BY <1>1, <1>2, <1>5
  <2>. QED
    BY <1>1, <1>i, <2>1, <2>2 DEF TranscriptInv, StoredOK
<1>9. RowsOK'
  <2>1. t.shown \subseteq DOMAIN t.widgets /\ DOMAIN t.widgets \subseteq Nat
    BY <1>4 DEF ScreenOK
  <2>2. Retold(screen', s, stored, k) /\ screen'.shown \subseteq DOMAIN screen'.widgets /\ DOMAIN screen'.widgets \subseteq Nat
    BY <1>4, <1>t, <2>1
  <2>. QED
    BY <1>1, <2>2, RetoldRows
<1>10. ReplyOK'
  BY <1>1, <1>5, <1>i, <1>t DEF ReplyOK
<1>11. ShownOK'
  <2>1. InOrder(t) /\ \A i \in k + 1..Len(stored) : \A p \in ToSet(stored[i].text) \ {0} : Visible(t, p)
    BY <1>4, RetoldTexts
  <2>2. DOMAIN <<>> = {}
    OBVIOUS
  <2>. QED
    BY <1>1, <1>5, <1>t, <2>1, <2>2 DEF ShownOK
<1>. QED
  BY <1>1, <1>4, <1>6, <1>7, <1>8, <1>9, <1>10, <1>11, <1>m, <1>t DEF TranscriptInv
-----------------------------------------------------------------------------
(* Every step *)

\* A window that is new.
LEMMA NoWidgetsIs ==
  ASSUME NEW p \in Nat, NEW n \in Nat
  PROVE  /\ ScreenOK(NoWidgets, p, n) /\ NoWidgets.closed /\ NoWidgets.current = 0 /\ NoWidgets.replies = <<>>
         /\ DOMAIN NoWidgets.widgets = {} /\ NoWidgets.shown = {}
<1>1. IsScreen(NoWidgets)
  BY DEF IsScreen, Screen, NoWidgets
<1>2. /\ NoWidgets.widgets = <<>> /\ NoWidgets.shown = {} /\ NoWidgets.current = 0 /\ NoWidgets.replies = <<>>
      /\ NoWidgets.rows = <<>> /\ NoWidgets.badge = FALSE /\ NoWidgets.closed = TRUE
  BY DEF NoWidgets
<1>3. \A S : <<>> \in Seq(S)
  BY IdleIs
<1>4. DOMAIN <<>> = {} /\ Len(<<>>) = 0 /\ 0 \in 0..0
  OBVIOUS
<1>. QED
  BY <1>1, <1>2, <1>3, <1>4 DEF ScreenOK

\* The invariant holds at the start.
LEMMA TranscriptStarts == TranscriptInit => TranscriptInv
<1>. SUFFICES ASSUME TranscriptInit
              PROVE  TranscriptInv
  OBVIOUS
<1>1. /\ screen = NoWidgets /\ turnOf = Idle /\ stored = <<>> /\ idOf = <<>> /\ owned = TRUE /\ results = <<>>
      /\ pieces = 0 /\ since = 1 /\ past = 0 /\ cut = FALSE /\ again = FALSE
  BY DEF TranscriptInit
<1>2. Len(idOf) = 0 /\ Len(stored) = 0 /\ DOMAIN stored = {} /\ DOMAIN results = {} /\ DOMAIN <<>> = {} /\ 0 \in Nat
  BY <1>1
<1>3. /\ ScreenOK(screen, pieces, Len(idOf)) /\ screen.closed /\ screen.current = 0 /\ screen.replies = <<>>
      /\ DOMAIN screen.widgets = {} /\ screen.shown = {}
  BY <1>1, <1>2, NoWidgetsIs
<1>i. /\ turnOf \in Turns /\ turnOf.phase = "idle" /\ turnOf.going = <<>> /\ turnOf.todo = <<>> /\ turnOf.text = <<>> /\ turnOf.prose = <<>>
      /\ ToSet(turnOf.going) = {} /\ ToSet(turnOf.todo) = {} /\ Rising(<<>>) /\ \A S : <<>> \in Seq(S)
  BY <1>1, IdleIs
<1>4. TurnOK
  <2>1. screen.closed = TRUE
    BY <1>3 DEF ScreenOK
  <2>. QED
    BY <1>1, <1>3, <1>i, <2>1 DEF TurnOK
<1>5. CallsOK
  <2>1. past \in 0..Len(idOf) /\ idOf \in Seq(Nat)
    BY <1>1, <1>2, <1>i
  <2>. QED
    BY <1>2, <1>i, <2>1, IdleIs DEF CallsOK, Pending
<1>6. StoredOK
  <2>1. HistoryOK(stored, pieces, Len(idOf)) /\ since \in 1..Len(stored) + 1
    BY <1>1, <1>2, <1>i DEF HistoryOK
  <2>. QED
    BY <1>2, <1>i, <2>1 DEF StoredOK, Unanswered
<1>7. RowsOK
  <2>1. Awaited = {}
    BY <1>i DEF Awaited
  <2>. QED
    BY <1>3, <2>1 DEF RowsOK
<1>8. ReplyOK
  BY <1>3, <1>i DEF ReplyOK
<1>9. ShownOK
  <2>1. InOrder(screen)
    BY <1>3 DEF InOrder
  <2>2. since..Len(stored) = {}
    BY <1>1, <1>2
  <2>. QED
    BY <1>2, <1>3, <2>1, <2>2 DEF ShownOK
<1>. QED
  BY <1>3, <1>4, <1>5, <1>6, <1>7, <1>8, <1>9 DEF TranscriptInv

\* /resume while no turn runs.
LEMMA ResumesHereKeeps ==
  ASSUME TranscriptInv, In("idle"), Resumes(screen)
  PROVE  TranscriptInv'
<1>1. turnOf.phase = "idle"
  BY DEF In
<1>2. ScreenOK(screen, pieces, Len(idOf)) /\ screen.closed /\ screen.current = 0 /\ screen.replies = <<>>
  BY <1>1 DEF TranscriptInv, TurnOK
<1>3. RowsRest(screen)
  BY <1>1 DEF TranscriptInv, RowsOK, RowOK, RowsRest
<1>. QED
  BY <1>2, <1>3, ResumesKeeps

\* A new process.
LEMMA ResumesAnewKeeps ==
  ASSUME TranscriptInv, Resumes(NoWidgets)
  PROVE  TranscriptInv'
<1>s. PICK s : s = NoWidgets
  OBVIOUS
<1>m. PICK m : m = Len(idOf)
  OBVIOUS
<1>0. pieces \in Nat /\ m \in Nat
  BY <1>m, InvHas
<1>1. ScreenOK(s, pieces, m) /\ s.closed /\ s.current = 0 /\ s.replies = <<>> /\ DOMAIN s.widgets = {}
  BY <1>0, <1>s, NoWidgetsIs
<1>2. RowsRest(s) /\ Resumes(s)
  BY <1>1, <1>s DEF RowsRest
<1>. QED
  BY <1>1, <1>2, <1>m, ResumesKeeps

\* Each step keeps the invariant.
LEMMA TranscriptKeeps ==
  ASSUME TranscriptInv, [TranscriptNext]_transcript
  PROVE  TranscriptInv'
<1>1. CASE TurnBegins
  BY <1>1, TurnBeginsKeeps
<1>2. CASE \E thinks \in BOOLEAN : Streams(thinks)
  BY <1>2, StreamsKeeps
<1>3. CASE \E ids \in Messages, complete \in BOOLEAN : Asks(ids, complete)
  BY <1>3, AsksKeeps
<1>4. CASE Says
  BY <1>4, SaysKeeps
<1>5. CASE Verifies
  BY <1>5, VerifiesKeeps
<1>6. CASE \E n \in 1..2 : Starts(n)
  BY <1>6, StartsKeeps
<1>7. CASE \E call \in Awaited, result \in {"ok", "failed"} : Returns(call, result)
  BY <1>7, ReturnsKeeps
<1>8. CASE \E asks \in BOOLEAN : Answered(asks)
  BY <1>8, AnsweredKeeps
<1>9. CASE Exhausted
  BY <1>9, ExhaustedKeeps
<1>10. CASE Stops
  BY <1>10, StopsKeeps
<1>11. CASE Finishes
  BY <1>11, FinishesKeeps
<1>12. CASE Fails
  BY <1>12, FailsKeeps
<1>13. CASE LosesLock
  BY <1>13, LosesLockKeeps
<1>14. CASE Clear
  BY <1>14, ClearKeeps
<1>15. CASE In("idle") /\ Resumes(screen)
  BY <1>15, ResumesHereKeeps
<1>16. CASE Resumes(NoWidgets)
  BY <1>16, ResumesAnewKeeps
<1>17. CASE UNCHANGED transcript
  <2>1. /\ screen' = screen /\ turnOf' = turnOf /\ stored' = stored /\ idOf' = idOf /\ owned' = owned /\ results' = results
        /\ pieces' = pieces /\ since' = since /\ past' = past /\ cut' = cut /\ again' = again
    BY <1>17 DEF transcript, conversation, history
  <2>2. TurnOK' /\ CallsOK' /\ StoredOK' /\ Awaited' = Awaited
    BY <2>1 DEF TranscriptInv, TurnOK, CallsOK, StoredOK, Pending, Awaited
  <2>3. RowsOK'
    BY <2>1, <2>2 DEF TranscriptInv, RowsOK, RowOK
  <2>4. ReplyOK' /\ ShownOK'
    BY <2>1 DEF TranscriptInv, ReplyOK, LastReply, ShownOK
  <2>. QED
    BY <2>1, <2>2, <2>3, <2>4 DEF TranscriptInv
<1>. QED
  BY <1>1, <1>2, <1>3, <1>4, <1>5, <1>6, <1>7, <1>8, <1>9, <1>10, <1>11, <1>12, <1>13, <1>14, <1>15, <1>16, <1>17 DEF TranscriptNext

\* The invariant holds in every state: the window, the engine's turn, its calls, the display
\* history and the rows and texts on the screen fit together.
THEOREM TranscriptInvariant == TranscriptSpec => []TranscriptInv
<1>1. TranscriptInv /\ [TranscriptNext]_transcript => TranscriptInv'
  BY TranscriptKeeps
<1>. QED
  BY <1>1, TranscriptStarts, PTL DEF TranscriptSpec
-----------------------------------------------------------------------------
(* What the screen tells *)

\* The widgets of some kinds on the screen, in their order
Listed(t, kinds) ==
  /\ t \in Seq(DOMAIN screen.widgets)
  /\ \A i \in DOMAIN t : t[i] \in screen.shown /\ screen.widgets[t[i]].kind \in kinds
  /\ \A w \in screen.shown : screen.widgets[w].kind \in kinds => \E i \in DOMAIN t : t[i] = w
  /\ \A i, j \in DOMAIN t : i < j => t[i] < t[j]

\* OnScreen: all of them, no other, in order.
LEMMA OnScreenIs ==
  ASSUME TranscriptInv, NEW kinds, NEW t, t = OnScreen(kinds)
  PROVE  Listed(t, kinds)
<1>l. PICK l : l = Len(screen.widgets)
  OBVIOUS
<1>s. PICK s : s = [w \in DOMAIN screen.widgets |-> w]
  OBVIOUS
<1>S. PICK S : S = {w \in screen.shown : screen.widgets[w].kind \in kinds}
  OBVIOUS
<1>1. l \in Nat /\ DOMAIN screen.widgets = 1..l /\ screen.shown \subseteq 1..l
  BY <1>l, InvHas
<1>2. s \in Seq(1..l) /\ Len(s) = l /\ \A a \in 1..l : s[a] = a
  <2>1. s = [w \in 1..l |-> w]
    BY <1>1, <1>s
  <2>. QED
    BY <1>1, <2>1
<1>3. t = Kept(s, S)
  BY <1>s, <1>S DEF OnScreen
<1>4. t \in Seq(1..l) /\ IsKept(t, s, S, l)
  BY <1>2, <1>3, KeptIs
<1>5. \A i \in DOMAIN t : t[i] \in S
  BY <1>4 DEF IsKept
<1>6. ASSUME NEW w \in S
      PROVE  \E i \in DOMAIN t : t[i] = w
  <2>1. w \in 1..l /\ s[w] = w
    BY <1>1, <1>2, <1>S
  <2>2. \E i \in DOMAIN t : t[i] = s[w]
    BY <1>4, <1>6, <2>1 DEF IsKept
  <2>. QED
    BY <2>1, <2>2
<1>7. ASSUME NEW i \in DOMAIN t, NEW j \in DOMAIN t, i < j
      PROVE  t[i] < t[j]
  <2>1. PICK a \in 1..l, b \in 1..l : a < b /\ t[i] = s[a] /\ t[j] = s[b]
    BY <1>4, <1>7 DEF IsKept
  <2>. QED
    BY <1>2, <2>1
<1>. QED
  BY <1>1, <1>4, <1>5, <1>6, <1>7, <1>S DEF Listed

\* The pieces of the texts of q, in their order
ToldIn(t, q) ==
  /\ \A i \in DOMAIN t : t[i] # 0 /\ \E a \in DOMAIN q : \E c \in DOMAIN q[a] : t[i] = q[a][c]
  /\ \A a \in DOMAIN q : \A c \in DOMAIN q[a] : q[a][c] # 0 => \E i \in DOMAIN t : t[i] = q[a][c]
  /\ \A i, j \in DOMAIN t : i < j =>
       \E a, b \in DOMAIN q : \E c \in DOMAIN q[a], d \in DOMAIN q[b] :
         t[i] = q[a][c] /\ t[j] = q[b][d] /\ (a < b \/ (a = b /\ c < d))

\* Spoken: every piece but 0, in order.
LEMMA SpokenIs ==
  ASSUME NEW p \in Nat, NEW q, q \in Seq(TextsOf(p)), NEW t, t = Spoken(FlattenSeq(q))
  PROVE  ToldIn(t, q)
<1>T. PICK T : T = 0..p
  OBVIOUS
<1>f. PICK f : f = FlattenSeq(q)
  OBVIOUS
<1>P. PICK P : P = Nat \ {0}
  OBVIOUS
<1>n. PICK n : n = Len(q)
  OBVIOUS
<1>m. PICK m : m = Len(f)
  OBVIOUS
<1>1. q \in Seq(Seq(T))
  BY <1>T DEF TextsOf
<1>2. f \in Seq(T) /\ IsFlat(f, q, n)
  BY <1>1, <1>f, <1>n, FlatIs
<1>3. t = Kept(f, P)
  BY <1>f, <1>P DEF Spoken
<1>4. t \in Seq(T) /\ IsKept(t, f, P, m)
  BY <1>2, <1>3, <1>m, KeptIs
<1>5. DOMAIN q = 1..n /\ DOMAIN f = 1..m /\ n \in Nat /\ m \in Nat
  BY <1>1, <1>2, <1>m, <1>n
<1>6. \A x \in T : x \in Nat
  BY <1>T
<1>7. ASSUME NEW i \in DOMAIN t
      PROVE  t[i] # 0 /\ \E a \in DOMAIN q : \E c \in DOMAIN q[a] : t[i] = q[a][c]
  <2>1. PICK x \in 1..m : f[x] \in P /\ t[i] = f[x]
    BY <1>4 DEF IsKept
  <2>2. \E a \in 1..n : \E c \in DOMAIN q[a] : f[x] = q[a][c]
    BY <1>2, <1>5, <2>1 DEF IsFlat
  <2>. QED
    BY <1>5, <1>P, <2>1, <2>2
<1>8. ASSUME NEW a \in DOMAIN q, NEW c \in DOMAIN q[a], q[a][c] # 0
      PROVE  \E i \in DOMAIN t : t[i] = q[a][c]
  <2>1. PICK x \in 1..m : f[x] = q[a][c]
    BY <1>2, <1>5 DEF IsFlat
  <2>2. f[x] \in P
    <3>1. f[x] \in T
      BY <1>2, <1>5, <2>1
    <3>. QED
      BY <1>6, <1>8, <1>P, <2>1, <3>1
  <2>3. \E i \in DOMAIN t : t[i] = f[x]
    BY <1>4, <2>1, <2>2 DEF IsKept
  <2>. QED
    BY <2>1, <2>3
<1>9. ASSUME NEW i \in DOMAIN t, NEW j \in DOMAIN t, i < j
      PROVE  \E a, b \in DOMAIN q : \E c \in DOMAIN q[a], d \in DOMAIN q[b] :
               t[i] = q[a][c] /\ t[j] = q[b][d] /\ (a < b \/ (a = b /\ c < d))
  <2>1. PICK x \in 1..m, y \in 1..m : x < y /\ t[i] = f[x] /\ t[j] = f[y]
    BY <1>4, <1>9 DEF IsKept
  <2>2. \E a, b \in 1..n : \E c \in DOMAIN q[a], d \in DOMAIN q[b] :
          f[x] = q[a][c] /\ f[y] = q[b][d] /\ (a < b \/ (a = b /\ c < d))
    <3>1. \A v, w \in DOMAIN f : v < w =>
            \E a, b \in 1..n : \E c \in DOMAIN q[a], d \in DOMAIN q[b] :
              f[v] = q[a][c] /\ f[w] = q[b][d] /\ (a < b \/ (a = b /\ c < d))
      BY <1>2 DEF IsFlat
    <3>. QED
      BY <1>5, <2>1, <3>1
  <2>. QED
    BY <1>5, <2>1, <2>2
<1>. QED
  BY <1>7, <1>8, <1>9 DEF ToldIn

\* The texts on the screen
LEMMA TextsTrue == TranscriptInv => TextsShown
<1>. SUFFICES ASSUME TranscriptInv, ~cut
              PROVE  /\ ToSet(Due) \subseteq ToSet(ShownText)
                     /\ again \/ \A j, k \in DOMAIN ShownText : j < k => ShownText[j] < ShownText[k]
  BY DEF TextsShown
<1>o. PICK os : os = OnScreen({"user", "reply"})
  OBVIOUS
<1>q. PICK q : q = [k \in DOMAIN os |-> screen.widgets[os[k]].text]
  OBVIOUS
<1>t. PICK t : t = ShownText
  OBVIOUS
<1>n. PICK n : n = Len(stored) - since + 1
  OBVIOUS
<1>h. PICK h : h = [k \in 1..n |-> stored[since + k - 1].text]
  OBVIOUS
<1>d. PICK due : due = Due
  OBVIOUS
<1>1. Listed(os, {"user", "reply"})
  BY <1>o, OnScreenIs
<1>T. PICK T : T = TextsOf(pieces)
  OBVIOUS
<1>2. \A i \in DOMAIN os : os[i] \in screen.shown /\ IsText(screen.widgets[os[i]]) /\ screen.widgets[os[i]].text \in T /\ q[i] = screen.widgets[os[i]].text
  BY <1>1, <1>q, <1>T, InvHas DEF Listed, IsText
<1>3. q \in Seq(T) /\ DOMAIN q = DOMAIN os
  <2>1. DOMAIN os = 1..Len(os) /\ Len(os) \in Nat
    BY <1>1 DEF Listed
  <2>2. q = [k \in 1..Len(os) |-> q[k]] /\ \A k \in 1..Len(os) : q[k] \in T
    BY <1>2, <1>q, <2>1
  <2>. QED
    BY <2>1, <2>2
<1>4. ToldIn(t, q)
  <2>1. t = Spoken(FlattenSeq(q))
    BY <1>o, <1>q, <1>t DEF ShownText, TextOf
  <2>2. pieces \in Nat /\ q \in Seq(TextsOf(pieces))
    BY <1>3, <1>T, InvHas
  <2>. QED
    BY <2>1, <2>2, SpokenIs
<1>5. /\ n \in Nat /\ \A k \in 1..n : since + k - 1 \in since..Len(stored) /\ since + k - 1 \in DOMAIN stored
      /\ pieces \in Nat
  BY <1>n, InvHas
<1>6. h \in Seq(T) /\ DOMAIN h = 1..n /\ \A k \in 1..n : h[k] = stored[since + k - 1].text
  <2>1. \A k \in 1..n : h[k] = stored[since + k - 1].text
    BY <1>h
  <2>2. \A k \in 1..n : h[k] \in T
    BY <1>5, <1>T, <2>1, InvHas
  <2>3. h = [k \in 1..n |-> h[k]]
    BY <1>h
  <2>. QED
    BY <1>5, <2>1, <2>2, <2>3
<1>7. ToldIn(due, h)
  <2>1. due = Spoken(FlattenSeq(h))
    BY <1>h, <1>n, <1>d DEF Due
  <2>2. h \in Seq(TextsOf(pieces))
    BY <1>6, <1>T
  <2>. QED
    BY <1>5, <2>1, <2>2, SpokenIs
<1>8. ASSUME NEW x \in ToSet(due)
      PROVE  x \in ToSet(t)
  <2>1. PICK i \in DOMAIN due : x = due[i]
    BY <1>8 DEF ToSet
  <2>2. PICK a \in DOMAIN h : \E c \in DOMAIN h[a] : x = h[a][c]
    BY <1>7, <2>1 DEF ToldIn
  <2>3. x # 0
    BY <1>7, <2>1 DEF ToldIn
  <2>b. PICK b : b = since + a - 1
    OBVIOUS
  <2>4. b \in since..Len(stored) /\ x \in ToSet(stored[b].text) \ {0}
    <3>1. a \in 1..n /\ h[a] = stored[b].text
      BY <1>6, <2>b
    <3>2. x \in ToSet(h[a])
      BY <2>2 DEF ToSet
    <3>. QED
      BY <1>5, <2>3, <2>b, <3>1, <3>2
  <2>5. Visible(screen, x)
    BY <2>4 DEF TranscriptInv, ShownOK
  <2>6. PICK w \in screen.shown : IsText(screen.widgets[w]) /\ x \in ToSet(screen.widgets[w].text)
    BY <2>5 DEF Visible
  <2>7. PICK k \in DOMAIN os : os[k] = w
    BY <1>1, <2>6 DEF Listed, IsText
  <2>8. \E c \in DOMAIN q[k] : q[k][c] = x
    BY <1>2, <2>6, <2>7 DEF ToSet
  <2>9. \E i1 \in DOMAIN t : t[i1] = x
    BY <1>3, <1>4, <2>3, <2>8 DEF ToldIn
  <2>. QED
    BY <2>9 DEF ToSet
<1>9. ASSUME ~again, NEW j \in DOMAIN t, NEW k \in DOMAIN t, j < k
      PROVE  t[j] < t[k]
  <2>1. PICK a \in DOMAIN q, b \in DOMAIN q : \E c \in DOMAIN q[a], d \in DOMAIN q[b] :
          t[j] = q[a][c] /\ t[k] = q[b][d] /\ (a < b \/ (a = b /\ c < d))
    BY <1>4, <1>9 DEF ToldIn
  <2>2. PICK c \in DOMAIN q[a], d \in DOMAIN q[b] : t[j] = q[a][c] /\ t[k] = q[b][d] /\ (a < b \/ (a = b /\ c < d))
    BY <2>1
  <2>3. q[a][c] # 0 /\ q[b][d] # 0
    BY <1>4, <2>2 DEF ToldIn
  <2>v. PICK v : v = os[a]
    OBVIOUS
  <2>w. PICK w : w = os[b]
    OBVIOUS
  <2>4. /\ v \in screen.shown /\ w \in screen.shown /\ IsText(screen.widgets[v]) /\ IsText(screen.widgets[w])
        /\ q[a] = screen.widgets[v].text /\ q[b] = screen.widgets[w].text
    BY <1>2, <1>3, <2>v, <2>w
  <2>5. InOrder(screen)
    BY <1>9 DEF TranscriptInv, ShownOK
  <2>6. CASE a < b
    <3>1. v < w
      BY <1>1, <1>3, <2>6, <2>v, <2>w DEF Listed
    <3>2. Before(q[a], q[b])
      BY <2>4, <2>5, <3>1 DEF InOrder
    <3>. QED
      BY <2>2, <2>3, <3>2 DEF Before
  <2>7. CASE a = b /\ c < d
    <3>1. Rising(q[a])
      BY <2>4, <2>5 DEF InOrder
    <3>. QED
      BY <2>2, <2>3, <2>7, <3>1 DEF Rising
  <2>. QED
    BY <2>2, <2>6, <2>7
<1>. QED
  BY <1>8, <1>9, <1>d, <1>t

\* The rows on the screen
LEMMA RowsAreTrue == TranscriptInv => RowsTrue
<1>. SUFFICES ASSUME TranscriptInv
              PROVE  RowsTrue
  OBVIOUS
<1>r. PICK rows : rows = OnScreen({"row"})
  OBVIOUS
<1>1. Listed(rows, {"row"})
  BY <1>r, OnScreenIs
<1>2. /\ \A i \in DOMAIN rows : rows[i] \in screen.shown /\ IsRow(screen.widgets[rows[i]]) /\ rows[i] \in DOMAIN screen.widgets
      /\ \A i, j \in DOMAIN rows : i < j => rows[i] < rows[j]
  BY <1>1, InvHas DEF Listed, IsRow
<1>3. \A i, j \in DOMAIN rows : rows[i] = rows[j] => i = j
  <2>1. rows \in Seq(DOMAIN screen.widgets) /\ DOMAIN screen.widgets \subseteq Nat
    BY <1>1, InvHas DEF Listed
  <2>2. \A i \in DOMAIN rows : i \in Nat /\ rows[i] \in Nat
    BY <2>1
  <2>3. \A i, j \in DOMAIN rows : i # j => i < j \/ j < i
    BY <2>2
  <2>. QED
    BY <1>2, <2>2, <2>3
<1>4. ASSUME NEW k \in DOMAIN rows
      PROVE  LET line == screen.widgets[rows[k]] IN
             /\ line.of = line.call
             /\ line.result \in {"ok", "failed"} => line.call > past /\ results[line.call] = line.result
             /\ line.result = "running" => ~screen.closed
             /\ \A j \in DOMAIN rows : screen.widgets[rows[j]].call = line.call => j = k
  <2>w. PICK w : w = rows[k]
    OBVIOUS
  <2>o. PICK line : line = screen.widgets[w]
    OBVIOUS
  <2>1. w \in screen.shown /\ IsRow(line) /\ w \in DOMAIN screen.widgets
    BY <1>2, <2>o, <2>w
  <2>2. /\ line.of = line.call
        /\ line.result \in {"ok", "failed"} => line.call \in DOMAIN results /\ results[line.call] = line.result
        /\ line.result # "historical" => line.call > past
        /\ line.result = "running" => turnOf.phase \in {"tools", "ending"}
    BY <2>1, <2>o DEF TranscriptInv, RowsOK, RowOK
  <2>3. line.result = "running" => ~screen.closed
    BY <2>2 DEF TranscriptInv, TurnOK
  <2>4. ASSUME NEW j \in DOMAIN rows, screen.widgets[rows[j]].call = line.call
        PROVE  j = k
    <3>1. rows[j] = rows[k]
      BY <1>2, <2>1, <2>4, <2>o, <2>w DEF TranscriptInv, RowsOK
    <3>. QED
      BY <1>3, <3>1
  <2>. QED
    BY <2>2, <2>3, <2>4, <2>o, <2>w
<1>. QED
  BY <1>4, <1>r DEF RowsTrue

\* _on_model_delta, _on_tool_started, _on_tool_finished, _show_answer, _close_turn,
\* action_clear, _replay_session: whatever a turn, the model, the tools, the user and other
\* processes do, what was said since the screen was last empty is on it, in order and once,
\* and the row of a call has the result of that call.
THEOREM ScreenTrueHolds == TranscriptSpec => []ScreenTrue
<1>1. TranscriptInv => ScreenTrue
  BY TextsTrue, RowsAreTrue DEF ScreenTrue
<1>. QED
  BY <1>1, TranscriptInvariant, PTL
=============================================================================
