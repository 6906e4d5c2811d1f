------------------------------ MODULE MCStartup ------------------------------
(* The instance that TLC checks of what a process begins with, and of what   *)
(* a conversation shows, live and when it is resumed.  The two models share  *)
(* no state, so each moves from an initial state of the other, and one run   *)
(* has the behaviours of both.                                               *)
EXTENDS Startup, Transcript

Sym == Permutations(Session) \cup Permutations(Second)

MCInit == Init /\ TranscriptInit
MCNext == \/ TranscriptInit /\ Next /\ UNCHANGED transcript
          \/ Init /\ file = Absent /\ TranscriptNext /\ UNCHANGED startup
MCSpec == MCInit /\ [][MCNext]_<<startup, transcript>>
=============================================================================
