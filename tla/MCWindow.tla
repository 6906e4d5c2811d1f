------------------------------ MODULE MCWindow ------------------------------
(* The instance that TLC checks of the window's turns and of its list of     *)
(* conversations.  The two models share no state, so each moves from the     *)
(* other's initial state, and one run has the behaviours of both.            *)
EXTENDS Window, Conversations

\* four conversations: the ids of two begin alike, and a third's as a name
MCId == 1..4
MCFullId == <<"id1", "id2", "id3", "id4">>
MCWord == {"", "id1", "id2", "id3", "id4", "cafe", "word"}
MCBegins == [i \in MCId |-> {MCFullId[i]} \cup (CASE i \in {1, 2} -> {"cafe"} [] i = 3 -> {"word"} [] OTHER -> {})]
MCOccurs == [t \in MCWord |-> {t}]
MCMost == [commands |-> 1, renames |-> 1, turns |-> 1, holds |-> 1, opens |-> 1, screens |-> 1]

MCInit == Init /\ ConversationsInit
MCNext == \/ ConversationsInit /\ Next /\ UNCHANGED conversations
          \/ Init /\ ConversationsNext /\ UNCHANGED vars
MCSpec ==
  /\ MCInit /\ [][MCNext]_<<vars, conversations>>
  /\ WF_vars(OnSubmit) /\ WF_vars(Workers) /\ WF_vars(TurnEnds)
=============================================================================
