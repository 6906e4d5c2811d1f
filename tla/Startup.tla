------------------------------- MODULE Startup -------------------------------
(* The settings and the conversations together: the role a process starts   *)
(* with by default is what resolve_config makes of the layers.              *)
EXTENDS Settings, SessionIdentity

startup == <<settings, identity>>

Init == SettingsInit /\ IdentityInit

(* Bound: a behaviour either works on the settings or converses, on the     *)
(* settings of a first start or of a file whose owner prefers to plan.      *)
Conversing ==
  /\ commands = 0 /\ edits = 0
  /\ file \in {Absent, [coder |-> "alias", risk |-> "write", host |-> "no", role |-> "plan", rest |-> "plain"]}

(* A process of `nedster`, `resume` or `run [--role]`, in a project whose   *)
(* file may name a role and an environment that may name one.               *)
OpenProcess ==
  /\ Conversing
  /\ \E s \in OrNone(Session), mode \in Mode, override \in OrNone(RoleName), named \in {"unset", "typo"} :
       LET its == [Empty EXCEPT !.role = "code"]
           env == [Empty EXCEPT !.role = named]
       IN Open(s, Resolve(Content, its, env, Empty).role, override, mode)
  /\ UNCHANGED settings

Talk == Conversing /\ TalkStep /\ UNCHANGED settings

Settle == starts = 0 /\ project = 0 /\ soul = 0 /\ SettingsNext /\ UNCHANGED identity

Next == OpenProcess \/ Talk \/ Settle
Spec == Init /\ [][Next]_startup
=============================================================================
