---- MODULE Statechart ----
(***************************************************************************)
(* What the users of api/qhsm.h rely on: a machine is in one state of a    *)
(* tree and in all its ancestors, and a transition that `handler' takes to *)
(* `goal' leaves, innermost first, the states below the handler and those  *)
(* that do not contain the goal, and then enters, outermost first, the     *)
(* states down to the goal.  Nothing is left or entered twice or without   *)
(* need, except that a state's transition to itself leaves and enters it.  *)
(***************************************************************************)
EXTENDS Naturals

CONSTANTS States,       \* the state handlers
          Top,          \* QHsm_top
          Parent,       \* the state each handler passes to Q_SUPER
          Ancestors,    \* a state, its parent, and so on, up to Top
          NoState       \* NULL

VARIABLES active,       \* the innermost state entered and not left
          phase,        \* "rest", "leave" or "enter"
          handler,      \* whose transition it is
          goal          \* where it leads, NoState at rest

vars == <<active, phase, handler, goal>>

Init == active = Top /\ phase = "rest" /\ handler = NoState /\ goal = NoState

Take == /\ phase = "rest" /\ phase' = "leave"
        /\ handler' \in Ancestors[active] /\ goal' \in States
        /\ UNCHANGED active

MustLeave == \/ handler \in Ancestors[active] \ {active}
             \/ active \notin Ancestors[goal]
             \/ active = handler /\ active = goal

Leave == /\ phase = "leave" /\ MustLeave
         /\ active' = Parent[active]
         /\ UNCHANGED <<phase, handler, goal>>

LeftAll == /\ phase = "leave" /\ ~MustLeave /\ phase' = "enter"
           /\ UNCHANGED <<active, handler, goal>>

Enter == /\ phase = "enter" \/ (phase = "leave" /\ ~MustLeave)
         /\ active # goal /\ phase' = "enter"
         /\ \E s \in States : s \in Ancestors[goal] /\ Parent[s] = active /\ active' = s
         /\ UNCHANGED <<handler, goal>>

Arrive == /\ phase = "enter" /\ active = goal
          /\ phase' = "rest" /\ handler' = NoState /\ goal' = NoState
          /\ UNCHANGED active

Next == Take \/ Leave \/ LeftAll \/ Enter \/ Arrive

Spec == Init /\ [][Next]_vars
====
