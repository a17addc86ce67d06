---- MODULE QHsmProofs ----
(***************************************************************************)
(* Theorems about QHsm for every finite or infinite tree of states whose   *)
(* depth fits Q_MAX_DEPTH, and the inductive invariant they rest on.       *)
(***************************************************************************)
EXTENDS QHsm, TLAPS

Tree == States \cup {Top}

(* What holds of path while the target's ancestors are collected and after:
   a chain of parents from the target up, as deep as it is long, that holds
   all of the target's ancestors up to its last element. *)
Chain == /\ path \in Seq(Tree) /\ Len(path) >= 1 /\ path[1] = target_
         /\ \A i \in 1..(Len(path) - 1) : path[i] \in States /\ path[i + 1] = Parent[path[i]]
         /\ \A i \in 1..Len(path) : path[i] \in Ancestors[target_]
         /\ Ancestors[Reached] \subseteq Ancestors[target_]
         /\ \A t \in Ancestors[target_] : t \in Ancestors[Reached]
                                          \/ \E i \in 1..Len(path) : path[i] = t
         /\ Depth[Reached] + Len(path) - 1 = Depth[target_]

Moving == /\ target_ \in States /\ effective \in Tree /\ current_ \in States \cup {Initial}
          /\ effective_ \in Tree

(* What holds at each place of the code. *)
AtBoot == pc = "boot" => /\ current_ = Initial /\ active = Top /\ target_ = NoState /\ path = <<>>
AtRest == pc = "rest" => /\ current_ \in States /\ active = current_ /\ effective_ = current_
                         /\ target_ = NoState
AtAsk == pc = "ask" => /\ current_ \in States /\ active = current_ /\ target_ = NoState
                       /\ source \in Tree /\ effective_ = source
                       /\ Ancestors[source] \subseteq Ancestors[current_]
AtExit == pc = "exit" => /\ Moving /\ path = <<>>
                         /\ \/ source = Initial /\ active = Top /\ effective = Top /\ effective_ = Top
                            \/ source = active
                         /\ effective \in Ancestors[active]
AtReenter == pc = "reenter" => /\ Moving /\ effective = target_ /\ active = Parent[target_]
                               /\ path = <<>>
AtArrive == pc = "arrive" => Moving /\ active = target_
AtPath == pc = "path" => /\ Moving /\ Chain /\ source = active /\ effective = active
                         /\ \A i \in 1..Len(path) : path[i] # source
AtClimb == pc = "climb" => /\ Moving /\ Chain /\ Reached = Top /\ source = active
                           /\ \A i \in 1..Len(path) : path[i] # source
                           /\ effective = active \/ Depth[active] < Depth[effective]
AtSearch == pc = "search" => /\ Moving /\ Chain /\ Reached = Top /\ source = active
                             /\ Depth[active] < Depth[effective]
AtEnter == pc = "enter" => /\ Moving /\ Chain /\ lca \in 1..Len(path) /\ path[lca] = active

Places == {"boot", "rest", "ask", "exit", "reenter", "arrive", "path", "climb", "search", "enter"}

Inv == /\ active \in Tree /\ pc \in Places /\ lca \in Nat
       /\ path \in Seq(Tree) /\ Len(path) <= Q_MAX_DEPTH
       /\ AtBoot /\ AtRest /\ AtAsk /\ AtExit /\ AtReenter /\ AtArrive
       /\ AtPath /\ AtClimb /\ AtSearch /\ AtEnter

----
(* Parents and ancestors stay in the tree, every state is among its own
   ancestors, a parent's ancestors are the state's, and ancestors are not
   deeper. *)
LEMMA TreeFacts ==
  /\ \A s \in States : /\ Parent[s] \in Tree /\ s \in Ancestors[s]
                       /\ Parent[s] \in Ancestors[s]
                       /\ Ancestors[Parent[s]] \subseteq Ancestors[s]
                       /\ \A t \in Ancestors[s] : t = s \/ t \in Ancestors[Parent[s]]
                       /\ s \notin Ancestors[Parent[s]]
                       /\ Depth[s] = Depth[Parent[s]] + 1
                       /\ Depth[s] < Q_MAX_DEPTH
  /\ \A s \in Tree : /\ s \in Ancestors[s] /\ Depth[s] \in Nat /\ Ancestors[s] \subseteq Tree
                     /\ \A t \in Ancestors[s] : t = s \/ Depth[t] < Depth[s]
  /\ Top \in Tree /\ Top \notin States /\ Ancestors[Top] = {Top}
  /\ NoState \notin Tree /\ Initial \notin Tree /\ Initial # NoState /\ States \subseteq Tree
  /\ Q_MAX_DEPTH \in Nat
<1>1. \A s \in Tree : /\ s \in Ancestors[s] /\ Depth[s] \in Nat /\ Ancestors[s] \subseteq Tree
                      /\ \A t \in Ancestors[s] : t = s \/ Depth[t] < Depth[s]
  BY TreeAssumption DEF Tree
<1>2. ASSUME NEW s \in States
      PROVE  /\ Parent[s] \in Tree /\ s \in Ancestors[s]
             /\ Parent[s] \in Ancestors[s]
             /\ Ancestors[Parent[s]] \subseteq Ancestors[s]
             /\ \A t \in Ancestors[s] : t = s \/ t \in Ancestors[Parent[s]]
             /\ s \notin Ancestors[Parent[s]]
             /\ Depth[s] = Depth[Parent[s]] + 1
             /\ Depth[s] < Q_MAX_DEPTH
  <2>1. Parent[s] \in Tree /\ Depth[s] = Depth[Parent[s]] + 1
        /\ Ancestors[s] = {s} \cup Ancestors[Parent[s]]
    BY TreeAssumption DEF Tree
  <2>2. Parent[s] \in Ancestors[Parent[s]] /\ Depth[Parent[s]] \in Nat
        /\ \A t \in Ancestors[Parent[s]] : t = Parent[s] \/ Depth[t] < Depth[Parent[s]]
    BY <1>1, <2>1
  <2>3. s \notin Ancestors[Parent[s]]
    <3>1. s # Parent[s]
      BY <2>1, <2>2
    <3> QED
      BY <2>1, <2>2, <3>1
  <2> QED
    BY <2>1, <2>2, <2>3, DepthAssumption
<1> QED
  BY <1>1, <1>2, TreeAssumption, DepthAssumption DEF Tree

(* A path that is a chain is not longer than the target is deep, plus
   QHsm_top. *)
LEMMA ChainFits ==
  ASSUME Chain, target_ \in States
  PROVE  Len(path) <= Q_MAX_DEPTH /\ Reached \in Tree
<1>1. Reached \in Tree
  BY DEF Chain, Reached
<1> QED
  BY <1>1, TreeFacts DEF Chain

LEMMA InitInv == Init => Inv
BY TreeFacts DEF Init, Inv, Places, AtBoot, AtRest, AtAsk, AtExit, AtReenter, AtArrive,
   AtPath, AtClimb, AtSearch, AtEnter

LEMMA StartStep == Inv /\ Start => Inv'
<1> SUFFICES ASSUME Inv, Start PROVE Inv'
  OBVIOUS
<1>1. PICK to \in States : BeginTransition(current_, Top, to)
  BY DEF Start
<1>2. /\ pc' = "exit" /\ current_' = current_ /\ active' = active /\ effective_' = Top
      /\ target_' = to /\ source' = current_ /\ effective' = Top /\ path' = <<>> /\ lca' = 0
  BY <1>1 DEF Start, BeginTransition
<1>3. current_ = Initial /\ active = Top
  BY DEF Start, Inv, AtBoot
<1>4. AtExit'
  BY <1>2, <1>3, TreeFacts DEF AtExit, Moving
<1> QED
  BY <1>2, <1>3, <1>4, TreeFacts DEF Inv, Places, AtBoot, AtRest, AtAsk, AtReenter, AtArrive,
     AtPath, AtClimb, AtSearch, AtEnter

LEMMA DispatchStep == Inv /\ Dispatch => Inv'
<1> SUFFICES ASSUME Inv, Dispatch PROVE Inv'
  OBVIOUS
<1>1. /\ pc' = "ask" /\ source' = current_ /\ current_' = current_ /\ effective_' = effective_
      /\ target_' = target_ /\ path' = path /\ lca' = lca /\ active' = active
  BY DEF Dispatch, fields
<1>2. AtAsk'
  BY <1>1, TreeFacts DEF Dispatch, Inv, AtRest, AtAsk
<1> QED
  BY <1>1, <1>2 DEF Inv, Places, AtBoot, AtRest, AtExit, AtReenter, AtArrive,
     AtPath, AtClimb, AtSearch, AtEnter

LEMMA PassedUpStep == Inv /\ PassedUp => Inv'
<1> SUFFICES ASSUME Inv, PassedUp PROVE Inv'
  OBVIOUS
<1>1. /\ pc' = "ask" /\ source' = Parent[source] /\ effective_' = Parent[source]
      /\ current_' = current_ /\ target_' = target_ /\ path' = path /\ lca' = lca
      /\ active' = active /\ source \in States /\ pc = "ask"
  BY DEF PassedUp
<1>2. AtAsk'
  BY <1>1, TreeFacts DEF Inv, AtAsk
<1> QED
  BY <1>1, <1>2 DEF Inv, Places, AtBoot, AtRest, AtExit, AtReenter, AtArrive,
     AtPath, AtClimb, AtSearch, AtEnter

LEMMA HandledStep == Inv /\ Handled => Inv'
<1> SUFFICES ASSUME Inv, Handled PROVE Inv'
  OBVIOUS
<1>1. /\ pc' = "rest" /\ effective_' = current_ /\ current_' = current_ /\ target_' = target_
      /\ path' = path /\ lca' = lca /\ active' = active /\ pc = "ask"
  BY DEF Handled
<1>2. AtRest'
  BY <1>1 DEF Inv, AtAsk, AtRest
<1> QED
  BY <1>1, <1>2 DEF Inv, Places, AtBoot, AtAsk, AtExit, AtReenter, AtArrive,
     AtPath, AtClimb, AtSearch, AtEnter

LEMMA TranStep == Inv /\ Tran => Inv'
<1> SUFFICES ASSUME Inv, Tran PROVE Inv'
  OBVIOUS
<1>1. PICK to \in States : BeginTransition(current_, effective_, to)
  BY DEF Tran
<1>2. /\ pc = "ask" /\ pc' = "exit" /\ current_' = current_ /\ active' = active
      /\ effective_' = effective_ /\ target_' = to /\ source' = current_
      /\ effective' = effective_ /\ path' = <<>> /\ lca' = 0
  BY <1>1 DEF Tran, BeginTransition
<1>3. /\ current_ \in States /\ active = current_ /\ effective_ = source /\ source \in Tree
      /\ effective_ \in Ancestors[current_]
  BY <1>2, TreeFacts DEF Inv, AtAsk
<1>4. AtExit'
  BY <1>2, <1>3 DEF AtExit, Moving
<1> QED
  BY <1>2, <1>4, TreeFacts DEF Inv, Places, AtBoot, AtRest, AtAsk, AtReenter, AtArrive,
     AtPath, AtClimb, AtSearch, AtEnter

LEMMA ExitBelowStep == Inv /\ ExitBelow => Inv'
<1> SUFFICES ASSUME Inv, ExitBelow PROVE Inv'
  OBVIOUS
<1>1. /\ pc = "exit" /\ pc' = "exit" /\ current_' = current_ /\ target_' = target_
      /\ effective' = effective /\ path' = path /\ lca' = lca
      /\ source # effective /\ effective_' = Super(source) /\ source' = Super(source)
      /\ Exited(source)
  BY DEF ExitBelow
<1>2. Moving /\ path = <<>> /\ effective \in Ancestors[active] /\ active \in Tree
      /\ (source = active \/ (source = Initial /\ active = Top /\ effective = Top /\ effective_ = Top))
  BY <1>1 DEF Inv, AtExit
<1>3. CASE source = Initial
  <2>1. source' = Top /\ effective_' = Top /\ active' = active /\ active = Top /\ effective = Top
    BY <1>1, <1>2, <1>3, TreeFacts DEF Super, Exited
  <2>2. AtExit'
    BY <1>1, <1>2, <2>1, TreeFacts DEF AtExit, Moving
  <2> QED
    BY <1>1, <2>1, <2>2, TreeFacts DEF Inv, Places, AtBoot, AtRest, AtAsk, AtReenter, AtArrive,
       AtPath, AtClimb, AtSearch, AtEnter
<1>4. CASE source # Initial
  <2>1. source = active /\ active \in States
    BY <1>1, <1>2, <1>4, TreeFacts DEF Tree
  <2>2. source' = Parent[active] /\ effective_' = Parent[active] /\ active' = Parent[active]
    BY <1>1, <1>4, <2>1 DEF Super, Exited
  <2>3. effective \in Ancestors[Parent[active]] /\ Parent[active] \in Tree
    BY <1>1, <1>2, <2>1, TreeFacts
  <2>4. AtExit'
    BY <1>1, <1>2, <2>2, <2>3 DEF AtExit, Moving
  <2> QED
    BY <1>1, <2>2, <2>3, <2>4 DEF Inv, Places, AtBoot, AtRest, AtAsk, AtReenter, AtArrive,
       AtPath, AtClimb, AtSearch, AtEnter
<1> QED
  BY <1>3, <1>4

LEMMA ExitSelfStep == Inv /\ ExitSelf => Inv'
<1> SUFFICES ASSUME Inv, ExitSelf PROVE Inv'
  OBVIOUS
<1>1. /\ pc = "exit" /\ pc' = "reenter" /\ current_' = current_ /\ target_' = target_
      /\ effective_' = effective_ /\ source' = source
      /\ effective' = effective /\ path' = path /\ lca' = lca
      /\ source = effective /\ source = target_ /\ Exited(source)
  BY DEF ExitSelf, fields
<1>2. Moving /\ path = <<>>
  BY <1>1 DEF Inv, AtExit
<1>3. active' = Parent[target_] /\ Parent[target_] \in Tree
  BY <1>1, <1>2, TreeFacts DEF Exited, Moving
<1>4. AtReenter'
  BY <1>1, <1>2, <1>3 DEF AtReenter, Moving
<1> QED
  BY <1>1, <1>3, <1>4 DEF Inv, Places, AtBoot, AtRest, AtAsk, AtExit, AtArrive,
     AtPath, AtClimb, AtSearch, AtEnter

LEMMA EnterSelfStep == Inv /\ EnterSelf => Inv'
<1> SUFFICES ASSUME Inv, EnterSelf PROVE Inv'
  OBVIOUS
<1>1. /\ pc = "reenter" /\ pc' = "arrive" /\ current_' = current_ /\ target_' = target_
      /\ effective_' = effective_ /\ source' = source
      /\ effective' = effective /\ path' = path /\ lca' = lca /\ active' = target_
  BY DEF EnterSelf, fields, Entered
<1>2. Moving
  BY <1>1 DEF Inv, AtReenter
<1>3. AtArrive' /\ active' \in Tree
  BY <1>1, <1>2, TreeFacts DEF AtArrive, Moving
<1> QED
  BY <1>1, <1>3 DEF Inv, Places, AtBoot, AtRest, AtAsk, AtExit, AtReenter,
     AtPath, AtClimb, AtSearch, AtEnter

LEMMA ArriveSelfStep == Inv /\ ArriveSelf => Inv'
<1> SUFFICES ASSUME Inv, ArriveSelf PROVE Inv'
  OBVIOUS
<1>1. /\ pc = "arrive" /\ pc' = "rest" /\ current_' = target_ /\ target_' = NoState
      /\ effective_' = target_ /\ path' = path /\ lca' = lca /\ active' = active
  BY DEF ArriveSelf
<1>2. AtRest'
  BY <1>1 DEF Inv, AtArrive, AtRest, Moving
<1> QED
  BY <1>1, <1>2 DEF Inv, Places, AtBoot, AtAsk, AtExit, AtReenter, AtArrive,
     AtPath, AtClimb, AtSearch, AtEnter

LEMMA BeginPathStep == Inv /\ BeginPath => Inv'
<1> SUFFICES ASSUME Inv, BeginPath PROVE Inv'
  OBVIOUS
<1>1. /\ pc = "exit" /\ pc' = "path" /\ current_' = current_ /\ target_' = target_
      /\ effective_' = effective_ /\ source' = source
      /\ effective' = effective /\ path' = <<target_>> /\ lca' = lca /\ active' = active
      /\ source = effective /\ source # target_
  BY DEF BeginPath, fields
<1>2. Moving /\ source = active
  BY <1>1, TreeFacts DEF Inv, AtExit, Moving
<1>3. target_ \in States /\ target_ \in Tree
  BY <1>2, TreeFacts DEF Moving
<1>4. path' \in Seq(Tree) /\ Len(path') = 1 /\ path'[1] = target_ /\ Reached' = target_
  BY <1>1, <1>3 DEF Reached
<1>5. Chain'
  BY <1>1, <1>3, <1>4, TreeFacts DEF Chain
<1>6. Len(path') <= Q_MAX_DEPTH
  BY <1>3, <1>4, TreeFacts
<1>7. AtPath'
  BY <1>1, <1>2, <1>4, <1>5 DEF AtPath, Moving
<1> QED
  BY <1>1, <1>4, <1>6, <1>7 DEF Inv, Places, AtBoot, AtRest, AtAsk, AtExit, AtReenter, AtArrive,
     AtClimb, AtSearch, AtEnter

LEMMA ExtendPathStep == Inv /\ ExtendPath => Inv'
<1> SUFFICES ASSUME Inv, ExtendPath PROVE Inv'
  OBVIOUS
<1>1. /\ pc = "path" /\ current_' = current_ /\ target_' = target_
      /\ source' = source /\ effective' = effective /\ active' = active
      /\ Reached # Top /\ effective_' = Super(Reached) /\ path' = Append(path, effective_')
  BY DEF ExtendPath
<1>2. Moving /\ Chain /\ source = active /\ effective = active
      /\ \A i \in 1..Len(path) : path[i] # source
  BY <1>1 DEF Inv, AtPath
<1>3. Reached \in States /\ effective_' = Parent[Reached] /\ Parent[Reached] \in Tree
  BY <1>1, <1>2, ChainFits, TreeFacts DEF Moving, Super, Tree
<1>4. /\ path' \in Seq(Tree) /\ Len(path') = Len(path) + 1
      /\ \A i \in 1..Len(path) : path'[i] = path[i]
      /\ path'[Len(path) + 1] = Parent[Reached] /\ Reached' = Parent[Reached]
      /\ Len(path) \in Nat /\ Len(path) >= 1
  BY <1>1, <1>2, <1>3 DEF Chain, Reached
<1>5. Chain'
  <2>1. path'[1] = target_'
    BY <1>1, <1>2, <1>4 DEF Chain
  <2>2. \A i \in 1..(Len(path') - 1) : path'[i] \in States /\ path'[i + 1] = Parent[path'[i]]
    <3> SUFFICES ASSUME NEW i \in 1..Len(path)
                 PROVE  path'[i] \in States /\ path'[i + 1] = Parent[path'[i]]
      BY <1>4
    <3>1. CASE i = Len(path)
      BY <1>3, <1>4, <3>1 DEF Reached
    <3>2. CASE i # Len(path)
      <4>1. i \in 1..(Len(path) - 1) /\ i + 1 \in 1..Len(path)
        BY <1>4, <3>2
      <4> QED
        BY <1>2, <1>4, <4>1 DEF Chain
    <3> QED
      BY <3>1, <3>2
  <2>3. Ancestors[Reached'] \subseteq Ancestors[target_'] /\ Reached' \in Ancestors[target_']
    BY <1>1, <1>2, <1>3, <1>4, TreeFacts DEF Chain
  <2>4. \A i \in 1..Len(path') : path'[i] \in Ancestors[target_']
    <3> SUFFICES ASSUME NEW i \in 1..(Len(path) + 1) PROVE path'[i] \in Ancestors[target_]
      BY <1>1, <1>4
    <3>1. CASE i = Len(path) + 1
      BY <1>1, <1>4, <2>3, <3>1
    <3>2. CASE i # Len(path) + 1
      <4>1. i \in 1..Len(path)
        BY <1>4, <3>2
      <4> QED
        BY <1>2, <1>4, <4>1 DEF Chain
    <3> QED
      BY <3>1, <3>2
  <2>5. \A t \in Ancestors[target_'] : t \in Ancestors[Reached'] \/ \E i \in 1..Len(path') : path'[i] = t
    <3> SUFFICES ASSUME NEW t \in Ancestors[target_], t \notin Ancestors[Parent[Reached]]
                 PROVE  \E i \in 1..Len(path') : path'[i] = t
      BY <1>1, <1>4
    <3>1. \E i \in 1..Len(path) : path[i] = t
      <4>1. CASE t \in Ancestors[Reached]
        <5>1. t = Reached
          BY <1>3, <4>1, TreeFacts
        <5> QED
          BY <1>4, <5>1 DEF Reached
      <4>2. CASE t \notin Ancestors[Reached]
        BY <1>2, <4>2 DEF Chain
      <4> QED
        BY <4>1, <4>2
    <3> QED
      BY <1>4, <3>1
  <2>6. Depth[Reached'] + Len(path') - 1 = Depth[target_']
    <3>1. Depth[Reached] = Depth[Parent[Reached]] + 1 /\ Depth[Parent[Reached]] \in Nat
      BY <1>3, TreeFacts
    <3>2. Depth[Reached] + Len(path) - 1 = Depth[target_]
      BY <1>2 DEF Chain
    <3> QED
      BY <1>1, <1>4, <3>1, <3>2
  <2> QED
    BY <1>4, <2>1, <2>2, <2>3, <2>4, <2>5, <2>6 DEF Chain
<1>6. Len(path') <= Q_MAX_DEPTH /\ Moving'
  <2>1. Depth[target_] < Q_MAX_DEPTH /\ Depth[target_] \in Nat /\ Q_MAX_DEPTH \in Nat
    BY <1>2, TreeFacts DEF Moving
  <2>2. Depth[Reached'] \in Nat
    BY <1>3, <1>4, TreeFacts
  <2>3. Depth[Reached'] + Len(path') - 1 = Depth[target_]
    BY <1>1, <1>5 DEF Chain
  <2> QED
    BY <1>1, <1>2, <1>3, <1>4, <2>1, <2>2, <2>3 DEF Moving
<1>7. CASE effective_' = source
  <2>1. lca' = Len(path') /\ pc' = "enter"
    BY <1>7 DEF ExtendPath
  <2>2. path'[lca'] = active' /\ lca' \in 1..Len(path')
    BY <1>1, <1>2, <1>3, <1>4, <1>7, <2>1
  <2>3. AtEnter'
    BY <1>5, <1>6, <2>2 DEF AtEnter
  <2> QED
    BY <1>1, <1>4, <1>6, <2>1, <2>2, <2>3 DEF Inv, Places, AtBoot, AtRest, AtAsk, AtExit,
       AtReenter, AtArrive, AtPath, AtClimb, AtSearch
<1>8. CASE effective_' # source
  <2>1. lca' = lca /\ pc' = "path"
    BY <1>1, <1>8 DEF ExtendPath
  <2>2. \A i \in 1..Len(path') : path'[i] # source
    BY <1>2, <1>3, <1>4, <1>8
  <2>3. AtPath'
    BY <1>1, <1>2, <1>5, <1>6, <2>2 DEF AtPath
  <2> QED
    BY <1>1, <1>4, <1>6, <2>1, <2>3 DEF Inv, Places, AtBoot, AtRest, AtAsk, AtExit,
       AtReenter, AtArrive, AtEnter, AtClimb, AtSearch
<1> QED
  BY <1>7, <1>8

(* A step that leaves the target and path alone leaves Chain alone. *)
LEMMA ChainStays == Chain /\ UNCHANGED <<target_, path>> => Chain' /\ Reached' = Reached
BY DEF Chain, Reached

LEMMA EndPathStep == Inv /\ EndPath => Inv'
<1> SUFFICES ASSUME Inv, EndPath PROVE Inv'
  OBVIOUS
<1>1. /\ pc = "path" /\ pc' = "climb" /\ current_' = current_ /\ target_' = target_
      /\ effective_' = effective_ /\ source' = source /\ Reached = Top
      /\ effective' = effective /\ path' = path /\ lca' = lca /\ active' = active
  BY DEF EndPath, fields
<1>2. Moving /\ Chain /\ source = active /\ effective = active
      /\ \A i \in 1..Len(path) : path[i] # source
  BY <1>1 DEF Inv, AtPath
<1>3. AtClimb'
  BY <1>1, <1>2, ChainStays DEF AtClimb, Moving
<1> QED
  BY <1>1, <1>3 DEF Inv, Places, AtBoot, AtRest, AtAsk, AtExit, AtReenter, AtArrive,
     AtPath, AtSearch, AtEnter

LEMMA ClimbingIsBelowTop == Inv /\ pc = "climb" => active \in States
<1> SUFFICES ASSUME Inv, pc = "climb" PROVE active \in States
  OBVIOUS
<1>1. Chain /\ Reached = Top /\ source = active /\ \A i \in 1..Len(path) : path[i] # source
  BY DEF Inv, AtClimb
<1>2. path[Len(path)] = Top /\ Len(path) \in 1..Len(path)
  BY <1>1 DEF Chain, Reached
<1> QED
  BY <1>1, <1>2 DEF Inv, Tree

LEMMA ClimbStep == Inv /\ Climb => Inv'
<1> SUFFICES ASSUME Inv, Climb PROVE Inv'
  OBVIOUS
<1>1. /\ pc = "climb" /\ pc' = "search" /\ current_' = current_ /\ target_' = target_
      /\ effective_' = Super(source) /\ source' = Super(source) /\ Exited(source)
      /\ effective' = effective /\ path' = path /\ lca' = lca
  BY DEF Climb
<1>2. Moving /\ Chain /\ Reached = Top /\ source = active /\ active \in States
      /\ (effective = active \/ Depth[active] < Depth[effective])
  BY <1>1, ClimbingIsBelowTop DEF Inv, AtClimb
<1>3. active' = Parent[active] /\ source' = Parent[active] /\ effective_' = Parent[active]
      /\ Parent[active] \in Tree
  BY <1>1, <1>2, TreeFacts DEF Exited, Super
<1>4. Depth[active'] < Depth[effective]
  <2>1. Depth[active] = Depth[Parent[active]] + 1 /\ Depth[active] \in Nat
        /\ Depth[Parent[active]] \in Nat /\ Depth[effective] \in Nat
    BY <1>2, <1>3, TreeFacts DEF Moving
  <2> QED
    BY <1>2, <1>3, <2>1
<1>5. AtSearch'
  BY <1>1, <1>2, <1>3, <1>4, ChainStays DEF AtSearch, Moving
<1> QED
  BY <1>1, <1>3, <1>5 DEF Inv, Places, AtBoot, AtRest, AtAsk, AtExit, AtReenter, AtArrive,
     AtPath, AtClimb, AtEnter

LEMMA SearchStep == Inv /\ Search => Inv'
<1> SUFFICES ASSUME Inv, Search PROVE Inv'
  OBVIOUS
<1>1. /\ pc = "search" /\ current_' = current_ /\ target_' = target_ /\ effective_' = effective_
      /\ source' = source /\ effective' = effective /\ path' = path /\ active' = active
  BY DEF Search, fields
<1>2. Moving /\ Chain /\ Reached = Top /\ source = active /\ Depth[active] < Depth[effective]
  BY <1>1 DEF Inv, AtSearch
<1>3. Chain' /\ Reached' = Reached /\ Moving'
  BY <1>1, <1>2, ChainStays DEF Moving
<1>4. CASE Found # {}
  <2>1. lca' \in Found /\ pc' = "enter"
    BY <1>4 DEF Search
  <2>2. lca' \in 1..Len(path') /\ path'[lca'] = active' /\ lca' \in Nat
    BY <1>1, <1>2, <2>1 DEF Found
  <2>3. AtEnter'
    BY <1>3, <2>2 DEF AtEnter
  <2> QED
    BY <1>1, <2>1, <2>2, <2>3 DEF Inv, Places, AtBoot, AtRest, AtAsk, AtExit, AtReenter,
       AtArrive, AtPath, AtClimb, AtSearch
<1>5. CASE Found = {}
  <2>1. lca' = lca /\ pc' = "climb"
    BY <1>5 DEF Search
  <2>2. \A i \in 1..Len(path) : path[i] # source
    BY <1>5 DEF Found
  <2>3. AtClimb'
    BY <1>1, <1>2, <1>3, <2>2 DEF AtClimb
  <2> QED
    BY <1>1, <2>1, <2>3 DEF Inv, Places, AtBoot, AtRest, AtAsk, AtExit, AtReenter,
       AtArrive, AtPath, AtEnter, AtSearch
<1> QED
  BY <1>4, <1>5

LEMMA EnterNextStep == Inv /\ EnterNext => Inv'
<1> SUFFICES ASSUME Inv, EnterNext PROVE Inv'
  OBVIOUS
<1>1. /\ pc = "enter" /\ pc' = "enter" /\ current_' = current_ /\ target_' = target_
      /\ effective_' = effective_ /\ source' = source /\ effective' = effective /\ path' = path
      /\ lca > 1 /\ lca' = lca - 1 /\ active' = path[lca - 1]
  BY DEF EnterNext, fields, Entered
<1>2. Moving /\ Chain /\ lca \in 1..Len(path)
  BY <1>1 DEF Inv, AtEnter
<1>3. Chain' /\ Moving'
  BY <1>1, <1>2, ChainStays DEF Moving
<1>4. lca' \in 1..Len(path') /\ path'[lca'] = active' /\ active' \in Tree /\ lca' \in Nat
  BY <1>1, <1>2 DEF Chain
<1>5. AtEnter'
  BY <1>3, <1>4 DEF AtEnter
<1> QED
  BY <1>1, <1>4, <1>5 DEF Inv, Places, AtBoot, AtRest, AtAsk, AtExit, AtReenter,
     AtArrive, AtPath, AtClimb, AtSearch

LEMMA ArriveStep == Inv /\ Arrive => Inv'
<1> SUFFICES ASSUME Inv, Arrive PROVE Inv'
  OBVIOUS
<1>1. /\ pc = "enter" /\ pc' = "rest" /\ lca = 1 /\ current_' = path[1] /\ effective_' = path[1]
      /\ target_' = NoState /\ path' = path /\ lca' = lca /\ active' = active
  BY DEF Arrive
<1>2. Moving /\ Chain /\ path[1] = active
  BY <1>1 DEF Inv, AtEnter
<1>3. AtRest'
  BY <1>1, <1>2 DEF AtRest, Chain, Moving
<1> QED
  BY <1>1, <1>3 DEF Inv, Places, AtBoot, AtAsk, AtExit, AtReenter,
     AtArrive, AtPath, AtClimb, AtSearch, AtEnter

LEMMA StutterStep == Inv /\ UNCHANGED vars => Inv'
BY DEF Inv, vars, Places, AtBoot, AtRest, AtAsk, AtExit, AtReenter, AtArrive, AtPath, AtClimb,
   AtSearch, AtEnter, Moving, Chain, Reached

LEMMA StepInv == Inv /\ [Next]_vars => Inv'
BY StartStep, DispatchStep, PassedUpStep, HandledStep, TranStep, ExitBelowStep, ExitSelfStep,
   EnterSelfStep, ArriveSelfStep, BeginPathStep, ExtendPathStep, EndPathStep, ClimbStep,
   SearchStep, EnterNextStep, ArriveStep, StutterStep DEF Next, Running, do_transition

LEMMA AlwaysInv == Spec => []Inv
BY InitInv, StepInv, PTL DEF Spec

(* Every field and local keeps its type: handlers stay in the tree (or are
   the initial pseudo-state), and lca is an index. *)
THEOREM TypeCorrect == Spec => []TypeOK
<1>1. Init => TypeOK
  BY TreeFacts DEF Init, TypeOK, Handlers, Tree
<1>2. Inv /\ Inv' /\ TypeOK /\ [Next]_vars => TypeOK'
  <2> SUFFICES ASSUME Inv, Inv', TypeOK, [Next]_vars PROVE TypeOK'
    OBVIOUS
  <2>1. /\ active' \in States \cup {Top} /\ pc' \in Places /\ lca' \in Nat
        /\ path' \in Seq(States \cup {Top})
    BY DEF Inv, Tree
  <2>2. /\ current_ \in States \cup {Initial} /\ effective_ \in Handlers /\ source \in Handlers
        /\ effective \in Handlers \cup {NoState} /\ target_ \in States \cup {NoState}
        /\ \A s \in States : Parent[s] \in Handlers /\ s \in Handlers
        /\ Top \in Handlers /\ \A t \in Tree : t \in Handlers
        /\ \A s \in Handlers : s # Top => Super(s) \in Handlers
    BY TreeFacts DEF TypeOK, Handlers, Tree, Super
  <2>3. CASE Start \/ Tran \/ Dispatch \/ PassedUp \/ Handled \/ BeginPath \/ EndPath
    BY <2>1, <2>2, <2>3, TreeFacts DEF TypeOK, Places, Start, Tran, BeginTransition, Dispatch,
       PassedUp, Handled, BeginPath, EndPath, fields, Handlers
  <2>4. CASE ExitBelow
    <3>1. Super(source) \in Handlers
      <4>1. CASE source = Initial
        BY <2>2, <4>1 DEF Super
      <4>2. CASE source # Initial
        <5>1. source \in States
          BY <2>4, <4>2, TreeFacts DEF ExitBelow, Inv, AtExit, Tree, Moving
        <5> QED
          BY <2>2, <5>1, TreeFacts DEF Super
      <4> QED
        BY <4>1, <4>2
    <3> QED
      BY <2>1, <2>2, <2>4, <3>1 DEF TypeOK, Places, ExitBelow
  <2>5. CASE ExitSelf \/ EnterSelf \/ Search \/ EnterNext
    BY <2>1, <2>2, <2>5 DEF TypeOK, Places, ExitSelf, EnterSelf, Search, EnterNext, fields
  <2>6. CASE Arrive \/ ArriveSelf
    <3>1. current_' \in States /\ effective_' = current_' /\ target_' = NoState
      BY <2>6 DEF Inv, AtRest, Arrive, ArriveSelf
    <3> QED
      BY <2>1, <2>2, <2>6, <3>1 DEF TypeOK, Places, Arrive, ArriveSelf
  <2>7. CASE ExtendPath
    <3>1. effective_' \in Handlers
      BY <2>2, <2>7, ChainFits DEF ExtendPath, Inv, AtPath, Moving
    <3> QED
      BY <2>1, <2>2, <2>7, <3>1 DEF TypeOK, Places, ExtendPath
  <2>8. CASE Climb
    <3>1. source \in States
      BY <2>8, ClimbingIsBelowTop DEF Climb, Inv, AtClimb
    <3>2. effective_' \in Handlers /\ source' \in Handlers
      BY <2>2, <2>8, <3>1, TreeFacts DEF Climb, Super
    <3> QED
      BY <2>1, <2>2, <2>8, <3>2 DEF TypeOK, Places, Climb
  <2>9. CASE UNCHANGED vars
    BY <2>9 DEF vars, TypeOK
  <2> QED
    BY <2>3, <2>4, <2>5, <2>6, <2>7, <2>8, <2>9 DEF Next, Running, do_transition
<1> QED
  BY <1>1, <1>2, AlwaysInv, PTL DEF Spec

(* Between two events the fields of QHsm agree with the calls made: QMsm_init
   and do_transition leave current_ at the state entered last and effective_
   beside it. *)
THEOREM FieldsAgree == Spec => []RestsConsistent
<1>1. Inv => RestsConsistent
  BY DEF Inv, AtRest, RestsConsistent
<1> QED
  BY AlwaysInv, <1>1, PTL

(* do_transition's untested array path is large enough for every tree whose
   states are less than Q_MAX_DEPTH below QHsm_top. *)
THEOREM PathIsLongEnough == Spec => []PathFits
<1>1. Inv => PathFits
  BY DEF Inv, PathFits
<1> QED
  BY AlwaysInv, <1>1, PTL
----
(***************************************************************************)
(* Every step is one of Statechart's or changes nothing it can see.  Of    *)
(* the steps that it can see, leaving and entering need MustLeave decided. *)
(***************************************************************************)
AbstractVars == <<active, Phase, Handler, target_>>

LEMMA SameForStatechart == UNCHANGED AbstractVars => [Abstract!Next]_(Abstract!vars)
BY DEF AbstractVars, Abstract!vars

LEMMA PhaseAt ==
  /\ pc \in {"boot", "rest", "ask"} => Phase = "rest" /\ Handler = NoState
  /\ pc \in {"exit", "reenter", "path", "climb", "search"} => Phase = "leave" /\ Handler = effective
  /\ pc \in {"arrive", "enter"} => Phase = "enter" /\ Handler = effective
BY DEF Phase, Handler

LEMMA PhaseAtNext ==
  /\ pc' \in {"boot", "rest", "ask"} => Phase' = "rest" /\ Handler' = NoState
  /\ pc' \in {"exit", "reenter", "path", "climb", "search"} => Phase' = "leave" /\ Handler' = effective'
  /\ pc' \in {"arrive", "enter"} => Phase' = "enter" /\ Handler' = effective'
BY DEF Phase, Handler

LEMMA TakeRefines ==
  ASSUME Inv, Start \/ Tran
  PROVE  Abstract!Take
<1>1. CASE Start
  <2>1. PICK to \in States : BeginTransition(current_, Top, to)
    BY <1>1 DEF Start
  <2>2. pc = "boot" /\ pc' = "exit" /\ effective' = Top /\ target_' \in States /\ active' = active
    BY <1>1, <2>1 DEF Start, BeginTransition
  <2>3. Top \in Ancestors[active]
    BY <2>2, TreeFacts DEF Inv, AtBoot
  <2> QED
    BY <2>2, <2>3, PhaseAt, PhaseAtNext DEF Abstract!Take
<1>2. CASE Tran
  <2>1. PICK to \in States : BeginTransition(current_, effective_, to)
    BY <1>2 DEF Tran
  <2>2. /\ pc = "ask" /\ pc' = "exit" /\ effective' = effective_ /\ target_' \in States
        /\ active' = active
    BY <1>2, <2>1 DEF Tran, BeginTransition
  <2>3. effective_ \in Ancestors[active]
    BY <2>2, TreeFacts DEF Inv, AtAsk
  <2> QED
    BY <2>2, <2>3, PhaseAt, PhaseAtNext DEF Abstract!Take
<1> QED
  BY <1>1, <1>2

LEMMA ExitBelowRefines ==
  ASSUME Inv, ExitBelow
  PROVE  Abstract!Leave \/ UNCHANGED AbstractVars
<1>1. /\ pc = "exit" /\ pc' = "exit" /\ target_' = target_ /\ effective' = effective
      /\ source # effective /\ Exited(source)
  BY DEF ExitBelow
<1>2. Phase = "leave" /\ Phase' = "leave" /\ Handler = effective /\ Handler' = effective
  BY <1>1, PhaseAt, PhaseAtNext
<1>3. CASE source = Initial
  <2>1. active' = active
    BY <1>1, <1>3 DEF Exited
  <2> QED
    BY <1>1, <1>2, <2>1 DEF AbstractVars
<1>4. CASE source # Initial
  <2>1. source = active /\ active' = Parent[active] /\ effective \in Ancestors[active]
    BY <1>1, <1>4 DEF Exited, Inv, AtExit
  <2>2. Abstract!MustLeave
    BY <1>1, <1>2, <2>1 DEF Abstract!MustLeave
  <2> QED
    BY <1>1, <1>2, <2>1, <2>2 DEF Abstract!Leave
<1> QED
  BY <1>3, <1>4

LEMMA ExitSelfRefines ==
  ASSUME Inv, ExitSelf
  PROVE  Abstract!Leave
<1>1. /\ pc = "exit" /\ pc' = "reenter" /\ target_' = target_ /\ effective' = effective
      /\ source = effective /\ source = target_ /\ Exited(source)
  BY DEF ExitSelf, fields
<1>2. source = active /\ active' = Parent[active]
  BY <1>1, TreeFacts DEF Exited, Inv, AtExit, Moving
<1>3. Phase = "leave" /\ Phase' = "leave" /\ Handler = effective /\ Handler' = effective
  BY <1>1, PhaseAt, PhaseAtNext
<1>4. Abstract!MustLeave
  BY <1>1, <1>2, <1>3 DEF Abstract!MustLeave
<1> QED
  BY <1>1, <1>2, <1>3, <1>4 DEF Abstract!Leave

LEMMA EnterSelfRefines ==
  ASSUME Inv, EnterSelf
  PROVE  Abstract!Enter
<1>1. /\ pc = "reenter" /\ pc' = "arrive" /\ target_' = target_ /\ effective' = effective
      /\ active' = target_
  BY DEF EnterSelf, fields, Entered
<1>2. target_ \in States /\ effective = target_ /\ active = Parent[target_]
  BY <1>1 DEF Inv, AtReenter, Moving
<1>3. Phase = "leave" /\ Phase' = "enter" /\ Handler = effective /\ Handler' = effective
  BY <1>1, PhaseAt, PhaseAtNext
<1>4. target_ \notin Ancestors[active] /\ active \in Ancestors[target_] /\ active # target_
      /\ target_ \in Ancestors[target_]
  BY <1>2, TreeFacts
<1>5. ~Abstract!MustLeave
  BY <1>2, <1>3, <1>4 DEF Abstract!MustLeave
<1> QED
  BY <1>1, <1>2, <1>3, <1>4, <1>5 DEF Abstract!Enter

(* The common ancestor was found: what is above stays, what is below is left. *)
LEMMA LeftAllRefines ==
  ASSUME pc \in {"path", "search"}, pc' = "enter", UNCHANGED <<target_, effective, active>>,
         effective \notin Ancestors[active] \ {active}, active \in Ancestors[target_],
         active # effective \/ active # target_
  PROVE  Abstract!LeftAll
<1>1. Phase = "leave" /\ Phase' = "enter" /\ Handler = effective /\ Handler' = effective
  BY PhaseAt, PhaseAtNext
<1>2. ~Abstract!MustLeave
  BY <1>1 DEF Abstract!MustLeave
<1> QED
  BY <1>1, <1>2 DEF Abstract!LeftAll

LEMMA ExtendPathRefines ==
  ASSUME Inv, ExtendPath
  PROVE  Abstract!LeftAll \/ UNCHANGED AbstractVars
<1>1. /\ pc = "path" /\ target_' = target_ /\ source' = source /\ effective' = effective
      /\ active' = active /\ Reached # Top /\ effective_' = Super(Reached)
  BY DEF ExtendPath
<1>2. Moving /\ Chain /\ source = active /\ effective = active
      /\ \A i \in 1..Len(path) : path[i] # source
  BY <1>1 DEF Inv, AtPath
<1>3. CASE effective_' = source
  <2>1. pc' = "enter"
    BY <1>3 DEF ExtendPath
  <2>2. Reached \in States /\ source = Parent[Reached]
    BY <1>1, <1>2, <1>3, ChainFits, TreeFacts DEF Moving, Super, Tree
  <2>3. active \in Ancestors[target_]
    BY <1>2, <2>2, TreeFacts DEF Chain
  <2>4. active # target_
    <3>1. 1 \in 1..Len(path) /\ path[1] = target_
      BY <1>2 DEF Chain
    <3> QED
      BY <1>2, <3>1
  <2> QED
    BY <1>1, <1>2, <2>1, <2>3, <2>4, LeftAllRefines
<1>4. CASE effective_' # source
  <2>1. pc' = "path"
    BY <1>1, <1>4 DEF ExtendPath
  <2> QED
    BY <1>1, <2>1, PhaseAt, PhaseAtNext DEF AbstractVars
<1> QED
  BY <1>3, <1>4

LEMMA ClimbRefines ==
  ASSUME Inv, Climb
  PROVE  Abstract!Leave
<1>1. pc = "climb" /\ pc' = "search" /\ target_' = target_ /\ effective' = effective /\ Exited(source)
  BY DEF Climb
<1>2. Chain /\ Reached = Top /\ source = active /\ active \in States
      /\ \A i \in 1..Len(path) : path[i] # source
  BY <1>1, ClimbingIsBelowTop DEF Inv, AtClimb
<1>3. active' = Parent[active]
  BY <1>1, <1>2, TreeFacts DEF Exited
<1>4. active \notin Ancestors[target_]
  <2>1. active \notin Ancestors[Reached]
    BY <1>2, TreeFacts
  <2> QED
    BY <1>2, <2>1 DEF Chain
<1>5. Phase = "leave" /\ Phase' = "leave" /\ Handler = effective /\ Handler' = effective
  BY <1>1, PhaseAt, PhaseAtNext
<1>6. Abstract!MustLeave
  BY <1>4 DEF Abstract!MustLeave
<1> QED
  BY <1>1, <1>3, <1>5, <1>6 DEF Abstract!Leave

LEMMA SearchRefines ==
  ASSUME Inv, Search
  PROVE  Abstract!LeftAll \/ UNCHANGED AbstractVars
<1>1. pc = "search" /\ target_' = target_ /\ effective' = effective /\ active' = active
  BY DEF Search, fields
<1>2. Moving /\ Chain /\ source = active /\ Depth[active] < Depth[effective] /\ active \in Tree
  BY <1>1 DEF Inv, AtSearch
<1>3. CASE Found # {}
  <2>1. pc' = "enter" /\ \E i \in 1..Len(path) : path[i] = active
    BY <1>2, <1>3 DEF Search, Found
  <2>2. active \in Ancestors[target_]
    BY <1>2, <2>1 DEF Chain
  <2>3. effective \notin Ancestors[active] /\ active # effective
    <3>1. Depth[active] \in Nat /\ Depth[effective] \in Nat
      BY <1>2, TreeFacts DEF Moving
    <3>2. \A t \in Ancestors[active] : t = active \/ Depth[t] < Depth[active]
      BY <1>2, TreeFacts
    <3> QED
      BY <1>2, <3>1, <3>2
  <2> QED
    BY <1>1, <2>1, <2>2, <2>3, LeftAllRefines
<1>4. CASE Found = {}
  <2>1. pc' = "climb"
    BY <1>4 DEF Search
  <2> QED
    BY <1>1, <2>1, PhaseAt, PhaseAtNext DEF AbstractVars
<1> QED
  BY <1>3, <1>4

LEMMA EnterNextRefines ==
  ASSUME Inv, EnterNext
  PROVE  Abstract!Enter
<1>1. /\ pc = "enter" /\ pc' = "enter" /\ target_' = target_ /\ effective' = effective
      /\ lca > 1 /\ active' = path[lca - 1]
  BY DEF EnterNext, fields, Entered
<1>2. Moving /\ Chain /\ lca \in 1..Len(path) /\ path[lca] = active
  BY <1>1 DEF Inv, AtEnter
<1>3. lca - 1 \in 1..(Len(path) - 1) /\ lca - 1 \in 1..Len(path)
  BY <1>1, <1>2 DEF Chain
<1>4. path[(lca - 1) + 1] = Parent[path[lca - 1]] /\ path[lca - 1] \in States
      /\ path[lca - 1] \in Ancestors[target_]
  BY <1>2, <1>3 DEF Chain
<1>5. Parent[active'] = active /\ active' \in Ancestors[target_] /\ active' \in States
  BY <1>1, <1>2, <1>4
<1>6. active # target_
  <2>1. path[lca - 1] = target_ \/ Depth[path[lca - 1]] < Depth[target_]
    BY <1>2, <1>4, TreeFacts DEF Moving
  <2>2. Depth[path[lca - 1]] = Depth[active] + 1 /\ Depth[active] \in Nat
        /\ Depth[target_] \in Nat
    BY <1>1, <1>2, <1>4, <1>5, TreeFacts DEF Moving, Inv
  <2> QED
    BY <2>1, <2>2
<1>7. Phase = "enter" /\ Phase' = "enter" /\ Handler = effective /\ Handler' = effective
  BY <1>1, PhaseAt, PhaseAtNext
<1> QED
  BY <1>1, <1>5, <1>6, <1>7 DEF Abstract!Enter

LEMMA ArriveRefines ==
  ASSUME Inv, Arrive \/ ArriveSelf
  PROVE  Abstract!Arrive
<1>1. /\ pc \in {"enter", "arrive"} /\ pc' = "rest" /\ target_' = NoState /\ active' = active
  BY DEF Arrive, ArriveSelf
<1>2. active = target_
  BY DEF Arrive, ArriveSelf, Inv, AtEnter, AtArrive, Chain
<1> QED
  BY <1>1, <1>2, PhaseAt, PhaseAtNext DEF Abstract!Arrive

LEMMA InvisibleSteps ==
  ASSUME Inv, Dispatch \/ PassedUp \/ Handled \/ BeginPath \/ EndPath
  PROVE  UNCHANGED AbstractVars
<1>1. UNCHANGED <<active, target_>>
  BY DEF Dispatch, PassedUp, Handled, BeginPath, EndPath, fields
<1>2. CASE Dispatch \/ PassedUp \/ Handled
  <2>1. pc \in {"rest", "ask"} /\ pc' \in {"rest", "ask"}
    BY <1>2 DEF Dispatch, PassedUp, Handled
  <2> QED
    BY <1>1, <2>1, PhaseAt, PhaseAtNext DEF AbstractVars
<1>3. CASE BeginPath \/ EndPath
  <2>1. pc \in {"exit", "path"} /\ pc' \in {"path", "climb"} /\ effective' = effective
    BY <1>3 DEF BeginPath, EndPath
  <2> QED
    BY <1>1, <2>1, PhaseAt, PhaseAtNext DEF AbstractVars
<1> QED
  BY <1>2, <1>3

LEMMA StepRefines == Inv /\ [Next]_vars => [Abstract!Next]_(Abstract!vars)
<1> SUFFICES ASSUME Inv, [Next]_vars PROVE Abstract!Next \/ UNCHANGED AbstractVars
  BY SameForStatechart
<1>1. CASE Start \/ Tran
  BY <1>1, TakeRefines DEF Abstract!Next
<1>2. CASE ExitBelow
  BY <1>2, ExitBelowRefines DEF Abstract!Next
<1>3. CASE ExitSelf \/ Climb
  BY <1>3, ExitSelfRefines, ClimbRefines DEF Abstract!Next
<1>4. CASE EnterSelf \/ EnterNext
  BY <1>4, EnterSelfRefines, EnterNextRefines DEF Abstract!Next
<1>5. CASE ExtendPath \/ Search
  BY <1>5, ExtendPathRefines, SearchRefines DEF Abstract!Next
<1>6. CASE Arrive \/ ArriveSelf
  BY <1>6, ArriveRefines DEF Abstract!Next
<1>7. CASE Dispatch \/ PassedUp \/ Handled \/ BeginPath \/ EndPath
  BY <1>7, InvisibleSteps
<1>8. CASE UNCHANGED vars
  BY <1>8 DEF vars, AbstractVars, Phase, Handler
<1> QED
  BY <1>1, <1>2, <1>3, <1>4, <1>5, <1>6, <1>7, <1>8 DEF Next, Running, do_transition

(* QMsm_dispatch and do_transition make the exit and entry calls of a
   hierarchical state machine, and only these, in its order, for every tree
   and every choice of handler and target. *)
THEOREM RefinesStatechart == Spec => ImplementsStatechart
<1>1. Init => Abstract!Init
  BY DEF Init, Abstract!Init, Phase, Handler
<1>2. Inv /\ [Next]_vars => [Abstract!Next]_(Abstract!vars)
  BY StepRefines
<1> QED
  BY <1>1, <1>2, AlwaysInv, PTL DEF Spec, ImplementsStatechart, Abstract!Spec
====
