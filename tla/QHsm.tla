---- MODULE QHsm ----
(***************************************************************************)
(* Hierarchical state machines of api/qhsm.c: QMsm_init, QMsm_dispatch and *)
(* do_transition, one call of a handler per step.  A handler is a function *)
(* that answers an event by Q_SUPER, Q_TRAN or Q_HANDLED and is asked for  *)
(* its parent with QEP_EMPTY_SIG_; the answers travel through the fields   *)
(* effective_ and target_ of the machine, which the code reads back later. *)
(***************************************************************************)
EXTENDS Integers, Sequences

CONSTANTS States,       \* the state handlers
          Top,          \* QHsm_top
          Parent,       \* the state each handler passes to Q_SUPER
          Ancestors,    \* a state, its parent, and so on, up to Top
          Depth,        \* how far a state is below Top
          NoState,      \* NULL
          Initial,      \* the initial pseudo-state's handler
          Q_MAX_DEPTH   \* places in do_transition's path

(* The parents form a tree below Top. *)
ASSUME TreeAssumption ==
  /\ Top \notin States /\ NoState \notin States \cup {Top}
  /\ Parent \in [States -> States \cup {Top}]
  /\ Depth \in [States \cup {Top} -> Nat]
  /\ Ancestors \in [States \cup {Top} -> SUBSET (States \cup {Top})] /\ Ancestors[Top] = {Top}
  /\ \A s \in States : /\ Depth[s] = Depth[Parent[s]] + 1
                       /\ Ancestors[s] = {s} \cup Ancestors[Parent[s]]
                       /\ \A t \in Ancestors[s] : t = s \/ Depth[t] < Depth[s]

(* do_transition's path holds a state, its ancestors and QHsm_top. *)
ASSUME DepthAssumption ==
  /\ Initial \notin States \cup {Top, NoState}
  /\ Q_MAX_DEPTH \in Nat /\ \A s \in States : Depth[s] < Q_MAX_DEPTH

VARIABLES current_, effective_, target_,        \* fields of QHsm
          source, effective, path, lca,         \* locals of do_transition
          pc,
          active        \* history: the innermost state that the calls
                        \* with Q_ENTRY_SIG and Q_EXIT_SIG leave entered

fields == <<current_, effective_, target_>>
vars == <<current_, effective_, target_, source, effective, path, lca, pc, active>>

Handlers == States \cup {Top, Initial}

TypeOK == /\ current_ \in States \cup {Initial} /\ effective_ \in Handlers
          /\ target_ \in States \cup {NoState}
          /\ source \in Handlers /\ effective \in Handlers \cup {NoState}
          /\ path \in Seq(States \cup {Top}) /\ lca \in Nat
          /\ pc \in {"boot", "rest", "ask", "exit", "reenter", "arrive", "path", "climb", "search", "enter"}
          /\ active \in States \cup {Top}

(* QHsm_ctor *)
Init == /\ current_ = Initial /\ effective_ = Initial /\ target_ = NoState
        /\ source = Initial /\ effective = NoState /\ path = <<>> /\ lca = 0
        /\ pc = "boot" /\ active = Top

(* What a call with Q_EXIT_SIG and one with Q_ENTRY_SIG do to the states
   entered; the initial pseudo-state is never entered. *)
Exited(s)  == active' = IF s = Initial THEN active ELSE Parent[s]
Entered(s) == active' = s

(* What effective_ holds after s was asked with QEP_EMPTY_SIG_: the initial
   pseudo-state answers Q_TRAN and leaves it alone. *)
Super(s) == IF s = Initial THEN effective_ ELSE Parent[s]

(* do_transition's first lines *)
BeginTransition(from, upto, to) ==
  /\ target_' = to
  /\ source' = from /\ effective' = upto
  /\ path' = <<>> /\ lca' = 0 /\ pc' = "exit"

(* QMsm_init: the initial handler chooses a start state. *)
Start == /\ pc = "boot"
         /\ effective_' = Top
         /\ \E to \in States : BeginTransition(current_, Top, to)
         /\ UNCHANGED <<current_, active>>

(* QMsm_dispatch: the current state is asked first. *)
Dispatch == /\ pc = "rest" /\ pc' = "ask" /\ source' = current_
            /\ UNCHANGED <<fields, effective, path, lca, active>>

PassedUp == /\ pc = "ask" /\ source \in States
            /\ effective_' = Parent[source] /\ source' = effective_'
            /\ UNCHANGED <<current_, target_, effective, path, lca, pc, active>>

(* mutant: after an event that was passed up and handled, effective_ stays
   with the handler *)
HandledKeeps == /\ pc = "ask" /\ pc' = "rest"
                /\ UNCHANGED <<fields, source, effective, path, lca, active>>

(* Q_HANDLED and Q_UNHANDLED of a state, Q_RET_IGNORED of QHsm_top *)
Handled == /\ pc = "ask" /\ pc' = "rest"
           /\ effective_' = current_
           /\ UNCHANGED <<current_, target_, source, effective, path, lca, active>>

Tran == /\ pc = "ask" /\ source \in States
        /\ \E to \in States : BeginTransition(current_, effective_, to)
        /\ UNCHANGED <<current_, effective_, active>>

(* mutant: source is not read back from effective_ *)
ExitBelowStays == /\ pc = "exit" /\ source # effective
                  /\ Exited(source) /\ effective_' = Super(source)
                  /\ UNCHANGED <<current_, target_, source, effective, path, lca, pc>>

(* Leave the states below the one that handled the event. *)
ExitBelow == /\ pc = "exit" /\ source # effective
             /\ Exited(source) /\ effective_' = Super(source) /\ source' = effective_'
             /\ UNCHANGED <<current_, target_, effective, path, lca, pc>>

(* A transition of the handler to itself *)
ExitSelf == /\ pc = "exit" /\ source = effective /\ source = target_
            /\ Exited(source) /\ pc' = "reenter"
            /\ UNCHANGED <<fields, source, effective, path, lca>>

EnterSelf == /\ pc = "reenter" /\ Entered(target_) /\ pc' = "arrive"
             /\ UNCHANGED <<fields, source, effective, path, lca>>

ArriveSelf == /\ pc = "arrive" /\ pc' = "rest"
              /\ current_' = target_ /\ effective_' = target_ /\ target_' = NoState
              /\ UNCHANGED <<source, effective, path, lca, active>>

BeginPath == /\ pc = "exit" /\ source = effective /\ source # target_
             /\ path' = <<target_>> /\ pc' = "path"
             /\ UNCHANGED <<fields, source, effective, lca, active>>

Reached == path[Len(path)]

(* The target's ancestors up to the source, or up to QHsm_top *)
ExtendPath == /\ pc = "path" /\ Reached # Top
              /\ effective_' = Super(Reached)
              /\ path' = Append(path, effective_')
              /\ IF effective_' = source
                   THEN lca' = Len(path') /\ pc' = "enter"
                   ELSE UNCHANGED <<lca, pc>>
              /\ UNCHANGED <<current_, target_, source, effective, active>>

(* mutant: QHsm_top is written once more behind the loop *)
EndPathAppends == /\ pc = "path" /\ Reached = Top /\ pc' = "climb"
                  /\ path' = Append(path, Top)
                  /\ UNCHANGED <<fields, source, effective, lca, active>>

EndPath == /\ pc = "path" /\ Reached = Top /\ pc' = "climb"
           /\ UNCHANGED <<fields, source, effective, path, lca, active>>

(* Leave the source, its parent and so on, and look for each parent among
   the target's ancestors. *)
Climb == /\ pc = "climb" /\ pc' = "search"
         /\ Exited(source) /\ effective_' = Super(source) /\ source' = effective_'
         /\ UNCHANGED <<current_, target_, effective, path, lca>>

Found == {i \in 1..Len(path) : path[i] = source}

(* mutant: the search starts behind the target *)
SearchSkipsTarget == /\ pc = "search"
                     /\ IF Found \ {1} # {} THEN lca' \in Found \ {1} /\ pc' = "enter"
                                             ELSE pc' = "climb" /\ UNCHANGED lca
                     /\ UNCHANGED <<fields, source, effective, path, active>>

Search == /\ pc = "search"
          /\ IF Found # {} THEN lca' \in Found /\ pc' = "enter"
                           ELSE pc' = "climb" /\ UNCHANGED lca
          /\ UNCHANGED <<fields, source, effective, path, active>>

(* Enter the target's ancestors below the common one, and the target. *)
EnterNext == /\ pc = "enter" /\ lca > 1
             /\ Entered(path[lca - 1]) /\ lca' = lca - 1
             /\ UNCHANGED <<fields, source, effective, path, pc>>

Arrive == /\ pc = "enter" /\ lca = 1 /\ pc' = "rest"
          /\ current_' = path[lca] /\ effective_' = path[lca] /\ target_' = NoState
          /\ UNCHANGED <<source, effective, path, lca, active>>

do_transition == \/ ExitBelow \/ ExitSelf \/ EnterSelf \/ ArriveSelf \/ BeginPath \/ ExtendPath
                 \/ EndPath \/ Climb \/ Search \/ EnterNext \/ Arrive

Running == Start \/ PassedUp \/ Handled \/ Tran \/ do_transition
Next == Dispatch \/ Running

(* The code runs without waiting for anything. *)
Spec == Init /\ [][Next]_vars /\ WF_vars(Running)
----
(* Between two events the machine's fields agree with the calls it made: the
   state current_ is the one entered last, effective_ equals it (do_transition
   takes effective_ for the state that handled the next event), and no target
   is pending. *)
RestsConsistent == pc = "rest" => /\ current_ = active /\ effective_ = current_
                                  /\ target_ = NoState

(* do_transition never writes past path[Q_MAX_DEPTH - 1], which it does not
   test. *)
PathFits == Len(path) <= Q_MAX_DEPTH

(* Dispatching makes exactly the exit and entry calls that Statechart allows,
   in that order, whatever the tree and whichever state handles the event. *)
Phase == IF pc \in {"boot", "rest", "ask"} THEN "rest"
         ELSE IF pc \in {"exit", "reenter", "path", "climb", "search"} THEN "leave"
         ELSE "enter"
Handler == IF pc \in {"boot", "rest", "ask"} THEN NoState ELSE effective
Abstract == INSTANCE Statechart WITH phase <- Phase, handler <- Handler, goal <- target_
ImplementsStatechart == Abstract!Spec

(* Every dispatch returns: neither the search for the common ancestor nor the
   way down runs on for ever. *)
Returns == pc # "rest" ~> pc = "rest"
====
