---------------------------- MODULE BoundedFifo ----------------------------
(***************************************************************************)
(* What EvtMsgQ_t promises its users, with no ring, pointer or semaphore:  *)
(* a first-in first-out queue of at most Cap messages.  A sender either    *)
(* appends its message or is told so; a receiver either takes the oldest   *)
(* message or gets the empty one.                                          *)
(***************************************************************************)
EXTENDS Naturals, Sequences

CONSTANTS Cap,      \* length of the queue
          Msgs,     \* messages
          NoMsg,    \* what a receiver gets when there was no message
          Senders,  \* contexts that send
          Fetchers  \* threads that receive

VARIABLES q,        \* messages accepted and not yet taken, oldest first
          got,      \* last message each fetcher returned with
          rslt      \* last return value each sender got

vars == <<q, got, rslt>>

Init ==
  /\ q = <<>>
  /\ got = [f \in Fetchers |-> NoMsg]
  /\ rslt = [s \in Senders |-> "none"]

Put(s, m) ==
  /\ Len(q) < Cap
  /\ q' = Append(q, m)
  /\ rslt' = [rslt EXCEPT ![s] = "retvOk"]
  /\ UNCHANGED got

Refuse(s) ==
  /\ rslt' = [rslt EXCEPT ![s] = "retvTimeout"]
  /\ UNCHANGED <<q, got>>

Take(f) ==
  /\ q # <<>>
  /\ q' = Tail(q)
  /\ got' = [got EXCEPT ![f] = Head(q)]
  /\ UNCHANGED rslt

Miss(f) ==
  /\ got' = [got EXCEPT ![f] = NoMsg]
  /\ UNCHANGED <<q, rslt>>

Next ==
  \/ \E s \in Senders : Refuse(s) \/ \E m \in Msgs : Put(s, m)
  \/ \E f \in Fetchers : Take(f) \/ Miss(f)

Spec == Init /\ [][Next]_vars
=============================================================================
