------------------------------ MODULE EvtMsgQ ------------------------------
(***************************************************************************)
(* EvtMsgQ_t<T, Sz> (embedded/kl_lib/MsgQ.h), the queue through which      *)
(* every interrupt handler and thread of the Locket talks to another: a    *)
(* ring of Sz messages guarded by two counting semaphores of the kernel,   *)
(* FullSem (messages to fetch) and EmptySem (free places).  Everything     *)
(* between chSysLock and chSysUnlock is one step; a thread that sleeps     *)
(* inside a call leaves the lock, so its call is two steps, and anything   *)
(* may run between them -- also between the step that wakes it and the     *)
(* step in which it runs again.                                            *)
(***************************************************************************)
EXTENDS Integers, Sequences, FiniteSets, SequencesExt

CONSTANTS Sz,        \* length of IBuf
          Msgs,      \* messages
          NoMsg,     \* the zeroed message Fetch returns when it has none
          Senders,   \* interrupt handlers and threads that send
          Isrs,      \* those of them that are handlers and may not sleep
          Fetchers   \* threads that call Fetch

ASSUME QueueAssumption ==
  /\ Sz \in Nat \ {0}
  /\ NoMsg \notin Msgs
  /\ Senders \cap Fetchers = {} /\ Isrs \subseteq Senders
  /\ IsFiniteSet(Senders) /\ IsFiniteSet(Fetchers)

VARIABLES IBuf,      \* the ring; a place keeps its message after the fetch
          ReadPtr, WritePtr,
          FullCnt, FullWait,    \* FullSem: counter, threads asleep on it
          EmptyCnt, EmptyWait,  \* EmptySem: counter, threads asleep on it
          pc,        \* where each context is inside a call of the queue
          arg,       \* message a sleeping sender carries
          got,       \* last message each fetcher returned with
          rslt       \* last return value each sender got

ring   == <<IBuf, ReadPtr, WritePtr>>
sems   == <<FullCnt, FullWait, EmptyCnt, EmptyWait>>
vars   == <<IBuf, ReadPtr, WritePtr, FullCnt, FullWait, EmptyCnt, EmptyWait,
            pc, arg, got, rslt>>

Threads == Senders \cup Fetchers
Places  == 0 .. Sz - 1

(* Where a context can be: outside the queue's functions, asleep on a      *)
(* semaphore for ever or with a timeout, or readied by the kernel and not  *)
(* yet running, with the message of chSemSignalI or of the timeout.        *)
Asleep  == {"sleepInf", "sleepTimed"}
Control == {"out", "readyOk", "readyTimeout"} \cup Asleep

Init ==
  /\ IBuf = [i \in Places |-> NoMsg]
  /\ ReadPtr = 0 /\ WritePtr = 0
  /\ FullCnt = 0 /\ FullWait = <<>>
  /\ EmptyCnt = Sz /\ EmptyWait = <<>>
  /\ pc = [t \in Threads |-> "out"]
  /\ arg = [s \in Senders |-> NoMsg]
  /\ got = [f \in Fetchers |-> NoMsg]
  /\ rslt = [s \in Senders |-> "none"]

-----------------------------------------------------------------------------
(* The kernel's part: ++cnt <= 0 readies the thread that waits longest.    *)

MustWakeLate(cnt) == cnt < -1                       \* mutant: ++cnt < 0
MustWake(cnt)     == cnt < 0

Woken(cnt, wait)       == IF MustWake(cnt) THEN {Head(wait)} ELSE {}
StillAsleep(cnt, wait) == IF MustWake(cnt) THEN Tail(wait) ELSE wait
Ready(S, from)         == [t \in Threads |-> IF t \in S THEN "readyOk" ELSE from[t]]

CirculateEarly(p) == IF p + 1 >= Sz - 1 THEN 0 ELSE p + 1   \* mutant
Circulate(p) == IF p + 1 >= Sz THEN 0 ELSE p + 1

(* Write the message, move WritePtr, signal FullSem.                       *)
WriteMsg(s, m) ==
  /\ IBuf' = [IBuf EXCEPT ![WritePtr] = m]
  /\ WritePtr' = Circulate(WritePtr)
  /\ FullCnt' = FullCnt + 1
  /\ FullWait' = StillAsleep(FullCnt, FullWait)
  /\ pc' = Ready(Woken(FullCnt, FullWait), [pc EXCEPT ![s] = "out"])
  /\ rslt' = [rslt EXCEPT ![s] = "retvOk"]
  /\ UNCHANGED <<ReadPtr, EmptyWait, got>>

(* Read the message, move ReadPtr, signal EmptySem.                        *)
ReadMsg(f) ==
  /\ got' = [got EXCEPT ![f] = IBuf[ReadPtr]]
  /\ ReadPtr' = Circulate(ReadPtr)
  /\ EmptyCnt' = EmptyCnt + 1
  /\ EmptyWait' = StillAsleep(EmptyCnt, EmptyWait)
  /\ pc' = Ready(Woken(EmptyCnt, EmptyWait), [pc EXCEPT ![f] = "out"])
  /\ UNCHANGED <<IBuf, WritePtr, FullWait, arg, rslt>>

-----------------------------------------------------------------------------
(* Fetch(Timeout): with a message at hand; with none and TIME_IMMEDIATE;   *)
(* with none and a timeout (finite or not); and the two ends of the sleep. *)

FetchNow(f) ==
  /\ pc[f] = "out"
  /\ FullCnt > 0
  /\ FullCnt' = FullCnt - 1
  /\ ReadMsg(f)

FetchNothing(f) ==
  /\ pc[f] = "out"
  /\ FullCnt <= 0
  /\ got' = [got EXCEPT ![f] = NoMsg]
  /\ UNCHANGED <<ring, sems, pc, arg, rslt>>

\* mutant: sleeps with one message at hand
FetchSleepEarly(f) ==
  /\ pc[f] = "out"
  /\ FullCnt <= 1
  /\ FullCnt' = FullCnt - 1
  /\ FullWait' = Append(FullWait, f)
  /\ pc' = [pc EXCEPT ![f] = "sleepInf"]
  /\ UNCHANGED <<ring, EmptyCnt, EmptyWait, arg, got, rslt>>

FetchSleep(f) ==
  /\ pc[f] = "out"
  /\ FullCnt <= 0
  /\ FullCnt' = FullCnt - 1
  /\ FullWait' = Append(FullWait, f)
  /\ \E sleep \in Asleep : pc' = [pc EXCEPT ![f] = sleep]
  /\ UNCHANGED <<ring, EmptyCnt, EmptyWait, arg, got, rslt>>

FetchResume(f) ==
  /\ pc[f] = "readyOk"
  /\ UNCHANGED FullCnt
  /\ ReadMsg(f)

\* mutant: Msg not zeroed before the wait
FetchGiveUpStale(f) ==
  /\ pc[f] = "readyTimeout"
  /\ pc' = [pc EXCEPT ![f] = "out"]
  /\ got' = [got EXCEPT ![f] = IBuf[ReadPtr]]
  /\ UNCHANGED <<ring, sems, arg, rslt>>

FetchGiveUp(f) ==
  /\ pc[f] = "readyTimeout"
  /\ pc' = [pc EXCEPT ![f] = "out"]
  /\ got' = [got EXCEPT ![f] = NoMsg]
  /\ UNCHANGED <<ring, sems, arg, rslt>>

-----------------------------------------------------------------------------
(* SendNowOrExitI, and SendNowOrExit, which calls it under the lock.       *)

SendNow(s, m) ==
  /\ pc[s] = "out"
  /\ EmptyCnt > 0
  /\ EmptyCnt' = EmptyCnt - 1
  /\ WriteMsg(s, m)
  /\ UNCHANGED arg

SendRefused(s) ==
  /\ pc[s] = "out"
  /\ EmptyCnt <= 0
  /\ rslt' = [rslt EXCEPT ![s] = "retvTimeout"]
  /\ UNCHANGED <<ring, sems, pc, arg, got>>

(* SendWaitingAbility: with a free place it is SendNow, without one and    *)
(* with TIME_IMMEDIATE it is SendRefused; otherwise the caller sleeps.     *)

SendSleep(s, m) ==
  /\ s \notin Isrs
  /\ pc[s] = "out"
  /\ EmptyCnt <= 0
  /\ EmptyCnt' = EmptyCnt - 1
  /\ EmptyWait' = Append(EmptyWait, s)
  /\ arg' = [arg EXCEPT ![s] = m]
  /\ \E sleep \in Asleep : pc' = [pc EXCEPT ![s] = sleep]
  /\ UNCHANGED <<ring, FullCnt, FullWait, got, rslt>>

SendResume(s) ==
  /\ pc[s] = "readyOk"
  /\ WriteMsg(s, arg[s])
  /\ arg' = [arg EXCEPT ![s] = NoMsg]
  /\ UNCHANGED EmptyCnt

SendGiveUp(s) ==
  /\ pc[s] = "readyTimeout"
  /\ pc' = [pc EXCEPT ![s] = "out"]
  /\ rslt' = [rslt EXCEPT ![s] = "retvTimeout"]
  /\ arg' = [arg EXCEPT ![s] = NoMsg]
  /\ UNCHANGED <<ring, sems, got>>

-----------------------------------------------------------------------------
(* The kernel's timer handler: a timed sleeper leaves the semaphore's      *)
(* queue, wherever it stands in it, and gives its count back.              *)

FetchTimeout(i) ==
  /\ pc[FullWait[i]] = "sleepTimed"
  /\ FullCnt' = FullCnt + 1
  /\ FullWait' = RemoveAt(FullWait, i)
  /\ pc' = [pc EXCEPT ![FullWait[i]] = "readyTimeout"]
  /\ UNCHANGED <<ring, EmptyCnt, EmptyWait, arg, got, rslt>>

SendTimeout(i) ==
  /\ pc[EmptyWait[i]] = "sleepTimed"
  /\ EmptyCnt' = EmptyCnt + 1
  /\ EmptyWait' = RemoveAt(EmptyWait, i)
  /\ pc' = [pc EXCEPT ![EmptyWait[i]] = "readyTimeout"]
  /\ UNCHANGED <<ring, FullCnt, FullWait, arg, got, rslt>>

-----------------------------------------------------------------------------
FetchStep(f) ==
  FetchNow(f) \/ FetchNothing(f) \/ FetchSleep(f) \/ FetchResume(f) \/ FetchGiveUp(f)

SendStep(s) ==
  \/ SendRefused(s) \/ SendResume(s) \/ SendGiveUp(s)
  \/ \E m \in Msgs : SendNow(s, m) \/ SendSleep(s, m)

TimerStep ==
  \/ \E i \in DOMAIN FullWait : FetchTimeout(i)
  \/ \E i \in DOMAIN EmptyWait : SendTimeout(i)

Next ==
  \/ \E f \in Fetchers : FetchStep(f)
  \/ \E s \in Senders : SendStep(s)
  \/ TimerStep

Spec == Init /\ [][Next]_vars

(* Every fetcher keeps calling Fetch (the main loop and the radio threads  *)
(* are loops around it) and a readied thread eventually runs.              *)
FetchFairness ==
  \A f \in Fetchers : WF_vars(FetchNow(f)) /\ WF_vars(FetchResume(f))
                        /\ WF_vars(FetchGiveUp(f))

FairSpec == Spec /\ FetchFairness

-----------------------------------------------------------------------------
(* The messages in the ring, oldest first.  A message is there from the    *)
(* step that wrote it to the step that read it: FullSem counts those not   *)
(* yet promised, and each fetcher readied with MSG_OK was promised one.    *)

Positive(n)      == IF n > 0 THEN n ELSE 0
PromisedFetches  == {f \in Fetchers : pc[f] = "readyOk"}
PromisedSends    == {s \in Senders : pc[s] = "readyOk"}
Used             == Positive(FullCnt) + Cardinality(PromisedFetches)
PlaceOf(i)       == IF ReadPtr + i - 1 < Sz THEN ReadPtr + i - 1
                                           ELSE ReadPtr + i - 1 - Sz
Contents         == [i \in 1 .. Used |-> IBuf[PlaceOf(i)]]

(* Type invariant: also, each semaphore's queue lists exactly the threads  *)
(* asleep on it, each once.                                                *)
Lists(wait, A)  == wait \in Seq(A) /\ IsInjective(wait) /\ ToSet(wait) = A
SleepersIn(S)   == {t \in S : pc[t] \in Asleep}

TypeOK ==
  /\ IBuf \in [Places -> Msgs \cup {NoMsg}]
  /\ ReadPtr \in Places /\ WritePtr \in Places
  /\ FullCnt \in Int /\ EmptyCnt \in Int
  /\ pc \in [Threads -> Control]
  /\ arg \in [Senders -> Msgs \cup {NoMsg}]
  /\ \A s \in Senders : pc[s] # "out" => arg[s] \in Msgs
  /\ got \in [Fetchers -> Msgs \cup {NoMsg}]
  /\ rslt \in [Senders -> {"none", "retvOk", "retvTimeout"}]
  /\ Lists(FullWait, SleepersIn(Fetchers))
  /\ Lists(EmptyWait, SleepersIn(Senders))

(* The kernel's own debug assertion "inconsistent semaphore" (chsem.c):    *)
(* a counter is negative exactly by the number of threads asleep on it.    *)
SemOk(cnt, wait) == Len(wait) = Positive(-cnt)
SemaphoresConsistent == SemOk(FullCnt, FullWait) /\ SemOk(EmptyCnt, EmptyWait)

(* Every place of the ring is accounted for: it holds a message, is free,  *)
(* or is promised to a sender readied but not yet running.                 *)
PlacesAccounted ==
  Used + Positive(EmptyCnt) + Cardinality(PromisedSends) = Sz

(* The two pointers enclose exactly the messages the semaphores count, and *)
(* each of them was really sent.                                           *)
RingMatchesSemaphores ==
  /\ Used \in 0 .. Sz
  /\ WritePtr = PlaceOf(Used + 1)
  /\ \A i \in 1 .. Used : IBuf[PlaceOf(i)] \in Msgs

(* No lost wakeup: while a fetcher sleeps, every message in the ring is    *)
(* promised to a fetcher that is already readied; the same for senders and *)
(* free places.                                                            *)
NoLostWakeup ==
  /\ FullWait # <<>> => Used = Cardinality(PromisedFetches)
  /\ EmptyWait # <<>> => Sz - Used = Cardinality(PromisedSends)

(* SendNowOrExit reports a full queue only when each place holds a message *)
(* or belongs to a sender that has waited for it.                          *)
RefusedOnlyWhenFull ==
  [][\A s \in Senders :
       SendRefused(s) => Used + Cardinality(PromisedSends) = Sz]_vars

(* The ring with its semaphores is the bounded queue its users rely on.    *)
Fifo == INSTANCE BoundedFifo WITH Cap <- Sz, q <- Contents
ImplementsFifo == Fifo!Spec

(* No starvation: a sender asleep until there is room gets its place,      *)
(* however many handlers and threads compete with it.                      *)
SendersGetRoom ==
  \A s \in Senders : pc[s] = "sleepInf" ~> pc[s] # "sleepInf"
=============================================================================
