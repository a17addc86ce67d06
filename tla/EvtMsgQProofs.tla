--------------------------- MODULE EvtMsgQProofs ---------------------------
(***************************************************************************)
(* Proofs about EvtMsgQ, for every length of the ring, every set of        *)
(* messages and every finite set of senders and fetchers.  The inductive   *)
(* invariant says that the places of the ring are accounted for by the two *)
(* semaphores and the threads they have readied, and that the pointers     *)
(* enclose the written places; the properties of EvtMsgQ follow from it.   *)
(***************************************************************************)
EXTENDS EvtMsgQ, FiniteSetTheorems, SequenceTheorems, TLAPS

-----------------------------------------------------------------------------
(* A semaphore's queue after a thread enters it, the first one leaves it,  *)
(* or any one leaves it.                                                   *)

(* A thread that goes to sleep is listed at the end, once.                 *)
LEMMA ListsAppend ==
  ASSUME NEW A, NEW w, NEW t, Lists(w, A), t \notin A
  PROVE  Lists(Append(w, t), A \cup {t}) /\ Len(Append(w, t)) = Len(w) + 1
<1>1. w \in Seq(A \cup {t}) /\ IsInjective(w) /\ ToSet(w) = A
  BY DEF Lists
<1>2. /\ Append(w, t) \in Seq(A \cup {t})
      /\ Len(Append(w, t)) = Len(w) + 1
      /\ \A i \in 1 .. Len(w) : Append(w, t)[i] = w[i]
      /\ Append(w, t)[Len(w) + 1] = t
  BY <1>1, AppendProperties
<1>3. DOMAIN w = 1 .. Len(w) /\ Len(w) \in Nat
  BY <1>1, LenProperties
<1>4. DOMAIN Append(w, t) = 1 .. Len(w) + 1
  BY <1>2, <1>3, LenProperties
<1>5. \A i \in 1 .. Len(w) : w[i] \in A
  BY <1>1, <1>3 DEF ToSet
<1>6. IsInjective(Append(w, t))
  BY <1>1, <1>2, <1>3, <1>4, <1>5 DEF IsInjective
<1>7. ToSet(Append(w, t)) = A \cup {t}
  BY <1>1, <1>2, <1>3, <1>4 DEF ToSet
<1>. QED  BY <1>2, <1>6, <1>7 DEF Lists

(* The thread that is readied is listed, and no longer listed afterwards.  *)
LEMMA ListsTail ==
  ASSUME NEW A, NEW w, Lists(w, A), w # <<>>
  PROVE  /\ Head(w) \in A
         /\ Lists(Tail(w), A \ {Head(w)})
         /\ Len(Tail(w)) = Len(w) - 1
<1>1. w \in Seq(A) /\ IsInjective(w) /\ ToSet(w) = A
  BY DEF Lists
<1>2. /\ Head(w) \in A /\ Head(w) = w[1]
      /\ Tail(w) \in Seq(A)
      /\ Len(Tail(w)) = Len(w) - 1
      /\ \A i \in 1 .. Len(Tail(w)) : Tail(w)[i] = w[i + 1]
  BY <1>1, HeadTailProperties
<1>3. DOMAIN w = 1 .. Len(w) /\ Len(w) \in Nat \ {0}
  BY <1>1, LenProperties, EmptySeq
<1>4. DOMAIN Tail(w) = 1 .. Len(w) - 1 /\ Len(Tail(w)) \in Nat
  BY <1>2, LenProperties
<1>5. IsInjective(Tail(w))
  BY <1>1, <1>2, <1>3, <1>4 DEF IsInjective
<1>6. \A i \in 1 .. Len(w) - 1 : Tail(w)[i] \in A \ {Head(w)}
  <2>1. TAKE i \in 1 .. Len(w) - 1
  <2>2. i + 1 \in DOMAIN w /\ 1 \in DOMAIN w /\ i + 1 # 1
    BY <1>3
  <2>3. Tail(w)[i] = w[i + 1] /\ w[i + 1] # w[1] /\ w[i + 1] \in A
    BY <2>2, <1>1, <1>2 DEF IsInjective, ToSet
  <2>. QED  BY <2>3, <1>2
<1>7. ToSet(Tail(w)) = A \ {Head(w)}
  <2>1. ToSet(Tail(w)) \subseteq A \ {Head(w)}
    BY <1>4, <1>6 DEF ToSet
  <2>2. ASSUME NEW a \in A \ {Head(w)} PROVE a \in ToSet(Tail(w))
    <3>1. PICK k \in 1 .. Len(w) : a = w[k]
      BY <1>1, <1>3 DEF ToSet
    <3>2. k # 1
      BY <3>1, <1>2
    <3>3. k - 1 \in 1 .. Len(Tail(w)) /\ Tail(w)[k - 1] = a
      BY <3>1, <3>2, <1>2, <1>3
    <3>. QED  BY <3>3, <1>2, <1>4 DEF ToSet
  <2>. QED  BY <2>1, <2>2
<1>8. Tail(w) \in Seq(A \ {Head(w)})
  <2>1. Tail(w) \in [1 .. Len(Tail(w)) -> A \ {Head(w)}]
    BY <1>2, <1>4, <1>6, LenProperties
  <2>. QED  BY <2>1, <1>4, SeqDef
<1>. QED  BY <1>2, <1>5, <1>7, <1>8 DEF Lists

(* The thread whose timeout ends is no longer listed, the others still are.*)
LEMMA ListsRemoveAt ==
  ASSUME NEW A, NEW w, Lists(w, A), NEW k \in DOMAIN w
  PROVE  /\ w[k] \in A
         /\ Lists(RemoveAt(w, k), A \ {w[k]})
         /\ Len(RemoveAt(w, k)) = Len(w) - 1
<1>. DEFINE r == RemoveAt(w, k)
<1>1. w \in Seq(A) /\ IsInjective(w) /\ ToSet(w) = A
  BY DEF Lists
<1>2. /\ DOMAIN w = 1 .. Len(w) /\ Len(w) \in Nat /\ k \in 1 .. Len(w)
      /\ \A i \in 1 .. Len(w) : w[i] \in A
  BY <1>1, LenProperties
<1>3. /\ SubSeq(w, 1, k - 1) \in Seq(A)
      /\ Len(SubSeq(w, 1, k - 1)) = k - 1
      /\ \A i \in 1 .. k - 1 : SubSeq(w, 1, k - 1)[i] = w[i]
  BY <1>2, SubSeqProperties
<1>4. /\ SubSeq(w, k + 1, Len(w)) \in Seq(A)
      /\ Len(SubSeq(w, k + 1, Len(w))) = Len(w) - k
      /\ \A i \in 1 .. Len(w) - k : SubSeq(w, k + 1, Len(w))[i] = w[k + i]
  <2>1. \A i \in k + 1 .. Len(w) : w[i] \in A
    BY <1>2
  <2>2. /\ SubSeq(w, k + 1, Len(w)) \in Seq(A)
        /\ Len(SubSeq(w, k + 1, Len(w))) =
             IF k + 1 <= Len(w) THEN Len(w) - (k + 1) + 1 ELSE 0
        /\ \A i \in 1 .. Len(w) - (k + 1) + 1 :
             SubSeq(w, k + 1, Len(w))[i] = w[k + 1 + i - 1]
    BY <2>1, <1>2, SubSeqProperties
  <2>. QED  BY <2>2, <1>2
<1>5. /\ r \in Seq(A)
      /\ Len(r) = Len(w) - 1
      /\ \A i \in 1 .. Len(w) - 1 : r[i] = IF i < k THEN w[i] ELSE w[i + 1]
  <2>. DEFINE u == SubSeq(w, 1, k - 1)
              v == SubSeq(w, k + 1, Len(w))
  <2>1. u \in Seq(A) /\ v \in Seq(A)
    BY <1>3, <1>4
  <2>2. /\ r \in Seq(A)
        /\ Len(r) = Len(u) + Len(v)
        /\ \A i \in 1 .. Len(u) + Len(v) :
             r[i] = IF i <= Len(u) THEN u[i] ELSE v[i - Len(u)]
    <3>1. r = u \o v
      BY DEF RemoveAt
    <3>. HIDE DEF u, v, r
    <3>. QED  BY <2>1, <3>1, ConcatProperties
  <2>4. /\ Len(u) = k - 1 /\ \A i \in 1 .. k - 1 : u[i] = w[i]
        /\ Len(v) = Len(w) - k /\ \A i \in 1 .. Len(w) - k : v[i] = w[k + i]
    BY <1>3, <1>4
  <2>. HIDE DEF u, v, r
  <2>5. r \in Seq(A) /\ Len(r) = Len(w) - 1
    BY <1>2, <2>2, <2>4
  <2>6. ASSUME NEW i \in 1 .. Len(w) - 1
        PROVE  r[i] = IF i < k THEN w[i] ELSE w[i + 1]
    <3>1. CASE i < k
      BY <3>1, <1>2, <2>2, <2>4
    <3>2. CASE i >= k
      <4>1. r[i] = v[i - Len(u)] /\ i - Len(u) \in 1 .. Len(w) - k
        BY <3>2, <1>2, <2>2, <2>4
      <4>2. v[i - Len(u)] = w[k + (i - Len(u))] /\ k + (i - Len(u)) = i + 1
        BY <4>1, <1>2, <2>4
      <4>. QED  BY <4>1, <4>2, <3>2, <1>2
    <3>. QED  BY <3>1, <3>2, <1>2
  <2>. QED  BY <2>5, <2>6
<1>. HIDE DEF r
<1>6. DOMAIN r = 1 .. Len(w) - 1
  BY <1>5, LenProperties
<1>7. IsInjective(r)
  <2>1. \A i, j \in 1 .. Len(w) : w[i] = w[j] => i = j
    BY <1>1, <1>2 DEF IsInjective
  <2>2. ASSUME NEW i \in 1 .. Len(w) - 1, NEW j \in 1 .. Len(w) - 1, r[i] = r[j]
        PROVE  i = j
    <3>. DEFINE p == IF i < k THEN i ELSE i + 1
                q == IF j < k THEN j ELSE j + 1
    <3>1. p \in 1 .. Len(w) /\ q \in 1 .. Len(w) /\ w[p] = w[q]
      BY <1>2, <1>5, <2>2
    <3>2. p = q
      <4>. HIDE DEF p, q
      <4>. QED  BY <2>1, <3>1
    <3>. QED  BY <3>2, <1>2
  <2>. QED  BY <2>2, <1>6 DEF IsInjective
<1>8. \A i \in 1 .. Len(w) - 1 : r[i] \in A \ {w[k]}
  BY <1>1, <1>2, <1>5 DEF IsInjective
<1>9. ToSet(r) = A \ {w[k]}
  <2>1. ToSet(r) \subseteq A \ {w[k]}
    BY <1>6, <1>8 DEF ToSet
  <2>2. ASSUME NEW a \in A \ {w[k]} PROVE a \in ToSet(r)
    <3>1. PICK j \in 1 .. Len(w) : a = w[j]
      BY <1>1, <1>2 DEF ToSet
    <3>2. CASE j < k
      BY <3>1, <3>2, <1>2, <1>5, <1>6 DEF ToSet
    <3>3. CASE j > k
      <4>1. j - 1 \in 1 .. Len(w) - 1 /\ r[j - 1] = a
        BY <3>1, <3>3, <1>2, <1>5
      <4>. QED  BY <4>1, <1>6 DEF ToSet
    <3>. QED  BY <3>1, <3>2, <3>3, <1>2
  <2>. QED  BY <2>1, <2>2
<1>10. r \in Seq(A \ {w[k]})
  <2>1. r \in [1 .. Len(r) -> A \ {w[k]}] /\ Len(r) \in Nat
    BY <1>2, <1>5, <1>8, LenProperties
  <2>. QED  BY <2>1, SeqDef
<1>. QED  BY <1>2, <1>5, <1>7, <1>9, <1>10 DEF Lists, r

-----------------------------------------------------------------------------
(* The ring.  Positions are counted from ReadPtr.                          *)

(* The places a sender or a fetcher has been given, and the inductive      *)
(* invariant.                                                              *)
Free == Positive(EmptyCnt) + Cardinality(PromisedSends)

IInv ==
  /\ TypeOK
  /\ SemaphoresConsistent
  /\ PlacesAccounted
  /\ RingMatchesSemaphores

(* The sets of readied threads are finite, so the counts are numbers.      *)
LEMMA CountsAreNat ==
  ASSUME TypeOK
  PROVE  /\ IsFiniteSet(PromisedFetches) /\ IsFiniteSet(PromisedSends)
         /\ Cardinality(PromisedFetches) \in Nat
         /\ Cardinality(PromisedSends) \in Nat
         /\ Used \in Nat /\ Free \in Nat
<1>1. IsFiniteSet(PromisedFetches) /\ IsFiniteSet(PromisedSends)
  BY QueueAssumption, FS_Subset DEF PromisedFetches, PromisedSends
<1>2. Cardinality(PromisedFetches) \in Nat /\ Cardinality(PromisedSends) \in Nat
  BY <1>1, FS_CardinalityType
<1>. QED  BY <1>1, <1>2 DEF TypeOK, Used, Free, Positive

(* What a sender's write does to the counts: the message becomes one more  *)
(* used place, whether it is counted by FullSem or promised to a fetcher.  *)
LEMMA WriteCounts ==
  ASSUME TypeOK, SemaphoresConsistent,
         NEW s \in Senders, NEW m, pc[s] \in {"out", "readyOk"}, WriteMsg(s, m)
  PROVE  /\ Used' = Used + 1
         /\ PromisedSends' = PromisedSends \ {s}
         /\ pc' \in [Threads -> Control]
         /\ Lists(FullWait, SleepersIn(Fetchers))'
         /\ SleepersIn(Senders)' = SleepersIn(Senders)
         /\ SemOk(FullCnt, FullWait)'
         /\ \A t \in Senders \ {s} : pc'[t] = pc[t]
         /\ pc'[s] = "out"
<1>. DEFINE woken == Woken(FullCnt, FullWait)
<1>1. /\ Lists(FullWait, SleepersIn(Fetchers))
      /\ FullCnt \in Int /\ pc \in [Threads -> Control]
      /\ Senders \cap Fetchers = {}
  BY QueueAssumption DEF TypeOK
<1>2. /\ FullCnt' = FullCnt + 1
      /\ FullWait' = StillAsleep(FullCnt, FullWait)
      /\ pc' = Ready(woken, [pc EXCEPT ![s] = "out"])
  BY DEF WriteMsg
<1>3. FullWait \in Seq(SleepersIn(Fetchers)) /\ Len(FullWait) \in Nat
  BY <1>1, LenProperties DEF Lists
<1>4. IF FullCnt < 0
      THEN /\ FullWait # <<>>
           /\ woken = {Head(FullWait)} /\ FullWait' = Tail(FullWait)
           /\ Len(FullWait) = - FullCnt
      ELSE woken = {} /\ FullWait' = FullWait /\ Len(FullWait) = 0
  <2>1. Len(FullWait) = Positive(- FullCnt)
    BY DEF SemaphoresConsistent, SemOk
  <2>2. Len(<<>>) = 0
    BY EmptySeq
  <2>. QED  BY <1>1, <1>2, <2>1, <2>2 DEF Positive, Woken, StillAsleep, MustWake
<1>5. woken \subseteq SleepersIn(Fetchers)
  <2>1. FullWait # <<>> => Head(FullWait) \in SleepersIn(Fetchers)
    BY <1>1, ListsTail
  <2>. HIDE DEF woken
  <2>. QED  BY <1>4, <2>1
<1>6. woken \subseteq Fetchers /\ \A t \in woken : pc[t] \in Asleep
  BY <1>5 DEF SleepersIn
<1>. HIDE DEF woken
<1>7. /\ pc' \in [Threads -> Control]
      /\ \A t \in woken : pc'[t] = "readyOk"
      /\ pc'[s] = "out"
      /\ \A t \in Threads \ (woken \cup {s}) : pc'[t] = pc[t]
  BY <1>1, <1>2, <1>6 DEF Ready, Threads, Control
<1>8. /\ PromisedFetches' = PromisedFetches \cup woken
      /\ PromisedFetches \cap woken = {}
  BY <1>1, <1>6, <1>7 DEF PromisedFetches, Threads, Asleep
<1>9. PromisedSends' = PromisedSends \ {s}
  BY <1>1, <1>6, <1>7 DEF PromisedSends, Threads
<1>10. SleepersIn(Fetchers)' = SleepersIn(Fetchers) \ woken
  BY <1>1, <1>6, <1>7 DEF SleepersIn, Threads, Asleep
<1>11. SleepersIn(Senders)' = SleepersIn(Senders)
  BY <1>1, <1>6, <1>7 DEF SleepersIn, Threads, Asleep
<1>12. Lists(FullWait', SleepersIn(Fetchers) \ woken)
  <2>1. CASE FullCnt < 0
    BY <2>1, <1>1, <1>4, ListsTail
  <2>2. CASE ~ (FullCnt < 0)
    <3>1. SleepersIn(Fetchers) \ {} = SleepersIn(Fetchers)
      OBVIOUS
    <3>. QED  BY <2>2, <3>1, <1>1, <1>4
  <2>. QED  BY <2>1, <2>2
<1>13. SemOk(FullCnt', FullWait')
  <2>1. CASE FullCnt < 0
    <3>1. Len(FullWait') = Len(FullWait) - 1 /\ Len(FullWait) = - FullCnt
      BY <2>1, <1>1, <1>4, ListsTail
    <3>. QED  BY <2>1, <3>1, <1>1, <1>2 DEF SemOk, Positive
  <2>2. CASE ~ (FullCnt < 0)
    BY <2>2, <1>1, <1>2, <1>4 DEF SemOk, Positive
  <2>. QED  BY <2>1, <2>2
<1>14. Used' = Used + 1
  <2>1. CASE FullCnt < 0
    <3>1. Cardinality(PromisedFetches') = Cardinality(PromisedFetches) + 1
      <4>1. PromisedFetches' = PromisedFetches \cup {Head(FullWait)}
            /\ Head(FullWait) \notin PromisedFetches
        BY <2>1, <1>4, <1>8
      <4>. QED  BY <4>1, CountsAreNat, FS_AddElement
    <3>. QED  BY <2>1, <3>1, <1>1, <1>2, CountsAreNat DEF Used, Positive
  <2>2. CASE ~ (FullCnt < 0)
    <3>1. PromisedFetches' = PromisedFetches
      BY <2>2, <1>4, <1>8
    <3>. QED  BY <2>2, <3>1, <1>1, <1>2, CountsAreNat DEF Used, Positive
  <2>. QED  BY <2>1, <2>2
<1>15. \A t \in Senders \ {s} : pc'[t] = pc[t]
  BY <1>1, <1>6, <1>7 DEF Threads
<1>. QED
  BY <1>7, <1>9, <1>10, <1>11, <1>12, <1>13, <1>14, <1>15

(* The mirror image for a fetcher's read: the place becomes one more free  *)
(* place, whether it is counted by EmptySem or promised to a sender.       *)
LEMMA ReadCounts ==
  ASSUME TypeOK, SemaphoresConsistent,
         NEW f \in Fetchers, pc[f] \in {"out", "readyOk"}, ReadMsg(f)
  PROVE  /\ Free' = Free + 1
         /\ PromisedFetches' = PromisedFetches \ {f}
         /\ pc' \in [Threads -> Control]
         /\ Lists(EmptyWait, SleepersIn(Senders))'
         /\ SleepersIn(Fetchers)' = SleepersIn(Fetchers)
         /\ SemOk(EmptyCnt, EmptyWait)'
         /\ \A t \in Fetchers \ {f} : pc'[t] = pc[t]
         /\ pc'[f] = "out"
<1>. DEFINE woken == Woken(EmptyCnt, EmptyWait)
<1>1. /\ Lists(EmptyWait, SleepersIn(Senders))
      /\ EmptyCnt \in Int /\ pc \in [Threads -> Control]
      /\ Senders \cap Fetchers = {}
  BY QueueAssumption DEF TypeOK
<1>2. /\ EmptyCnt' = EmptyCnt + 1
      /\ EmptyWait' = StillAsleep(EmptyCnt, EmptyWait)
      /\ pc' = Ready(woken, [pc EXCEPT ![f] = "out"])
  BY DEF ReadMsg
<1>3. EmptyWait \in Seq(SleepersIn(Senders)) /\ Len(EmptyWait) \in Nat
  BY <1>1, LenProperties DEF Lists
<1>4. IF EmptyCnt < 0
      THEN /\ EmptyWait # <<>>
           /\ woken = {Head(EmptyWait)} /\ EmptyWait' = Tail(EmptyWait)
           /\ Len(EmptyWait) = - EmptyCnt
      ELSE woken = {} /\ EmptyWait' = EmptyWait /\ Len(EmptyWait) = 0
  <2>1. Len(EmptyWait) = Positive(- EmptyCnt)
    BY DEF SemaphoresConsistent, SemOk
  <2>2. Len(<<>>) = 0
    BY EmptySeq
  <2>. QED  BY <1>1, <1>2, <2>1, <2>2 DEF Positive, Woken, StillAsleep, MustWake
<1>5. woken \subseteq SleepersIn(Senders)
  <2>1. EmptyWait # <<>> => Head(EmptyWait) \in SleepersIn(Senders)
    BY <1>1, ListsTail
  <2>. HIDE DEF woken
  <2>. QED  BY <1>4, <2>1
<1>6. woken \subseteq Senders /\ \A t \in woken : pc[t] \in Asleep
  BY <1>5 DEF SleepersIn
<1>. HIDE DEF woken
<1>7. /\ pc' \in [Threads -> Control]
      /\ \A t \in woken : pc'[t] = "readyOk"
      /\ pc'[f] = "out"
      /\ \A t \in Threads \ (woken \cup {f}) : pc'[t] = pc[t]
  BY <1>1, <1>2, <1>6 DEF Ready, Threads, Control
<1>8. /\ PromisedSends' = PromisedSends \cup woken
      /\ PromisedSends \cap woken = {}
  BY <1>1, <1>6, <1>7 DEF PromisedSends, Threads, Asleep
<1>9. PromisedFetches' = PromisedFetches \ {f}
  BY <1>1, <1>6, <1>7 DEF PromisedFetches, Threads
<1>10. SleepersIn(Senders)' = SleepersIn(Senders) \ woken
  BY <1>1, <1>6, <1>7 DEF SleepersIn, Threads, Asleep
<1>11. SleepersIn(Fetchers)' = SleepersIn(Fetchers)
  BY <1>1, <1>6, <1>7 DEF SleepersIn, Threads, Asleep
<1>12. Lists(EmptyWait', SleepersIn(Senders) \ woken)
  <2>1. CASE EmptyCnt < 0
    BY <2>1, <1>1, <1>4, ListsTail
  <2>2. CASE ~ (EmptyCnt < 0)
    <3>1. SleepersIn(Senders) \ {} = SleepersIn(Senders)
      OBVIOUS
    <3>. QED  BY <2>2, <3>1, <1>1, <1>4
  <2>. QED  BY <2>1, <2>2
<1>13. SemOk(EmptyCnt', EmptyWait')
  <2>1. CASE EmptyCnt < 0
    <3>1. Len(EmptyWait') = Len(EmptyWait) - 1 /\ Len(EmptyWait) = - EmptyCnt
      BY <2>1, <1>1, <1>4, ListsTail
    <3>. QED  BY <2>1, <3>1, <1>1, <1>2 DEF SemOk, Positive
  <2>2. CASE ~ (EmptyCnt < 0)
    BY <2>2, <1>1, <1>2, <1>4 DEF SemOk, Positive
  <2>. QED  BY <2>1, <2>2
<1>14. Free' = Free + 1
  <2>1. CASE EmptyCnt < 0
    <3>1. Cardinality(PromisedSends') = Cardinality(PromisedSends) + 1
      <4>1. PromisedSends' = PromisedSends \cup {Head(EmptyWait)}
            /\ Head(EmptyWait) \notin PromisedSends
        BY <2>1, <1>4, <1>8
      <4>. QED  BY <4>1, CountsAreNat, FS_AddElement
    <3>. QED  BY <2>1, <3>1, <1>1, <1>2, CountsAreNat DEF Free, Positive
  <2>2. CASE ~ (EmptyCnt < 0)
    <3>1. PromisedSends' = PromisedSends
      BY <2>2, <1>4, <1>8
    <3>. QED  BY <2>2, <3>1, <1>1, <1>2, CountsAreNat DEF Free, Positive
  <2>. QED  BY <2>1, <2>2
<1>15. \A t \in Fetchers \ {f} : pc'[t] = pc[t]
  BY <1>1, <1>6, <1>7 DEF Threads
<1>. QED
  BY <1>7, <1>9, <1>10, <1>11, <1>12, <1>13, <1>14, <1>15

(* The write takes the place the sender was given: one free place less.    *)
LEMMA SendTakesPlace ==
  ASSUME IInv, NEW s \in Senders, NEW m,
         SendNow(s, m) \/ (SendResume(s) /\ m = arg[s])
  PROVE  /\ WriteMsg(s, m) /\ pc[s] \in {"out", "readyOk"}
         /\ Free' = Free - 1 /\ Used + Free = Sz /\ Used < Sz
         /\ SemOk(EmptyCnt, EmptyWait)'
<1>1. TypeOK /\ SemaphoresConsistent /\ PlacesAccounted
  BY DEF IInv
<1>2. WriteMsg(s, m) /\ pc[s] \in {"out", "readyOk"}
  BY DEF SendNow, SendResume
<1>3. EmptyWait' = EmptyWait /\ EmptyCnt \in Int
  BY <1>1, <1>2 DEF WriteMsg, TypeOK
<1>4. PromisedSends' = PromisedSends \ {s}
  BY <1>1, <1>2, WriteCounts
<1>5. Used + Free = Sz
  BY <1>1, CountsAreNat, QueueAssumption DEF PlacesAccounted, Free, TypeOK, Positive
<1>6. CASE SendNow(s, m)
  <2>1. EmptyCnt > 0 /\ EmptyCnt' = EmptyCnt - 1 /\ pc[s] = "out"
    BY <1>6 DEF SendNow
  <2>2. PromisedSends' = PromisedSends
    BY <1>4, <2>1 DEF PromisedSends
  <2>3. Free' = Free - 1 /\ Free > 0
    BY <2>1, <2>2, <1>1, <1>3, CountsAreNat DEF Free, Positive
  <2>4. SemOk(EmptyCnt, EmptyWait)'
    BY <2>1, <1>1, <1>3 DEF SemaphoresConsistent, SemOk, Positive
  <2>. QED  BY <2>3, <2>4, <1>1, <1>2, <1>5, CountsAreNat
<1>7. CASE SendResume(s) /\ m = arg[s]
  <2>1. EmptyCnt' = EmptyCnt /\ pc[s] = "readyOk"
    BY <1>7 DEF SendResume
  <2>2. s \in PromisedSends
    BY <2>1 DEF PromisedSends
  <2>3. Cardinality(PromisedSends') = Cardinality(PromisedSends) - 1
    BY <2>2, <1>1, <1>4, CountsAreNat, FS_RemoveElement
  <2>4. Cardinality(PromisedSends) > 0
    BY <2>2, <1>1, CountsAreNat, FS_EmptySet
  <2>5. Free' = Free - 1 /\ Free > 0
    BY <2>1, <2>3, <2>4, <1>1, <1>3, CountsAreNat DEF Free, Positive
  <2>6. SemOk(EmptyCnt, EmptyWait)'
    BY <2>1, <1>1, <1>3 DEF SemaphoresConsistent, SemOk, Positive
  <2>. QED  BY <2>5, <2>6, <1>1, <1>2, <1>5, CountsAreNat
<1>. QED  BY <1>6, <1>7

(* The read takes the message the fetcher was given: one used place less.  *)
LEMMA FetchTakesMessage ==
  ASSUME IInv, NEW f \in Fetchers, FetchNow(f) \/ FetchResume(f)
  PROVE  /\ ReadMsg(f) /\ pc[f] \in {"out", "readyOk"}
         /\ Used' = Used - 1 /\ Used + Free = Sz /\ Used > 0
         /\ SemOk(FullCnt, FullWait)'
<1>1. TypeOK /\ SemaphoresConsistent /\ PlacesAccounted
  BY DEF IInv
<1>2. ReadMsg(f) /\ pc[f] \in {"out", "readyOk"}
  BY DEF FetchNow, FetchResume
<1>3. FullWait' = FullWait /\ FullCnt \in Int
  BY <1>1, <1>2 DEF ReadMsg, TypeOK
<1>4. PromisedFetches' = PromisedFetches \ {f}
  BY <1>1, <1>2, ReadCounts
<1>5. Used + Free = Sz
  BY <1>1, CountsAreNat, QueueAssumption DEF PlacesAccounted, Free, TypeOK, Positive
<1>6. CASE FetchNow(f)
  <2>1. FullCnt > 0 /\ FullCnt' = FullCnt - 1 /\ pc[f] = "out"
    BY <1>6 DEF FetchNow
  <2>2. PromisedFetches' = PromisedFetches
    BY <1>4, <2>1 DEF PromisedFetches
  <2>3. Used' = Used - 1 /\ Used > 0
    BY <2>1, <2>2, <1>1, <1>3, CountsAreNat DEF Used, Positive
  <2>4. SemOk(FullCnt, FullWait)'
    BY <2>1, <1>1, <1>3 DEF SemaphoresConsistent, SemOk, Positive
  <2>. QED  BY <2>3, <2>4, <1>2, <1>5
<1>7. CASE FetchResume(f)
  <2>1. FullCnt' = FullCnt /\ pc[f] = "readyOk"
    BY <1>7 DEF FetchResume
  <2>2. f \in PromisedFetches
    BY <2>1 DEF PromisedFetches
  <2>3. Cardinality(PromisedFetches') = Cardinality(PromisedFetches) - 1
    BY <2>2, <1>1, <1>4, CountsAreNat, FS_RemoveElement
  <2>4. Cardinality(PromisedFetches) > 0
    BY <2>2, <1>1, CountsAreNat, FS_EmptySet
  <2>5. Used' = Used - 1 /\ Used > 0
    BY <2>1, <2>3, <2>4, <1>1, <1>3, CountsAreNat DEF Used, Positive
  <2>6. SemOk(FullCnt, FullWait)'
    BY <2>1, <1>1, <1>3 DEF SemaphoresConsistent, SemOk, Positive
  <2>. QED  BY <2>5, <2>6, <1>2, <1>5
<1>. QED  BY <1>6, <1>7

(* The ring's contents are a sequence of messages.                         *)
LEMMA ContentsSeq ==
  ASSUME TypeOK, RingMatchesSemaphores
  PROVE  /\ Contents \in Seq(Msgs) /\ Len(Contents) = Used
         /\ \A i \in 1 .. Used : Contents[i] = IBuf[PlaceOf(i)]
<1>1. Used \in Nat /\ \A i \in 1 .. Used : IBuf[PlaceOf(i)] \in Msgs
  BY QueueAssumption DEF RingMatchesSemaphores
<1>2. Contents \in [1 .. Used -> Msgs]
  BY <1>1 DEF Contents
<1>3. Contents \in Seq(Msgs)
  BY <1>1, <1>2, SeqDef
<1>. QED  BY <1>1, <1>2, <1>3, LenProperties DEF Contents

(* A write appends to the contents and keeps the ring well formed.         *)
LEMMA WriteAppends ==
  ASSUME TypeOK, RingMatchesSemaphores, NEW s \in Senders, NEW m \in Msgs,
         WriteMsg(s, m), Used < Sz, Used' = Used + 1
  PROVE  /\ RingMatchesSemaphores'
         /\ IBuf' \in [Places -> Msgs \cup {NoMsg}]
         /\ ReadPtr' \in Places /\ WritePtr' \in Places
         /\ Contents' = Append(Contents, m)
<1>1. /\ Sz \in Nat \ {0} /\ Used \in 0 .. Sz - 1
      /\ IBuf \in [Places -> Msgs \cup {NoMsg}]
      /\ ReadPtr \in 0 .. Sz - 1 /\ WritePtr \in 0 .. Sz - 1
      /\ WritePtr = PlaceOf(Used + 1)
      /\ \A i \in 1 .. Used : IBuf[PlaceOf(i)] \in Msgs
  BY QueueAssumption DEF TypeOK, RingMatchesSemaphores, Places
<1>2. /\ IBuf' = [IBuf EXCEPT ![WritePtr] = m]
      /\ WritePtr' = Circulate(WritePtr) /\ ReadPtr' = ReadPtr
  BY DEF WriteMsg
<1>3. \A i \in 1 .. Sz : PlaceOf(i)' = PlaceOf(i) /\ PlaceOf(i) \in 0 .. Sz - 1
  BY <1>1, <1>2 DEF PlaceOf
<1>4. \A i \in 1 .. Used : PlaceOf(i) # WritePtr
  BY <1>1 DEF PlaceOf
<1>5. /\ \A i \in 1 .. Used : IBuf'[PlaceOf(i)'] = IBuf[PlaceOf(i)]
      /\ \A i : i = Used + 1 => IBuf'[PlaceOf(i)'] = m
  BY <1>1, <1>2, <1>3, <1>4 DEF Places
<1>6. WritePtr' \in 0 .. Sz - 1
  BY <1>1, <1>2 DEF Circulate
<1>7. WritePtr' = PlaceOf(Used + 1)'
  BY <1>1, <1>2 DEF Circulate, PlaceOf
<1>8. \A i \in 1 .. Used' : IBuf'[PlaceOf(i)'] \in Msgs
  <2>1. TAKE i \in 1 .. Used'
  <2>2. CASE i \in 1 .. Used
    BY <2>2, <1>1, <1>5
  <2>3. CASE i = Used + 1
    BY <2>3, <1>5
  <2>. QED  BY <2>2, <2>3, <1>1
<1>9. RingMatchesSemaphores'
  BY <1>1, <1>2, <1>7, <1>8 DEF RingMatchesSemaphores
<1>10. Contents' = Append(Contents, m)
  <2>1. /\ Contents \in Seq(Msgs) /\ Len(Contents) = Used
        /\ \A i \in 1 .. Used : Contents[i] = IBuf[PlaceOf(i)]
    BY ContentsSeq
  <2>2. Contents' = [i \in 1 .. Used + 1 |-> IBuf'[PlaceOf(i)']]
    BY DEF Contents
  <2>3. \A i \in 1 .. Used + 1 : IBuf'[PlaceOf(i)'] \in Msgs
    BY <1>8
  <2>4. Contents' \in Seq(Msgs) /\ Len(Contents') = Used + 1
    <3>1. Contents' \in [1 .. Used + 1 -> Msgs] /\ Used + 1 \in Nat
      BY <1>1, <2>2, <2>3
    <3>. QED  BY <3>1, SeqDef, LenProperties
  <2>5. /\ Append(Contents, m) \in Seq(Msgs)
        /\ Len(Append(Contents, m)) = Used + 1
        /\ \A i \in 1 .. Used : Append(Contents, m)[i] = Contents[i]
        /\ Append(Contents, m)[Used + 1] = m
    BY <2>1, AppendProperties
  <2>6. \A i \in 1 .. Used + 1 : Contents'[i] = Append(Contents, m)[i]
    <3>1. TAKE i \in 1 .. Used + 1
    <3>2. Contents'[i] = IBuf'[PlaceOf(i)']
      BY <2>2
    <3>3. CASE i \in 1 .. Used
      BY <3>2, <3>3, <1>5, <2>1, <2>5
    <3>4. CASE i = Used + 1
      BY <3>2, <3>4, <1>5, <2>5
    <3>5. i \in 1 .. Used \/ i = Used + 1
      BY <1>1
    <3>. QED  BY <3>3, <3>4, <3>5
  <2>. QED  BY <2>4, <2>5, <2>6, SeqEqual
<1>. QED  BY <1>1, <1>2, <1>6, <1>9, <1>10 DEF Places

(* A read returns and drops the first of the contents.                     *)
LEMMA ReadDropsFirst ==
  ASSUME TypeOK, RingMatchesSemaphores, NEW f \in Fetchers,
         ReadMsg(f), Used > 0, Used' = Used - 1
  PROVE  /\ RingMatchesSemaphores'
         /\ ReadPtr' \in Places /\ WritePtr' \in Places
         /\ Contents # <<>> /\ Contents' = Tail(Contents)
         /\ got' = [got EXCEPT ![f] = Head(Contents)]
         /\ Head(Contents) \in Msgs
<1>1. /\ Sz \in Nat \ {0} /\ Used \in 1 .. Sz
      /\ ReadPtr \in 0 .. Sz - 1 /\ WritePtr \in 0 .. Sz - 1
      /\ WritePtr = PlaceOf(Used + 1)
      /\ \A i \in 1 .. Used : IBuf[PlaceOf(i)] \in Msgs
  BY QueueAssumption DEF TypeOK, RingMatchesSemaphores, Places
<1>2. /\ IBuf' = IBuf /\ WritePtr' = WritePtr
      /\ ReadPtr' = Circulate(ReadPtr)
      /\ got' = [got EXCEPT ![f] = IBuf[ReadPtr]]
  BY DEF ReadMsg
<1>3. ReadPtr' \in 0 .. Sz - 1
  BY <1>1, <1>2 DEF Circulate
<1>4. \A i \in 1 .. Sz : PlaceOf(i)' = PlaceOf(i + 1)
  BY <1>1, <1>2 DEF PlaceOf, Circulate
<1>5. PlaceOf(1) = ReadPtr
  BY <1>1 DEF PlaceOf
<1>6. WritePtr' = PlaceOf(Used + 1)'
  BY <1>1, <1>2 DEF PlaceOf, Circulate
<1>7. \A i \in 1 .. Used' : IBuf'[PlaceOf(i)'] = IBuf[PlaceOf(i + 1)]
  BY <1>1, <1>2, <1>4
<1>8. RingMatchesSemaphores'
  <2>1. \A i \in 1 .. Used' : IBuf'[PlaceOf(i)'] \in Msgs
    BY <1>1, <1>7
  <2>. QED  BY <2>1, <1>1, <1>2, <1>6 DEF RingMatchesSemaphores
<1>9. /\ Contents \in Seq(Msgs) /\ Len(Contents) = Used
      /\ \A i \in 1 .. Used : Contents[i] = IBuf[PlaceOf(i)]
  BY ContentsSeq
<1>10. Contents # <<>>
  BY <1>1, <1>9, EmptySeq
<1>11. /\ Head(Contents) = Contents[1] /\ Head(Contents) \in Msgs
       /\ Tail(Contents) \in Seq(Msgs) /\ Len(Tail(Contents)) = Used - 1
       /\ \A i \in 1 .. Used - 1 : Tail(Contents)[i] = Contents[i + 1]
  BY <1>9, <1>10, HeadTailProperties
<1>12. got' = [got EXCEPT ![f] = Head(Contents)]
  <2>1. Contents[1] = IBuf[PlaceOf(1)]
    BY <1>1, <1>9
  <2>. QED  BY <2>1, <1>2, <1>5, <1>11
<1>13. Contents' = Tail(Contents)
  <2>1. Contents' = [i \in 1 .. Used' |-> IBuf[PlaceOf(i + 1)]]
    BY <1>7 DEF Contents
  <2>2. \A i \in 1 .. Used' : IBuf[PlaceOf(i + 1)] \in Msgs
    BY <1>1
  <2>3. Contents' \in Seq(Msgs) /\ Len(Contents') = Used - 1
    <3>1. Contents' \in [1 .. Used' -> Msgs] /\ Used' \in Nat /\ Used' = Used - 1
      BY <1>1, <2>1, <2>2
    <3>. QED  BY <3>1, SeqDef, LenProperties
  <2>4. \A i \in 1 .. Used - 1 : Contents'[i] = Tail(Contents)[i]
    BY <1>1, <1>9, <1>11, <2>1
  <2>. QED  BY <1>11, <2>3, <2>4, SeqEqual
<1>. QED  BY <1>1, <1>2, <1>3, <1>8, <1>10, <1>11, <1>12, <1>13 DEF Places

-----------------------------------------------------------------------------
(* The steps that move no message keep the ring and both counts.           *)
LEMMA QuietStep ==
  ASSUME IInv,
         UNCHANGED ring, Used' = Used,
         Positive(EmptyCnt)' = Positive(EmptyCnt), PromisedSends' = PromisedSends
  PROVE  /\ PlacesAccounted' /\ RingMatchesSemaphores'
         /\ Contents' = Contents
<1>1. IBuf' = IBuf /\ ReadPtr' = ReadPtr /\ WritePtr' = WritePtr
  BY DEF ring
<1>. QED
  BY <1>1 DEF IInv, PlacesAccounted, RingMatchesSemaphores, PlaceOf, Contents

(* A fetcher that goes to sleep found no message not already promised.     *)
LEMMA FetchSleepKeeps ==
  ASSUME IInv, NEW f \in Fetchers, FetchSleep(f)
  PROVE  IInv' /\ Contents' = Contents
<1>1. TypeOK /\ SemaphoresConsistent
  BY DEF IInv
<1>2. PICK sleep \in Asleep : pc' = [pc EXCEPT ![f] = sleep]
  BY DEF FetchSleep
<1>3. /\ pc[f] = "out" /\ FullCnt <= 0 /\ FullCnt' = FullCnt - 1
      /\ FullWait' = Append(FullWait, f) /\ FullCnt \in Int
      /\ UNCHANGED <<ring, EmptyCnt, EmptyWait, arg, got, rslt>>
      /\ pc \in [Threads -> Control] /\ f \in Threads /\ f \notin Senders
  BY <1>1, QueueAssumption DEF FetchSleep, TypeOK, Threads
<1>4. PromisedFetches' = PromisedFetches /\ PromisedSends' = PromisedSends
  BY <1>2, <1>3 DEF PromisedFetches, PromisedSends, Threads, Asleep
<1>5. /\ SleepersIn(Fetchers)' = SleepersIn(Fetchers) \cup {f}
      /\ f \notin SleepersIn(Fetchers)
      /\ SleepersIn(Senders)' = SleepersIn(Senders)
  BY <1>2, <1>3 DEF SleepersIn, Threads, Asleep
<1>6. /\ Lists(FullWait', SleepersIn(Fetchers)')
      /\ Len(FullWait') = Len(FullWait) + 1
  BY <1>1, <1>3, <1>5, ListsAppend DEF TypeOK
<1>7. Used' = Used
  BY <1>3, <1>4 DEF Used, Positive
<1>8. PlacesAccounted' /\ RingMatchesSemaphores' /\ Contents' = Contents
  BY <1>3, <1>4, <1>7, QuietStep
<1>9. SemaphoresConsistent'
  BY <1>1, <1>3, <1>6 DEF SemaphoresConsistent, SemOk, Positive
<1>10. pc' \in [Threads -> Control] /\ \A s \in Senders : pc'[s] = pc[s]
  BY <1>2, <1>3 DEF Control
<1>11. TypeOK'
  BY <1>1, <1>3, <1>5, <1>6, <1>10 DEF TypeOK, ring
<1>. QED  BY <1>8, <1>9, <1>11 DEF IInv

(* A sender that goes to sleep found no place not already promised.        *)
LEMMA SendSleepKeeps ==
  ASSUME IInv, NEW s \in Senders, NEW m \in Msgs, SendSleep(s, m)
  PROVE  IInv' /\ Contents' = Contents
<1>1. TypeOK /\ SemaphoresConsistent
  BY DEF IInv
<1>2. PICK sleep \in Asleep : pc' = [pc EXCEPT ![s] = sleep]
  BY DEF SendSleep
<1>3. /\ pc[s] = "out" /\ EmptyCnt <= 0 /\ EmptyCnt' = EmptyCnt - 1
      /\ EmptyWait' = Append(EmptyWait, s) /\ EmptyCnt \in Int
      /\ arg' = [arg EXCEPT ![s] = m]
      /\ UNCHANGED <<ring, FullCnt, FullWait, got, rslt>>
      /\ pc \in [Threads -> Control] /\ s \in Threads /\ s \notin Fetchers
  BY <1>1, QueueAssumption DEF SendSleep, TypeOK, Threads
<1>4. PromisedFetches' = PromisedFetches /\ PromisedSends' = PromisedSends
  BY <1>2, <1>3 DEF PromisedFetches, PromisedSends, Threads, Asleep
<1>5. /\ SleepersIn(Senders)' = SleepersIn(Senders) \cup {s}
      /\ s \notin SleepersIn(Senders)
      /\ SleepersIn(Fetchers)' = SleepersIn(Fetchers)
  BY <1>2, <1>3 DEF SleepersIn, Threads, Asleep
<1>6. /\ Lists(EmptyWait', SleepersIn(Senders)')
      /\ Len(EmptyWait') = Len(EmptyWait) + 1
  BY <1>1, <1>3, <1>5, ListsAppend DEF TypeOK
<1>7. Used' = Used /\ Positive(EmptyCnt)' = Positive(EmptyCnt)
  BY <1>3, <1>4 DEF Used, Positive
<1>8. PlacesAccounted' /\ RingMatchesSemaphores' /\ Contents' = Contents
  BY <1>3, <1>4, <1>7, QuietStep
<1>9. SemaphoresConsistent'
  BY <1>1, <1>3, <1>6 DEF SemaphoresConsistent, SemOk, Positive
<1>10. pc' \in [Threads -> Control] /\ \A t \in Senders \ {s} : pc'[t] = pc[t]
  BY <1>2, <1>3 DEF Control
<1>11. TypeOK'
  BY <1>1, <1>3, <1>5, <1>6, <1>10 DEF TypeOK, ring
<1>. QED  BY <1>8, <1>9, <1>11 DEF IInv

(* A timeout takes the sleeper out of the queue and gives its count back.  *)
LEMMA FetchTimeoutKeeps ==
  ASSUME IInv, NEW i \in DOMAIN FullWait, FetchTimeout(i)
  PROVE  IInv' /\ Contents' = Contents
<1>. DEFINE f == FullWait[i]
<1>1. TypeOK /\ SemaphoresConsistent /\ Lists(FullWait, SleepersIn(Fetchers))
  BY DEF IInv, TypeOK
<1>2. /\ f \in SleepersIn(Fetchers)
      /\ Lists(RemoveAt(FullWait, i), SleepersIn(Fetchers) \ {f})
      /\ Len(RemoveAt(FullWait, i)) = Len(FullWait) - 1
      /\ Len(FullWait) \in Nat \ {0}
  <2>1. FullWait \in Seq(SleepersIn(Fetchers))
    BY <1>1 DEF Lists
  <2>2. Len(FullWait) \in Nat \ {0}
    BY <2>1, LenProperties
  <2>. QED  BY <2>2, <1>1, ListsRemoveAt
<1>3. /\ pc[f] = "sleepTimed" /\ FullCnt' = FullCnt + 1
      /\ FullWait' = RemoveAt(FullWait, i)
      /\ pc' = [pc EXCEPT ![f] = "readyTimeout"]
      /\ UNCHANGED <<ring, EmptyCnt, EmptyWait, arg, got, rslt>>
      /\ f \in Fetchers /\ f \in Threads /\ f \notin Senders
      /\ pc \in [Threads -> Control]
      /\ FullCnt \in Int
  BY <1>1, <1>2, QueueAssumption DEF FetchTimeout, SleepersIn, TypeOK, Threads
<1>. HIDE DEF f
<1>4. FullCnt < 0 /\ Len(FullWait) = - FullCnt
  BY <1>1, <1>2, <1>3 DEF SemaphoresConsistent, SemOk, Positive
<1>5. PromisedFetches' = PromisedFetches /\ PromisedSends' = PromisedSends
  BY <1>3 DEF PromisedFetches, PromisedSends, Threads
<1>6. /\ SleepersIn(Fetchers)' = SleepersIn(Fetchers) \ {f}
      /\ SleepersIn(Senders)' = SleepersIn(Senders)
  BY <1>3 DEF SleepersIn, Threads, Asleep
<1>7. Used' = Used
  BY <1>3, <1>4, <1>5 DEF Used, Positive
<1>8. PlacesAccounted' /\ RingMatchesSemaphores' /\ Contents' = Contents
  BY <1>3, <1>5, <1>7, QuietStep
<1>9. SemaphoresConsistent'
  BY <1>1, <1>2, <1>3, <1>4 DEF SemaphoresConsistent, SemOk, Positive
<1>10. pc' \in [Threads -> Control] /\ \A s \in Senders : pc'[s] = pc[s]
  BY <1>3 DEF Control
<1>11. TypeOK'
  BY <1>1, <1>2, <1>3, <1>6, <1>10 DEF TypeOK, ring
<1>. QED  BY <1>8, <1>9, <1>11 DEF IInv

(* The same for a sender.                                                  *)
LEMMA SendTimeoutKeeps ==
  ASSUME IInv, NEW i \in DOMAIN EmptyWait, SendTimeout(i)
  PROVE  IInv' /\ Contents' = Contents
<1>. DEFINE s == EmptyWait[i]
<1>1. TypeOK /\ SemaphoresConsistent /\ Lists(EmptyWait, SleepersIn(Senders))
  BY DEF IInv, TypeOK
<1>2. /\ s \in SleepersIn(Senders)
      /\ Lists(RemoveAt(EmptyWait, i), SleepersIn(Senders) \ {s})
      /\ Len(RemoveAt(EmptyWait, i)) = Len(EmptyWait) - 1
      /\ Len(EmptyWait) \in Nat \ {0}
  <2>1. EmptyWait \in Seq(SleepersIn(Senders))
    BY <1>1 DEF Lists
  <2>2. Len(EmptyWait) \in Nat \ {0}
    BY <2>1, LenProperties
  <2>. QED  BY <2>2, <1>1, ListsRemoveAt
<1>3. /\ pc[s] = "sleepTimed" /\ EmptyCnt' = EmptyCnt + 1
      /\ EmptyWait' = RemoveAt(EmptyWait, i)
      /\ pc' = [pc EXCEPT ![s] = "readyTimeout"]
      /\ UNCHANGED <<ring, FullCnt, FullWait, arg, got, rslt>>
      /\ s \in Senders /\ s \in Threads /\ s \notin Fetchers
      /\ pc \in [Threads -> Control]
      /\ EmptyCnt \in Int
  BY <1>1, <1>2, QueueAssumption DEF SendTimeout, SleepersIn, TypeOK, Threads
<1>. HIDE DEF s
<1>4. EmptyCnt < 0 /\ Len(EmptyWait) = - EmptyCnt
  BY <1>1, <1>2, <1>3 DEF SemaphoresConsistent, SemOk, Positive
<1>5. PromisedFetches' = PromisedFetches /\ PromisedSends' = PromisedSends
  BY <1>3 DEF PromisedFetches, PromisedSends, Threads
<1>6. /\ SleepersIn(Senders)' = SleepersIn(Senders) \ {s}
      /\ SleepersIn(Fetchers)' = SleepersIn(Fetchers)
  BY <1>3 DEF SleepersIn, Threads, Asleep
<1>7. Used' = Used /\ Positive(EmptyCnt)' = Positive(EmptyCnt)
  BY <1>3, <1>4, <1>5 DEF Used, Positive
<1>8. PlacesAccounted' /\ RingMatchesSemaphores' /\ Contents' = Contents
  BY <1>3, <1>5, <1>7, QuietStep
<1>9. SemaphoresConsistent'
  BY <1>1, <1>2, <1>3, <1>4 DEF SemaphoresConsistent, SemOk, Positive
<1>10. pc' \in [Threads -> Control] /\ pc'[s] = "readyTimeout"
       /\ \A t \in Threads \ {s} : pc'[t] = pc[t]
  BY <1>3 DEF Control
<1>11. \A t \in Senders : pc'[t] # "out" => arg'[t] \in Msgs
  BY <1>1, <1>3, <1>10 DEF TypeOK, Threads
<1>12. TypeOK'
  BY <1>1, <1>2, <1>3, <1>6, <1>10, <1>11 DEF TypeOK, ring
<1>. QED  BY <1>8, <1>9, <1>12 DEF IInv

(* A message written by a sender, at once or after a sleep.                *)
LEMMA SendKeeps ==
  ASSUME IInv, NEW s \in Senders, NEW m \in Msgs,
         SendNow(s, m) \/ (SendResume(s) /\ m = arg[s])
  PROVE  IInv' /\ Len(Contents) < Sz /\ Contents' = Append(Contents, m)
<1>1. TypeOK /\ SemaphoresConsistent /\ RingMatchesSemaphores
  BY DEF IInv
<1>2. /\ WriteMsg(s, m) /\ pc[s] \in {"out", "readyOk"}
      /\ Free' = Free - 1 /\ Used + Free = Sz /\ Used < Sz
      /\ SemOk(EmptyCnt, EmptyWait)'
  BY SendTakesPlace
<1>3. /\ Used' = Used + 1
      /\ pc' \in [Threads -> Control]
      /\ Lists(FullWait, SleepersIn(Fetchers))'
      /\ SleepersIn(Senders)' = SleepersIn(Senders)
      /\ SemOk(FullCnt, FullWait)'
      /\ \A t \in Senders \ {s} : pc'[t] = pc[t]
      /\ pc'[s] = "out"
  BY <1>1, <1>2, WriteCounts
<1>4. /\ RingMatchesSemaphores'
      /\ IBuf' \in [Places -> Msgs \cup {NoMsg}]
      /\ ReadPtr' \in Places /\ WritePtr' \in Places
      /\ Contents' = Append(Contents, m)
  BY <1>1, <1>2, <1>3, WriteAppends
<1>5. /\ FullCnt' = FullCnt + 1 /\ EmptyWait' = EmptyWait /\ got' = got
      /\ rslt' = [rslt EXCEPT ![s] = "retvOk"]
  BY <1>2 DEF WriteMsg
<1>6. EmptyCnt' \in Int
  BY <1>1 DEF SendNow, SendResume, TypeOK
<1>7. /\ arg' \in [Senders -> Msgs \cup {NoMsg}]
      /\ \A t \in Senders \ {s} : arg'[t] = arg[t]
  BY <1>1 DEF SendNow, SendResume, TypeOK
<1>8. \A t \in Senders : pc'[t] # "out" => arg'[t] \in Msgs
  BY <1>1, <1>3, <1>7 DEF TypeOK
<1>9. Lists(EmptyWait, SleepersIn(Senders))'
  BY <1>1, <1>3, <1>5 DEF TypeOK
<1>10. TypeOK'
  <2>1. /\ FullCnt' \in Int
        /\ got' \in [Fetchers -> Msgs \cup {NoMsg}]
        /\ rslt' \in [Senders -> {"none", "retvOk", "retvTimeout"}]
    BY <1>1, <1>5 DEF TypeOK
  <2>. QED
    BY <2>1, <1>3, <1>4, <1>6, <1>7, <1>8, <1>9 DEF TypeOK
<1>11. SemaphoresConsistent'
  BY <1>2, <1>3 DEF SemaphoresConsistent
<1>12. PlacesAccounted'
  <2>1. Used' \in Nat /\ Free' \in Nat /\ Used' + Free' = Sz
    <3>1. Used \in Nat /\ Free \in Nat
      BY <1>1, CountsAreNat
    <3>. QED  BY <3>1, <1>2, <1>3, QueueAssumption
  <2>2. Cardinality(PromisedSends)' \in Nat
    <3>1. PromisedSends' = PromisedSends \ {s}
      BY <1>1, <1>2, WriteCounts
    <3>2. IsFiniteSet(PromisedSends \ {s})
      BY <1>1, CountsAreNat, FS_RemoveElement
    <3>. QED  BY <3>1, <3>2, FS_CardinalityType
  <2>. QED  BY <2>1, <2>2, <1>6 DEF PlacesAccounted, Free, Positive
<1>13. Len(Contents) < Sz
  BY <1>1, <1>2, ContentsSeq
<1>. QED  BY <1>4, <1>10, <1>11, <1>12, <1>13 DEF IInv

(* A message read by a fetcher, at once or after a sleep.                  *)
LEMMA FetchKeeps ==
  ASSUME IInv, NEW f \in Fetchers, FetchNow(f) \/ FetchResume(f)
  PROVE  /\ IInv' /\ Contents # <<>> /\ Contents' = Tail(Contents)
         /\ got' = [got EXCEPT ![f] = Head(Contents)]
<1>1. TypeOK /\ SemaphoresConsistent /\ RingMatchesSemaphores
  BY DEF IInv
<1>2. /\ ReadMsg(f) /\ pc[f] \in {"out", "readyOk"}
      /\ Used' = Used - 1 /\ Used + Free = Sz /\ Used > 0
      /\ SemOk(FullCnt, FullWait)'
  BY FetchTakesMessage
<1>3. /\ Free' = Free + 1
      /\ PromisedFetches' = PromisedFetches \ {f}
      /\ pc' \in [Threads -> Control]
      /\ Lists(EmptyWait, SleepersIn(Senders))'
      /\ SleepersIn(Fetchers)' = SleepersIn(Fetchers)
      /\ SemOk(EmptyCnt, EmptyWait)'
  BY <1>1, <1>2, ReadCounts
<1>4. /\ RingMatchesSemaphores'
      /\ ReadPtr' \in Places /\ WritePtr' \in Places
      /\ Contents # <<>> /\ Contents' = Tail(Contents)
      /\ got' = [got EXCEPT ![f] = Head(Contents)]
      /\ Head(Contents) \in Msgs
  BY <1>1, <1>2, ReadDropsFirst
<1>5. /\ EmptyCnt' = EmptyCnt + 1 /\ FullWait' = FullWait /\ IBuf' = IBuf
      /\ arg' = arg /\ rslt' = rslt
      /\ pc' = Ready(Woken(EmptyCnt, EmptyWait), [pc EXCEPT ![f] = "out"])
  BY <1>2 DEF ReadMsg
<1>6. FullCnt' \in Int
  BY <1>1 DEF FetchNow, FetchResume, TypeOK
<1>7. \A t \in Senders : pc'[t] # "out" => arg'[t] \in Msgs
  <2>1. \A t \in Senders : pc'[t] # "out" => pc[t] # "out"
    <3>1. TAKE t \in Senders
    <3>2. CASE EmptyCnt < 0
      <4>1. EmptyWait # <<>>
        <5>1. Len(EmptyWait) = - EmptyCnt
          BY <3>2, <1>1 DEF SemaphoresConsistent, SemOk, TypeOK, Positive
        <5>. QED  BY <5>1, <3>2, <1>1, EmptySeq DEF TypeOK
      <4>2. pc[Head(EmptyWait)] \in Asleep
        <5>1. Lists(EmptyWait, SleepersIn(Senders))
          BY <1>1 DEF TypeOK
        <5>2. Head(EmptyWait) \in SleepersIn(Senders)
          BY <4>1, <5>1, ListsTail
        <5>. QED  BY <5>2 DEF SleepersIn
      <4>. QED
        BY <3>2, <4>2, <1>1, <1>5, QueueAssumption
        DEF Ready, Woken, MustWake, Threads, Asleep, TypeOK
    <3>3. CASE ~ (EmptyCnt < 0)
      BY <3>3, <1>1, <1>5, QueueAssumption DEF Ready, Woken, MustWake, Threads, TypeOK
    <3>. QED  BY <3>2, <3>3
  <2>. QED  BY <2>1, <1>1, <1>5 DEF TypeOK
<1>8. Lists(FullWait, SleepersIn(Fetchers))'
  BY <1>1, <1>3, <1>5 DEF TypeOK
<1>9. TypeOK'
  <2>1. /\ EmptyCnt' \in Int
        /\ IBuf' \in [Places -> Msgs \cup {NoMsg}]
        /\ got' \in [Fetchers -> Msgs \cup {NoMsg}]
        /\ arg' \in [Senders -> Msgs \cup {NoMsg}]
        /\ rslt' \in [Senders -> {"none", "retvOk", "retvTimeout"}]
    BY <1>1, <1>4, <1>5 DEF TypeOK
  <2>. QED
    BY <2>1, <1>3, <1>4, <1>6, <1>7, <1>8 DEF TypeOK
<1>10. SemaphoresConsistent'
  BY <1>2, <1>3 DEF SemaphoresConsistent
<1>11. PlacesAccounted'
  <2>1. Used' \in Nat /\ Free' \in Nat /\ Used' + Free' = Sz
    <3>1. Used \in Nat /\ Free \in Nat
      BY <1>1, CountsAreNat
    <3>. QED  BY <3>1, <1>2, <1>3, QueueAssumption
  <2>2. Cardinality(PromisedSends)' \in Nat /\ EmptyCnt' \in Int
    <3>1. PromisedSends' \subseteq Senders
      BY DEF PromisedSends
    <3>2. IsFiniteSet(PromisedSends')
      BY <3>1, QueueAssumption, FS_Subset
    <3>. QED  BY <3>2, <1>1, <1>5, FS_CardinalityType DEF TypeOK
  <2>. QED  BY <2>1, <2>2 DEF PlacesAccounted, Free, Positive
<1>. QED  BY <1>4, <1>9, <1>10, <1>11 DEF IInv

(* The calls that return with nothing done.                                *)
LEMMA NothingKeeps ==
  ASSUME IInv,
         \/ \E f \in Fetchers : FetchNothing(f) \/ FetchGiveUp(f)
         \/ \E s \in Senders : SendRefused(s) \/ SendGiveUp(s)
  PROVE  IInv' /\ Contents' = Contents
<1>1. TypeOK /\ SemaphoresConsistent
  BY DEF IInv
<1>2. UNCHANGED <<ring, sems>>
  BY DEF FetchNothing, FetchGiveUp, SendRefused, SendGiveUp
<1>3. \/ pc' = pc /\ arg' = arg
      \/ \E f \in Fetchers : /\ pc[f] = "readyTimeout" /\ arg' = arg
                             /\ pc' = [pc EXCEPT ![f] = "out"]
      \/ \E s \in Senders : /\ pc[s] = "readyTimeout"
                            /\ arg' = [arg EXCEPT ![s] = NoMsg]
                            /\ pc' = [pc EXCEPT ![s] = "out"]
  BY DEF FetchNothing, FetchGiveUp, SendRefused, SendGiveUp
<1>4. /\ pc' \in [Threads -> Control]
      /\ \A t \in Threads : \/ pc'[t] = pc[t]
                            \/ pc[t] = "readyTimeout" /\ pc'[t] = "out"
      /\ arg' \in [Senders -> Msgs \cup {NoMsg}]
      /\ \A s \in Senders : pc'[s] # "out" => arg'[s] \in Msgs
  BY <1>1, <1>3 DEF TypeOK, Threads, Control
<1>5. PromisedFetches' = PromisedFetches /\ PromisedSends' = PromisedSends
  BY <1>4 DEF PromisedFetches, PromisedSends, Threads
<1>6. /\ SleepersIn(Fetchers)' = SleepersIn(Fetchers)
      /\ SleepersIn(Senders)' = SleepersIn(Senders)
  BY <1>4 DEF SleepersIn, Threads, Asleep
<1>7. Used' = Used /\ Positive(EmptyCnt)' = Positive(EmptyCnt)
  BY <1>2, <1>5 DEF Used, Positive, sems
<1>8. PlacesAccounted' /\ RingMatchesSemaphores' /\ Contents' = Contents
  BY <1>2, <1>5, <1>7, QuietStep
<1>9. SemaphoresConsistent'
  BY <1>1, <1>2 DEF SemaphoresConsistent, SemOk, Positive, sems
<1>10. /\ got' \in [Fetchers -> Msgs \cup {NoMsg}]
       /\ rslt' \in [Senders -> {"none", "retvOk", "retvTimeout"}]
  BY <1>1 DEF FetchNothing, FetchGiveUp, SendRefused, SendGiveUp, TypeOK
<1>11. TypeOK'
  BY <1>1, <1>2, <1>4, <1>6, <1>10 DEF TypeOK, ring, sems
<1>. QED  BY <1>8, <1>9, <1>11 DEF IInv

-----------------------------------------------------------------------------
(* Each step of the queue keeps the invariant and is a step of the bounded *)
(* queue of messages, or none.                                             *)

LEMMA InitIInv == Init => IInv /\ Contents = <<>>
<1>. SUFFICES ASSUME Init PROVE IInv /\ Contents = <<>>
  OBVIOUS
<1>1. PromisedFetches = {} /\ PromisedSends = {} /\ SleepersIn(Fetchers) = {}
      /\ SleepersIn(Senders) = {}
  BY DEF Init, PromisedFetches, PromisedSends, SleepersIn, Threads, Asleep
<1>2. Cardinality({}) = 0
  BY FS_EmptySet
<1>3. Used = 0
  BY <1>1, <1>2 DEF Init, Used, Positive
<1>4. Lists(<<>>, {})
  <2>1. <<>> \in Seq({}) /\ DOMAIN <<>> = {}
    OBVIOUS
  <2>. QED  BY <2>1 DEF Lists, IsInjective, ToSet
<1>5. Len(<<>>) = 0
  BY EmptySeq
<1>6. TypeOK
  BY <1>1, <1>4, QueueAssumption
  DEF Init, TypeOK, Places, Threads, Control, Asleep
<1>7. SemaphoresConsistent
  BY <1>5, QueueAssumption DEF Init, SemaphoresConsistent, SemOk, Positive
<1>8. PlacesAccounted
  BY <1>1, <1>2, <1>3, QueueAssumption DEF Init, PlacesAccounted, Positive
<1>9. RingMatchesSemaphores
  BY <1>3, QueueAssumption DEF Init, RingMatchesSemaphores, PlaceOf
<1>10. Contents = <<>>
  BY <1>3, <1>6, <1>9, ContentsSeq, EmptySeq
<1>. QED  BY <1>6, <1>7, <1>8, <1>9, <1>10 DEF IInv

LEMMA StepKeepsAndRefines ==
  ASSUME IInv, [Next]_vars
  PROVE  IInv' /\ [Fifo!Next]_(Fifo!vars)
<1>1. ASSUME NEW f \in Fetchers, FetchNow(f) \/ FetchResume(f)
      PROVE  IInv' /\ Fifo!Next
  <2>1. /\ IInv' /\ Contents # <<>> /\ Contents' = Tail(Contents)
        /\ got' = [got EXCEPT ![f] = Head(Contents)]
    BY <1>1, FetchKeeps
  <2>2. rslt' = rslt
    BY <1>1 DEF FetchNow, FetchResume, ReadMsg
  <2>. QED  BY <2>1, <2>2 DEF Fifo!Next, Fifo!Take
<1>2. ASSUME NEW f \in Fetchers, FetchNothing(f) \/ FetchGiveUp(f)
      PROVE  IInv' /\ Fifo!Next
  <2>1. IInv' /\ Contents' = Contents
    BY <1>2, NothingKeeps
  <2>2. rslt' = rslt /\ got' = [got EXCEPT ![f] = NoMsg]
    BY <1>2 DEF FetchNothing, FetchGiveUp
  <2>. QED  BY <2>1, <2>2 DEF Fifo!Next, Fifo!Miss
<1>3. ASSUME NEW f \in Fetchers, FetchSleep(f)
      PROVE  IInv' /\ UNCHANGED Fifo!vars
  BY <1>3, FetchSleepKeeps DEF FetchSleep, Fifo!vars
<1>4. ASSUME NEW s \in Senders, NEW m \in Msgs,
             SendNow(s, m) \/ (SendResume(s) /\ m = arg[s])
      PROVE  IInv' /\ Fifo!Next
  <2>1. IInv' /\ Len(Contents) < Sz /\ Contents' = Append(Contents, m)
    BY <1>4, SendKeeps
  <2>2. got' = got /\ rslt' = [rslt EXCEPT ![s] = "retvOk"]
    BY <1>4 DEF SendNow, SendResume, WriteMsg
  <2>. QED  BY <2>1, <2>2 DEF Fifo!Next, Fifo!Put
<1>5. ASSUME NEW s \in Senders, SendRefused(s) \/ SendGiveUp(s)
      PROVE  IInv' /\ Fifo!Next
  <2>1. IInv' /\ Contents' = Contents
    BY <1>5, NothingKeeps
  <2>2. got' = got /\ rslt' = [rslt EXCEPT ![s] = "retvTimeout"]
    BY <1>5 DEF SendRefused, SendGiveUp
  <2>. QED  BY <2>1, <2>2 DEF Fifo!Next, Fifo!Refuse
<1>6. ASSUME NEW s \in Senders, NEW m \in Msgs, SendSleep(s, m)
      PROVE  IInv' /\ UNCHANGED Fifo!vars
  BY <1>6, SendSleepKeeps DEF SendSleep, Fifo!vars
<1>7. ASSUME NEW s \in Senders, SendResume(s)
      PROVE  IInv' /\ Fifo!Next
  <2>1. arg[s] \in Msgs
    BY <1>7 DEF SendResume, IInv, TypeOK
  <2>. QED  BY <1>4, <1>7, <2>1
<1>8. CASE TimerStep
  <2>1. ASSUME NEW i \in DOMAIN FullWait, FetchTimeout(i)
        PROVE  IInv' /\ UNCHANGED Fifo!vars
    BY <2>1, FetchTimeoutKeeps DEF FetchTimeout, Fifo!vars
  <2>2. ASSUME NEW i \in DOMAIN EmptyWait, SendTimeout(i)
        PROVE  IInv' /\ UNCHANGED Fifo!vars
    BY <2>2, SendTimeoutKeeps DEF SendTimeout, Fifo!vars
  <2>. QED  BY <1>8, <2>1, <2>2 DEF TimerStep
<1>9. CASE UNCHANGED vars
  <2>1. /\ PromisedFetches' = PromisedFetches /\ PromisedSends' = PromisedSends
        /\ SleepersIn(Fetchers)' = SleepersIn(Fetchers)
        /\ SleepersIn(Senders)' = SleepersIn(Senders)
        /\ UNCHANGED <<ring, sems, pc, arg, got, rslt>>
    BY <1>9 DEF vars, ring, sems, PromisedFetches, PromisedSends, SleepersIn
  <2>2. Used' = Used /\ Positive(EmptyCnt)' = Positive(EmptyCnt)
    BY <2>1 DEF sems, Used, Positive
  <2>3. PlacesAccounted' /\ RingMatchesSemaphores' /\ Contents' = Contents
    BY <2>1, <2>2, QuietStep
  <2>4. TypeOK' /\ SemaphoresConsistent'
    BY <2>1 DEF IInv, TypeOK, ring, sems, SemaphoresConsistent, SemOk, Positive
  <2>. QED  BY <2>1, <2>3, <2>4 DEF IInv, Fifo!vars
<1>. QED
  BY <1>1, <1>2, <1>3, <1>4, <1>5, <1>6, <1>7, <1>8, <1>9
  DEF Next, FetchStep, SendStep

(* The inductive invariant holds in every reachable state.                 *)
THEOREM InductiveInvariant == Spec => []IInv
<1>1. Init => IInv
  BY InitIInv
<1>2. IInv /\ [Next]_vars => IInv'
  BY StepKeepsAndRefines
<1>. QED  BY <1>1, <1>2, PTL DEF Spec

(* Every variable has its type, and each semaphore's queue lists exactly   *)
(* the threads asleep on it.                                               *)
THEOREM TypeCorrect == Spec => []TypeOK
<1>1. IInv => TypeOK
  BY DEF IInv
<1>. QED  BY <1>1, InductiveInvariant, PTL

(* The kernel's assertion "inconsistent semaphore" never fails on either   *)
(* semaphore of the queue.                                                 *)
THEOREM SemaphoresStayConsistent == Spec => []SemaphoresConsistent
<1>1. IInv => SemaphoresConsistent
  BY DEF IInv
<1>. QED  BY <1>1, InductiveInvariant, PTL

(* No place of the ring is leaked or given twice.                          *)
THEOREM NoPlaceLost == Spec => []PlacesAccounted
<1>1. IInv => PlacesAccounted
  BY DEF IInv
<1>. QED  BY <1>1, InductiveInvariant, PTL

(* The pointers enclose exactly the messages that the semaphores count.    *)
THEOREM RingStaysConsistent == Spec => []RingMatchesSemaphores
<1>1. IInv => RingMatchesSemaphores
  BY DEF IInv
<1>. QED  BY <1>1, InductiveInvariant, PTL

(* No thread sleeps on a semaphore while there is something for it.        *)
THEOREM WakeupsAreNotLost == Spec => []NoLostWakeup
<1>1. IInv => NoLostWakeup
  <2>. SUFFICES ASSUME IInv PROVE NoLostWakeup
    OBVIOUS
  <2>1. /\ FullCnt \in Int /\ EmptyCnt \in Int
        /\ FullWait \in Seq(SleepersIn(Fetchers))
        /\ EmptyWait \in Seq(SleepersIn(Senders))
        /\ TypeOK
    BY DEF IInv, TypeOK, Lists
  <2>2. /\ FullWait # <<>> => FullCnt < 0
        /\ EmptyWait # <<>> => EmptyCnt < 0
    BY <2>1, EmptySeq DEF IInv, SemaphoresConsistent, SemOk, Positive
  <2>3. Used + Positive(EmptyCnt) + Cardinality(PromisedSends) = Sz
    BY DEF IInv, PlacesAccounted
  <2>4. FullWait # <<>> => Used = Cardinality(PromisedFetches)
    BY <2>1, <2>2, CountsAreNat DEF Used, Positive
  <2>5. EmptyWait # <<>> => Sz - Used = Cardinality(PromisedSends)
    BY <2>1, <2>2, <2>3, CountsAreNat, QueueAssumption DEF Positive
  <2>. QED  BY <2>4, <2>5 DEF NoLostWakeup
<1>. QED  BY <1>1, InductiveInvariant, PTL

(* A message is refused only when no place is left for it.                 *)
THEOREM RefusalIsJustified == Spec => RefusedOnlyWhenFull
<1>1. IInv /\ [Next]_vars =>
        [\A s \in Senders :
           SendRefused(s) => Used + Cardinality(PromisedSends) = Sz]_vars
  <2>. SUFFICES ASSUME IInv, NEW s \in Senders, SendRefused(s)
                PROVE  Used + Cardinality(PromisedSends) = Sz
    OBVIOUS
  <2>1. TypeOK /\ EmptyCnt \in Int /\ EmptyCnt <= 0
    BY DEF IInv, TypeOK, SendRefused
  <2>. QED  BY <2>1, CountsAreNat DEF IInv, PlacesAccounted, Positive
<1>. QED  BY <1>1, InductiveInvariant, PTL DEF Spec, RefusedOnlyWhenFull

(* The ring with its semaphores implements the bounded first-in first-out  *)
(* queue: no message is lost, duplicated, reordered or made up, whatever   *)
(* the interleaving of handlers, threads and timeouts.                     *)
THEOREM RefinesFifo == Spec => ImplementsFifo
<1>1. Init => Fifo!Init
  BY InitIInv DEF Init, Fifo!Init
<1>2. IInv /\ [Next]_vars => [Fifo!Next]_(Fifo!vars)
  BY StepKeepsAndRefines
<1>. QED
  BY <1>1, <1>2, InductiveInvariant, PTL DEF Spec, ImplementsFifo, Fifo!Spec
=============================================================================
