------------------------- MODULE RadioLevel1Proofs -------------------------
(***************************************************************************)
(* Proofs about RadioLevel1 for queues of any length, packets of any size, *)
(* any number of bursts and any bounds.  What comes from the air and what  *)
(* goes to it share only the radio thread's for loop, so each has its own  *)
(* inductive invariant: RecvInv and SendInv.                               *)
(***************************************************************************)
EXTENDS RadioLevel1, FiniteSetTheorems, TLAPS

-----------------------------------------------------------------------------
(* Sequences, and how often an element occurs in one.                      *)

LEMMA TailElements ==
  ASSUME NEW S, NEW s \in Seq(S), s # <<>>
  PROVE  /\ Tail(s) \in Seq(S) /\ Len(Tail(s)) = Len(s) - 1 /\ Len(s) \in Nat /\ Len(s) > 0
         /\ \A n \in 1 .. Len(s) - 1 : Tail(s)[n] = s[n + 1]
         /\ Head(s) = s[1] /\ s[1] \in S
OBVIOUS

LEMMA AppendElements ==
  ASSUME NEW S, NEW s \in Seq(S), NEW e \in S
  PROVE  /\ Append(s, e) \in Seq(S) /\ Len(Append(s, e)) = Len(s) + 1 /\ Len(s) \in Nat
         /\ \A n \in 1 .. Len(s) : Append(s, e)[n] = s[n]
         /\ Append(s, e)[Len(s) + 1] = e
OBVIOUS

LEMMA ElementsIn ==
  ASSUME NEW S, NEW s \in Seq(S)
  PROVE  \A n \in 1 .. Len(s) : s[n] \in S
OBVIOUS

LEMMA CountSet ==
  ASSUME NEW S, NEW s \in Seq(S), NEW e
  PROVE  /\ DOMAIN s = 1 .. Len(s) /\ Len(s) \in Nat
         /\ IsFiniteSet({n \in DOMAIN s : s[n] = e})
         /\ Count(s, e) \in Nat
<1>1. DOMAIN s = 1 .. Len(s) /\ Len(s) \in Nat
  OBVIOUS
<1>2. IsFiniteSet(1 .. Len(s))
  BY <1>1, FS_Interval
<1>3. IsFiniteSet({n \in DOMAIN s : s[n] = e})
  <2>1. {n \in DOMAIN s : s[n] = e} \in SUBSET (1 .. Len(s))
    BY <1>1
  <2>. QED  BY <2>1, <1>2, FS_Subset
<1>. QED  BY <1>1, <1>3, FS_CardinalityType DEF Count

LEMMA CountEmpty == ASSUME NEW e PROVE Count(<<>>, e) = 0
<1>1. {n \in DOMAIN <<>> : <<>>[n] = e} = {}
  OBVIOUS
<1>. QED  BY <1>1, FS_EmptySet DEF Count

LEMMA CountAppend ==
  ASSUME NEW S, NEW s \in Seq(S), NEW d \in S, NEW e
  PROVE  Count(Append(s, d), e) = Count(s, e) + (IF d = e THEN 1 ELSE 0)
<1>. DEFINE A == {n \in DOMAIN s : s[n] = e}
            B == {n \in DOMAIN Append(s, d) : Append(s, d)[n] = e}
<1>1. /\ DOMAIN s = 1 .. Len(s) /\ Len(s) \in Nat
      /\ DOMAIN Append(s, d) = 1 .. Len(s) + 1
      /\ \A n \in 1 .. Len(s) : Append(s, d)[n] = s[n]
      /\ Append(s, d)[Len(s) + 1] = d
  BY AppendElements
<1>2. IsFiniteSet(A) /\ Count(s, e) \in Nat
  BY CountSet
<1>3. Count(s, e) = Cardinality(A) /\ Count(Append(s, d), e) = Cardinality(B)
  BY DEF Count
<1>4. CASE d = e
  <2>1. B = A \cup {Len(s) + 1} /\ Len(s) + 1 \notin A
    BY <1>1, <1>4
  <2>. HIDE DEF A, B
  <2>. QED  BY <2>1, <1>2, <1>3, <1>4, FS_AddElement
<1>5. CASE d # e
  <2>1. B = A
    BY <1>1, <1>5
  <2>. HIDE DEF A, B
  <2>. QED  BY <2>1, <1>2, <1>3, <1>5
<1>. QED  BY <1>4, <1>5

LEMMA CountTail ==
  ASSUME NEW S, NEW s \in Seq(S), s # <<>>, NEW e
  PROVE  Count(s, e) = Count(Tail(s), e) + (IF Head(s) = e THEN 1 ELSE 0)
<1>. DEFINE A == {n \in DOMAIN s : s[n] = e}
            B == {n \in DOMAIN Tail(s) : Tail(s)[n] = e}
            f == [n \in B |-> n + 1]
<1>1. /\ DOMAIN s = 1 .. Len(s) /\ Len(s) \in Nat /\ Len(s) > 0
      /\ DOMAIN Tail(s) = 1 .. Len(s) - 1
      /\ \A n \in 1 .. Len(s) - 1 : Tail(s)[n] = s[n + 1]
      /\ Head(s) = s[1] /\ Tail(s) \in Seq(S)
  BY TailElements
<1>2. IsFiniteSet(A) /\ Count(s, e) \in Nat /\ IsFiniteSet(B) /\ Count(Tail(s), e) \in Nat
  BY <1>1, CountSet
<1>3. f \in Bijection(B, A \ {1})
  <2>1. \A n \in B : n \in Nat /\ n + 1 \in A \ {1}
    BY <1>1
  <2>2. \A n \in A \ {1} : n - 1 \in B /\ (n - 1) + 1 = n
    BY <1>1
  <2>3. f \in [B -> A \ {1}]
    BY <2>1
  <2>4. \A m, n \in B : f[m] = f[n] => m = n
    BY <2>1
  <2>5. \A n \in A \ {1} : \E m \in B : f[m] = n
    BY <2>2
  <2>. QED  BY <2>3, <2>4, <2>5 DEF Bijection, Injection, Surjection, IsInjective
<1>4. Cardinality(A \ {1}) = Cardinality(B)
  BY <1>2, <1>3, FS_Bijection DEF ExistsBijection
<1>5. Cardinality(A \ {1}) = IF 1 \in A THEN Cardinality(A) - 1 ELSE Cardinality(A)
  BY <1>2, FS_RemoveElement
<1>6. 1 \in A <=> Head(s) = e
  BY <1>1
<1>7. Count(s, e) = Cardinality(A) /\ Count(Tail(s), e) = Cardinality(B)
  BY DEF Count
<1>. HIDE DEF A, B
<1>. QED  BY <1>2, <1>4, <1>5, <1>6, <1>7

-----------------------------------------------------------------------------
(* The receiving side.                                                     *)

RecvType ==
  /\ EvtQMain \in Seq({"radioCmd", "other"}) /\ Len(EvtQMain) <= EvtQLen
  /\ received_packets \in Seq(1 .. MaxRx) /\ Len(received_packets) <= RMsgQLen
  /\ rx \in 0 .. MaxRx /\ lostEvt \in 0 .. rx /\ lostPkt \in 0 .. rx
  /\ handed \in Seq(0 .. MaxRx)

(* Packets wait in the order they came, behind all that were handed over.  *)
InOrder ==
  /\ \A n \in 1 .. Len(received_packets) : received_packets[n] <= rx
  /\ \A n, p \in 1 .. Len(received_packets) : n < p => received_packets[n] < received_packets[p]
  /\ \A n \in 1 .. Len(handed), p \in 1 .. Len(received_packets) : handed[n] < received_packets[p]
  /\ \A n \in 1 .. Len(handed) : handed[n] <= rx
  /\ \A n, p \in 1 .. Len(handed) : n < p /\ handed[n] > 0 /\ handed[p] > 0 => handed[n] < handed[p]

RecvInv == RecvType /\ PacketsMatchEvents /\ InOrder

LEMMA RecvInit == Init => RecvInv
<1>1. SUFFICES ASSUME Init PROVE RecvInv
  OBVIOUS
<1>2. /\ EvtQMain = <<>> /\ received_packets = <<>> /\ handed = <<>>
      /\ rx = 0 /\ lostEvt = 0 /\ lostPkt = 0 /\ main # "radioCmd"
  BY <1>1 DEF Init
<1>3. /\ <<>> \in Seq({"radioCmd", "other"}) /\ <<>> \in Seq(1 .. MaxRx) /\ <<>> \in Seq(0 .. MaxRx)
      /\ Len(<<>>) = 0
  OBVIOUS
<1>4. RecvType
  BY <1>2, <1>3, RadioAssumption DEF RecvType
<1>5. PacketsMatchEvents
  BY <1>2, <1>3, CountEmpty DEF PacketsMatchEvents, PendingEvents, Zeroes
<1>6. InOrder
  BY <1>2, <1>3 DEF InOrder
<1>. QED  BY <1>4, <1>5, <1>6 DEF RecvInv

(* A packet comes: a queue takes its part, or refuses it and has lost one  *)
(* more.                                                                   *)
LEMMA EventQueued ==
  ASSUME RecvType
  PROVE  LET evt == SendNowOrExit(EvtQMain, EvtQLen, "radioCmd")
         IN  \/ evt = EvtQMain /\ Miss(lostEvt, EvtQMain, EvtQLen) = lostEvt + 1
             \/ /\ Miss(lostEvt, EvtQMain, EvtQLen) = lostEvt
                /\ evt \in Seq({"radioCmd", "other"}) /\ Len(evt) <= EvtQLen
                /\ Count(evt, "radioCmd") = Count(EvtQMain, "radioCmd") + 1
<1>. DEFINE S   == {"radioCmd", "other"}
            evt == Append(EvtQMain, "radioCmd")
<1>1. EvtQMain \in Seq(S) /\ Len(EvtQMain) \in Nat /\ EvtQLen \in Nat /\ "radioCmd" \in S
  BY RadioAssumption DEF RecvType
<1>. HIDE DEF S
<1>2. evt \in Seq(S) /\ Len(evt) = Len(EvtQMain) + 1
  BY <1>1, AppendElements
<1>3. Count(evt, "radioCmd") = Count(EvtQMain, "radioCmd") + (IF "radioCmd" = "radioCmd" THEN 1 ELSE 0)
  BY <1>1, CountAppend, Zenon
<1>4. CASE Full(EvtQMain, EvtQLen)
  BY <1>4 DEF SendNowOrExit, Miss
<1>5. CASE ~Full(EvtQMain, EvtQLen)
  <2>1. /\ SendNowOrExit(EvtQMain, EvtQLen, "radioCmd") = evt
        /\ Miss(lostEvt, EvtQMain, EvtQLen) = lostEvt
    BY <1>5 DEF SendNowOrExit, Miss
  <2>2. Len(evt) <= EvtQLen
    BY <1>1, <1>2, <1>5 DEF Full
  <2>. HIDE DEF evt
  <2>. QED  BY <2>1, <2>2, <1>2, <1>3 DEF S
<1>. QED  BY <1>4, <1>5

LEMMA PacketQueued ==
  ASSUME RecvType, rx < MaxRx
  PROVE  LET pkt == SendNowOrExit(received_packets, RMsgQLen, rx + 1)
         IN  \/ pkt = received_packets /\ Miss(lostPkt, received_packets, RMsgQLen) = lostPkt + 1
             \/ /\ Miss(lostPkt, received_packets, RMsgQLen) = lostPkt
                /\ pkt = Append(received_packets, rx + 1)
                /\ pkt \in Seq(1 .. MaxRx) /\ Len(pkt) <= RMsgQLen
                /\ Len(pkt) = Len(received_packets) + 1
<1>. DEFINE S   == 1 .. MaxRx
            pkt == Append(received_packets, rx + 1)
<1>1. received_packets \in Seq(S) /\ Len(received_packets) \in Nat /\ RMsgQLen \in Nat /\ rx + 1 \in S
  BY RadioAssumption DEF RecvType
<1>. HIDE DEF S
<1>2. pkt \in Seq(S) /\ Len(pkt) = Len(received_packets) + 1
  BY <1>1, AppendElements
<1>3. CASE Full(received_packets, RMsgQLen)
  BY <1>3 DEF SendNowOrExit, Miss
<1>4. CASE ~Full(received_packets, RMsgQLen)
  <2>1. /\ SendNowOrExit(received_packets, RMsgQLen, rx + 1) = pkt
        /\ Miss(lostPkt, received_packets, RMsgQLen) = lostPkt
    BY <1>4 DEF SendNowOrExit, Miss
  <2>2. Len(pkt) <= RMsgQLen
    BY <1>1, <1>2, <1>4 DEF Full
  <2>. QED  BY <2>1, <2>2, <1>2 DEF S
<1>. QED  BY <1>3, <1>4

LEMMA RecvRxOk ==
  ASSUME RecvInv, RxOk
  PROVE  RecvInv'
<1>. DEFINE evt == SendNowOrExit(EvtQMain, EvtQLen, "radioCmd")
            pkt == SendNowOrExit(received_packets, RMsgQLen, rx + 1)
<1>1. /\ rx < MaxRx /\ rx' = rx + 1 /\ EvtQMain' = evt /\ received_packets' = pkt
      /\ lostEvt' = Miss(lostEvt, EvtQMain, EvtQLen)
      /\ lostPkt' = Miss(lostPkt, received_packets, RMsgQLen)
      /\ handed' = handed /\ main' = main
  BY DEF RxOk, RadioFrame
<1>2. /\ EvtQMain \in Seq({"radioCmd", "other"}) /\ Len(EvtQMain) <= EvtQLen
      /\ received_packets \in Seq(1 .. MaxRx) /\ Len(received_packets) <= RMsgQLen
      /\ rx \in 0 .. MaxRx /\ lostEvt \in 0 .. rx /\ lostPkt \in 0 .. rx
      /\ handed \in Seq(0 .. MaxRx)
      /\ EvtQLen \in Nat /\ RMsgQLen \in Nat /\ MaxRx \in Nat
  BY RadioAssumption DEF RecvInv, RecvType
<1>3. rx \in Nat /\ lostEvt \in Nat /\ lostPkt \in Nat /\ rx + 1 \in 1 .. MaxRx
  BY <1>1, <1>2
<1>4. \/ evt = EvtQMain /\ lostEvt' = lostEvt + 1
      \/ /\ lostEvt' = lostEvt
         /\ evt \in Seq({"radioCmd", "other"}) /\ Len(evt) <= EvtQLen
         /\ Count(evt, "radioCmd") = Count(EvtQMain, "radioCmd") + 1
  BY <1>1, EventQueued DEF RecvInv
<1>5. \/ pkt = received_packets /\ lostPkt' = lostPkt + 1
      \/ /\ lostPkt' = lostPkt /\ pkt = Append(received_packets, rx + 1)
         /\ pkt \in Seq(1 .. MaxRx) /\ Len(pkt) <= RMsgQLen
         /\ Len(pkt) = Len(received_packets) + 1
  BY <1>1, PacketQueued DEF RecvInv
<1>. HIDE DEF evt, pkt
<1>6. RecvType'
  <2>1. /\ lostEvt' = lostEvt + 1 \/ lostEvt' = lostEvt
        /\ lostPkt' = lostPkt + 1 \/ lostPkt' = lostPkt
    BY <1>4, <1>5
  <2>2. rx' \in 0 .. MaxRx /\ lostEvt' \in 0 .. rx' /\ lostPkt' \in 0 .. rx'
    BY <2>1, <1>1, <1>2, <1>3
  <2>. QED  BY <2>2, <1>1, <1>2, <1>4, <1>5 DEF RecvType
<1>7. PacketsMatchEvents'
  <2>1. /\ Count(EvtQMain, "radioCmd") \in Nat /\ Count(evt, "radioCmd") \in Nat
        /\ Zeroes \in Nat /\ Zeroes' = Zeroes
        /\ Len(received_packets) \in Nat /\ Len(pkt) \in Nat
    BY <1>1, <1>2, <1>4, <1>5, CountSet DEF Zeroes
  <2>2. Count(EvtQMain, "radioCmd") + (IF main = "radioCmd" THEN 1 ELSE 0) + lostEvt + Zeroes
          = Len(received_packets) + lostPkt
    BY DEF RecvInv, PacketsMatchEvents, PendingEvents
  <2>3. Count(evt, "radioCmd") + (IF main = "radioCmd" THEN 1 ELSE 0) + lostEvt' + Zeroes
          = Len(pkt) + lostPkt'
    <3>. DEFINE begun == IF main = "radioCmd" THEN 1 ELSE 0
    <3>1. begun \in Nat
      OBVIOUS
    <3>2. Count(EvtQMain, "radioCmd") + begun + lostEvt + Zeroes = Len(received_packets) + lostPkt
      BY <2>2
    <3>. HIDE DEF begun
    <3>3. \/ Count(evt, "radioCmd") = Count(EvtQMain, "radioCmd") /\ lostEvt' = lostEvt + 1
          \/ Count(evt, "radioCmd") = Count(EvtQMain, "radioCmd") + 1 /\ lostEvt' = lostEvt
      BY <1>4
    <3>4. \/ Len(pkt) = Len(received_packets) /\ lostPkt' = lostPkt + 1
          \/ Len(pkt) = Len(received_packets) + 1 /\ lostPkt' = lostPkt
      BY <1>5
    <3>5. Count(evt, "radioCmd") + begun + lostEvt' + Zeroes = Len(pkt) + lostPkt'
      <4>. DEFINE e  == Count(EvtQMain, "radioCmd")
                  e1 == Count(evt, "radioCmd")
                  p  == Len(received_packets)
                  p1 == Len(pkt)
      <4>1. /\ e \in Nat /\ begun \in Nat /\ lostEvt \in Nat /\ Zeroes \in Nat /\ p \in Nat /\ lostPkt \in Nat
            /\ e + begun + lostEvt + Zeroes = p + lostPkt
            /\ (e1 = e /\ lostEvt' = lostEvt + 1) \/ (e1 = e + 1 /\ lostEvt' = lostEvt)
            /\ (p1 = p /\ lostPkt' = lostPkt + 1) \/ (p1 = p + 1 /\ lostPkt' = lostPkt)
        BY <3>1, <3>2, <3>3, <3>4, <1>3, <2>1
      <4>. HIDE DEF e, e1, p, p1
      <4>2. e1 + begun + lostEvt' + Zeroes = p1 + lostPkt'
        BY <4>1
      <4>. QED  BY <4>2 DEF e1, p1
    <3>. QED  BY <3>5 DEF begun
  <2>. QED  BY <2>1, <2>3, <1>1 DEF PacketsMatchEvents, PendingEvents
<1>8. InOrder'
  <2>1. /\ \A n \in 1 .. Len(received_packets) : received_packets[n] \in Nat
        /\ \A n \in 1 .. Len(handed) : handed[n] \in Nat
        /\ Len(received_packets) \in Nat /\ Len(handed) \in Nat
    BY <1>2
  <2>2. InOrder
    BY DEF RecvInv
  <2>3. CASE pkt = received_packets
    BY <2>3, <1>1, <1>3, <2>1, <2>2 DEF InOrder
  <2>4. CASE pkt = Append(received_packets, rx + 1)
    <3>2. /\ Len(pkt) = Len(received_packets) + 1
          /\ \A n \in 1 .. Len(received_packets) : pkt[n] = received_packets[n]
          /\ pkt[Len(received_packets) + 1] = rx + 1
      BY <2>4, <1>2, <1>3, AppendElements
    <3>3. \A n \in 1 .. Len(pkt) : n = Len(received_packets) + 1 \/ n \in 1 .. Len(received_packets)
      BY <3>2, <2>1
    <3>4. \A n \in 1 .. Len(pkt) : pkt[n] <= rx + 1
      BY <3>2, <3>3, <2>1, <2>2, <1>3 DEF InOrder
    <3>5. \A n, p \in 1 .. Len(pkt) : n < p => pkt[n] < pkt[p]
      BY <3>2, <3>3, <2>1, <2>2, <1>3 DEF InOrder
    <3>6. \A n \in 1 .. Len(handed), p \in 1 .. Len(pkt) : handed[n] < pkt[p]
      BY <3>2, <3>3, <2>1, <2>2, <1>3 DEF InOrder
    <3>7. \A n \in 1 .. Len(handed) : handed[n] <= rx + 1
      BY <2>1, <2>2, <1>3 DEF InOrder
    <3>. QED  BY <3>4, <3>5, <3>6, <3>7, <1>1, <2>2 DEF InOrder
  <2>. QED  BY <2>3, <2>4, <1>5
<1>. QED  BY <1>6, <1>7, <1>8 DEF RecvInv

LEMMA RecvMainFetch ==
  ASSUME RecvInv, MainFetch
  PROVE  RecvInv'
<1>1. /\ EvtQMain # <<>> /\ EvtQMain' = Tail(EvtQMain) /\ main = "loop"
      /\ main' = (IF Head(EvtQMain) = "radioCmd" THEN "radioCmd" ELSE "handler")
      /\ received_packets' = received_packets /\ rx' = rx /\ lostEvt' = lostEvt
      /\ lostPkt' = lostPkt /\ handed' = handed
  BY DEF MainFetch
<1>2. RecvType /\ PacketsMatchEvents /\ InOrder
  BY DEF RecvInv
<1>3. /\ Tail(EvtQMain) \in Seq({"radioCmd", "other"}) /\ Len(Tail(EvtQMain)) <= EvtQLen
  BY <1>1, <1>2, TailElements, RadioAssumption DEF RecvType
<1>4. RecvType'
  BY <1>1, <1>2, <1>3 DEF RecvType
<1>5. PacketsMatchEvents'
  <2>. DEFINE e  == Count(EvtQMain, "radioCmd")
              e1 == Count(Tail(EvtQMain), "radioCmd")
              b  == IF Head(EvtQMain) = "radioCmd" THEN 1 ELSE 0
              p  == Len(received_packets)
  <2>1. EvtQMain \in Seq({"radioCmd", "other"})
    BY <1>2 DEF RecvType
  <2>2. e = e1 + b
    BY <2>1, <1>1, CountTail
  <2>3. e \in Nat /\ e1 \in Nat /\ b \in Nat
    BY <2>1, <1>3, CountSet
  <2>4. Zeroes' = Zeroes /\ Zeroes \in Nat /\ lostEvt \in Nat /\ lostPkt \in Nat /\ p \in Nat
    <3>1. Zeroes' = Zeroes
      BY <1>1 DEF Zeroes
    <3>2. handed \in Seq(0 .. MaxRx) /\ received_packets \in Seq(1 .. MaxRx) /\ p \in Nat
      BY <1>2 DEF RecvType
    <3>3. Count(handed, 0) \in Nat
      BY <3>2, CountSet
    <3>. QED  BY <3>1, <3>2, <3>3, <1>2 DEF RecvType, Zeroes
  <2>5. e + lostEvt + Zeroes = p + lostPkt
    <3>1. e + 0 + lostEvt + Zeroes = p + lostPkt
      BY <1>1, <1>2 DEF PacketsMatchEvents, PendingEvents
    <3>. HIDE DEF e, p
    <3>. QED  BY <3>1, <2>3, <2>4
  <2>6. PendingEvents' = e1 + b
    BY <1>1 DEF PendingEvents
  <2>7. e1 + b + lostEvt + Zeroes = p + lostPkt
    <3>. HIDE DEF e, e1, b, p
    <3>. QED  BY <2>2, <2>3, <2>4, <2>5
  <2>. HIDE DEF e, e1, b
  <2>. QED  BY <1>1, <2>4, <2>6, <2>7 DEF PacketsMatchEvents
<1>6. InOrder'
  BY <1>1, <1>2 DEF InOrder
<1>. QED  BY <1>4, <1>5, <1>6 DEF RecvInv

LEMMA RecvFetchReceived ==
  ASSUME RecvInv, FetchReceived
  PROVE  RecvInv'
<1>. DEFINE packet == IF received_packets # <<>> THEN Head(received_packets) ELSE 0
            left   == IF received_packets # <<>> THEN Tail(received_packets) ELSE <<>>
<1>1. /\ handed' = Append(handed, packet) /\ received_packets' = left
      /\ main = "radioCmd" /\ main' = "handler"
      /\ EvtQMain' = EvtQMain /\ rx' = rx /\ lostEvt' = lostEvt /\ lostPkt' = lostPkt
  BY DEF FetchReceived
<1>2. RecvType /\ PacketsMatchEvents /\ InOrder
  BY DEF RecvInv
<1>3. /\ received_packets \in Seq(1 .. MaxRx) /\ handed \in Seq(0 .. MaxRx)
      /\ Len(received_packets) \in Nat /\ Len(handed) \in Nat /\ MaxRx \in Nat
      /\ Len(received_packets) <= RMsgQLen /\ RMsgQLen \in Nat
      /\ rx \in Nat /\ lostEvt \in Nat /\ lostPkt \in Nat
  BY <1>2, RadioAssumption DEF RecvType
<1>4. /\ packet \in 0 .. MaxRx
      /\ left \in Seq(1 .. MaxRx) /\ Len(left) <= RMsgQLen
      /\ packet > 0 => Len(received_packets) > 0 /\ packet = received_packets[1]
      /\ Len(received_packets) + (IF packet = 0 THEN 1 ELSE 0) = Len(left) + 1
      /\ \A n \in 1 .. Len(left) : n + 1 \in 1 .. Len(received_packets) /\ left[n] = received_packets[n + 1]
      /\ Len(left) > 0 => Len(received_packets) > 0
  <2>1. CASE received_packets # <<>>
    BY <2>1, <1>3, TailElements
  <2>2. CASE received_packets = <<>>
    BY <2>2, <1>3
  <2>. QED  BY <2>1, <2>2
<1>. HIDE DEF packet, left
<1>5. /\ Append(handed, packet) \in Seq(0 .. MaxRx) /\ Len(Append(handed, packet)) = Len(handed) + 1
      /\ \A n \in 1 .. Len(handed) : Append(handed, packet)[n] = handed[n]
      /\ Append(handed, packet)[Len(handed) + 1] = packet
  BY <1>3, <1>4, AppendElements
<1>6. RecvType'
  BY <1>1, <1>2, <1>4, <1>5 DEF RecvType
<1>7. PacketsMatchEvents'
  <2>. DEFINE e  == Count(EvtQMain, "radioCmd")
              z  == IF packet = 0 THEN 1 ELSE 0
              p  == Len(received_packets)
              p1 == Len(left)
  <2>1. Zeroes' = Zeroes + z
    <3>1. Count(Append(handed, packet), 0) = Count(handed, 0) + z
      BY <1>3, <1>4, CountAppend
    <3>. QED  BY <3>1, <1>1 DEF Zeroes
  <2>2. e \in Nat /\ Zeroes \in Nat /\ z \in Nat /\ p \in Nat /\ p1 \in Nat
    BY <1>2, <1>3, <1>4, CountSet DEF Zeroes, RecvType
  <2>3. e + 1 + lostEvt + Zeroes = p + lostPkt
    BY <1>1, <1>2 DEF PacketsMatchEvents, PendingEvents
  <2>4. p + z = p1 + 1
    BY <1>4
  <2>5. PendingEvents' = e + 0
    BY <1>1 DEF PendingEvents
  <2>6. Len(received_packets') = p1
    BY <1>1
  <2>. HIDE DEF e, z, p, p1
  <2>7. e + 0 + lostEvt + (Zeroes + z) = p1 + lostPkt
    BY <2>2, <2>3, <2>4, <1>3
  <2>. QED  BY <1>1, <2>1, <2>5, <2>6, <2>7 DEF PacketsMatchEvents
<1>8. InOrder'
  <2>. DEFINE h == Append(handed, packet)
  <2>1. /\ \A n \in 1 .. Len(received_packets) : received_packets[n] \in Nat
        /\ \A n \in 1 .. Len(handed) : handed[n] \in Nat
        /\ packet \in Nat
    <3>1. /\ \A n \in 1 .. Len(received_packets) : received_packets[n] \in 1 .. MaxRx
          /\ \A n \in 1 .. Len(handed) : handed[n] \in 0 .. MaxRx
      BY <1>3, ElementsIn
    <3>2. \A x \in 1 .. MaxRx : x \in Nat
      BY <1>3
    <3>3. \A x \in 0 .. MaxRx : x \in Nat
      BY <1>3
    <3>. QED  BY <3>1, <3>2, <3>3, <1>4
  <2>2. \A n \in 1 .. Len(h) : n = Len(handed) + 1 \/ n \in 1 .. Len(handed)
    BY <1>3, <1>5
  <2>. HIDE DEF h
  <2>3. \A n \in 1 .. Len(left) : left[n] <= rx
    BY <1>2, <1>4 DEF InOrder
  <2>4. \A n, p \in 1 .. Len(left) : n < p => left[n] < left[p]
    <3>1. SUFFICES ASSUME NEW n \in 1 .. Len(left), NEW p \in 1 .. Len(left), n < p
                   PROVE  left[n] < left[p]
      OBVIOUS
    <3>2. n + 1 < p + 1 /\ n + 1 \in 1 .. Len(received_packets) /\ p + 1 \in 1 .. Len(received_packets)
      BY <3>1, <1>4
    <3>. QED  BY <3>2, <1>2, <1>4 DEF InOrder
  <2>5. \A n \in 1 .. Len(h) : h[n] <= rx
    <3>1. packet <= rx
      BY <1>2, <1>3, <1>4 DEF InOrder
    <3>. QED  BY <3>1, <2>2, <1>2, <1>5 DEF InOrder, h
  <2>6. \A n \in 1 .. Len(h), p \in 1 .. Len(left) : h[n] < left[p]
    <3>1. SUFFICES ASSUME NEW n \in 1 .. Len(h), NEW p \in 1 .. Len(left) PROVE h[n] < left[p]
      OBVIOUS
    <3>2. p + 1 \in 1 .. Len(received_packets) /\ left[p] = received_packets[p + 1]
      BY <1>4
    <3>3. CASE n \in 1 .. Len(handed)
      BY <3>2, <3>3, <1>2, <1>5 DEF InOrder, h
    <3>4. CASE n = Len(handed) + 1
      <4>1. h[n] = packet
        BY <3>4, <1>5 DEF h
      <4>2. CASE packet = 0
        <5>1. left[p] \in 1 .. MaxRx
          BY <1>4, ElementsIn
        <5>. QED  BY <5>1, <4>1, <4>2
      <4>3. CASE packet > 0
        <5>1. 1 \in 1 .. Len(received_packets) /\ 1 < p + 1 /\ packet = received_packets[1]
          BY <4>3, <1>3, <1>4
        <5>. QED  BY <5>1, <4>1, <3>2, <1>2 DEF InOrder
      <4>. QED  BY <4>2, <4>3, <2>1
    <3>. QED  BY <3>3, <3>4, <2>2
  <2>7. \A n, p \in 1 .. Len(h) : n < p /\ h[n] > 0 /\ h[p] > 0 => h[n] < h[p]
    <3>1. SUFFICES ASSUME NEW n \in 1 .. Len(h), NEW p \in 1 .. Len(h), n < p, h[n] > 0, h[p] > 0
                   PROVE  h[n] < h[p]
      OBVIOUS
    <3>2. n \in 1 .. Len(handed) /\ h[n] = handed[n]
      BY <3>1, <2>2, <1>3, <1>5 DEF h
    <3>3. CASE p \in 1 .. Len(handed)
      BY <3>1, <3>2, <3>3, <1>2, <1>5 DEF InOrder, h
    <3>4. CASE p = Len(handed) + 1
      <4>1. h[p] = packet /\ 1 \in 1 .. Len(received_packets) /\ packet = received_packets[1]
        BY <3>1, <3>4, <1>3, <1>4, <1>5 DEF h
      <4>. QED  BY <4>1, <3>2, <1>2 DEF InOrder
    <3>. QED  BY <3>3, <3>4, <2>2
  <2>. QED  BY <2>3, <2>4, <2>5, <2>6, <2>7, <1>1 DEF InOrder, h
<1>. QED  BY <1>6, <1>7, <1>8 DEF RecvInv

LEMMA RecvOtherEvent ==
  ASSUME RecvInv, OtherEvent
  PROVE  RecvInv'
<1>1. /\ EvtQMain' = Append(EvtQMain, "other") /\ ~Full(EvtQMain, EvtQLen)
      /\ received_packets' = received_packets /\ main' = main
      /\ rx' = rx /\ lostEvt' = lostEvt /\ lostPkt' = lostPkt /\ handed' = handed
  BY DEF OtherEvent
<1>2. RecvType /\ PacketsMatchEvents /\ InOrder
  BY DEF RecvInv
<1>3. EvtQMain \in Seq({"radioCmd", "other"}) /\ "other" \in {"radioCmd", "other"} /\ EvtQLen \in Nat
  BY <1>2, RadioAssumption DEF RecvType
<1>4. /\ EvtQMain' \in Seq({"radioCmd", "other"})
      /\ Len(EvtQMain') = Len(EvtQMain) + 1 /\ Len(EvtQMain) \in Nat
  BY <1>1, <1>3, AppendElements
<1>5. Len(EvtQMain') <= EvtQLen
  BY <1>1, <1>3, <1>4 DEF Full
<1>6. Count(EvtQMain', "radioCmd") = Count(EvtQMain, "radioCmd")
  <2>1. Count(Append(EvtQMain, "other"), "radioCmd") = Count(EvtQMain, "radioCmd") + 0
    BY <1>3, CountAppend
  <2>2. Count(EvtQMain, "radioCmd") \in Nat
    BY <1>3, CountSet
  <2>. QED  BY <1>1, <2>1, <2>2
<1>7. RecvType'
  BY <1>1, <1>2, <1>4, <1>5 DEF RecvType
<1>8. PacketsMatchEvents'
  BY <1>1, <1>2, <1>6 DEF PacketsMatchEvents, PendingEvents, Zeroes
<1>9. InOrder'
  BY <1>1, <1>2 DEF InOrder
<1>. QED  BY <1>7, <1>8, <1>9 DEF RecvInv

(* All other steps leave this side alone.                                  *)
LEMMA RecvUnchanged ==
  ASSUME RecvInv, UNCHANGED <<toMain, handed>>, main' = "radioCmd" <=> main = "radioCmd"
  PROVE  RecvInv'
<1>1. /\ EvtQMain' = EvtQMain /\ received_packets' = received_packets /\ handed' = handed
      /\ rx' = rx /\ lostEvt' = lostEvt /\ lostPkt' = lostPkt
  BY DEF toMain
<1>2. RecvType /\ PacketsMatchEvents /\ InOrder
  BY DEF RecvInv
<1>3. PendingEvents' = PendingEvents
  BY <1>1 DEF PendingEvents
<1>4. RecvType' /\ InOrder'
  BY <1>1, <1>2 DEF RecvType, InOrder
<1>. QED  BY <1>1, <1>2, <1>3, <1>4 DEF RecvInv, PacketsMatchEvents, Zeroes

LEMMA RecvStep ==
  ASSUME RecvInv, [Next]_vars
  PROVE  RecvInv'
<1>1. CASE RxFail \/ BurstSent \/ BeaconSent
  BY <1>1, RecvUnchanged DEF RxFail, BurstSent, BeaconSent, RadioFrame
<1>2. CASE HandlerReturn \/ CopyWord \/ TransmitEnd \/ SetBeaconEnd \/ ClearBeaconPacket
  BY <1>2, RecvUnchanged DEF HandlerReturn, CopyWord, TransmitEnd, SetBeaconEnd, ClearBeaconPacket
<1>3. CASE \E call \in {"Transmit", "SetBeaconPacket"} : CallWithPacket(call)
  BY <1>3, RecvUnchanged DEF CallWithPacket
<1>4. CASE \E level \in PowerLevels : SetPowerLevel(level)
  BY <1>4, RecvUnchanged DEF SetPowerLevel
<1>5. CASE UNCHANGED vars
  BY <1>5, RecvUnchanged DEF vars, toMain
<1>. QED  BY <1>1, <1>2, <1>3, <1>4, <1>5, RecvRxOk, RecvMainFetch, RecvFetchReceived, RecvOtherEvent
          DEF Next, RadioStep, MainStep

LEMMA RecvInvariance == Spec => []RecvInv
BY RecvInit, RecvStep, PTL DEF Spec

-----------------------------------------------------------------------------
(* The sending side.                                                       *)

CommandType == RMsgQ \in Seq(Commands) /\ Len(RMsgQ) <= RMsgQLen
PacketType ==
  /\ packet_to_send_once \in Packet /\ packet_beacon \in Packet
  /\ PktTxOnce \in BOOLEAN /\ PktTxBeacon \in BOOLEAN
  /\ copied \in 0 .. Words /\ calls \in 0 .. MaxCalls /\ accepted \in SUBSET (1 .. calls)
  /\ main \in {"loop", "radioCmd", "handler", "Transmit", "SetBeaconPacket"}
ChipType ==
  /\ radio \in {"off", "rx", "once", "beacon"} /\ onAir \in Packet
  /\ sent \in 0 .. Bursts /\ (radio = "once" <=> sent > 0)
  /\ power \in PowerLevels /\ asked \in PowerLevels

(* The last power command that waits has the level asked for; when none    *)
(* waits the chip has it.                                                  *)
IsPower(n) == RMsgQ[n].Cmd = "R_MSG_SET_PWR"
LevelsMatch ==
  /\ \A n \in 1 .. Len(RMsgQ) :
       IsPower(n) /\ (\A p \in 1 .. Len(RMsgQ) : n < p => ~IsPower(p)) => RMsgQ[n].Value = asked
  /\ radio # "off" /\ (\A n \in 1 .. Len(RMsgQ) : ~IsPower(n)) => power = asked

(* No word of the packet to send is older than an accepted one; a copy has *)
(* replaced the words it has reached, and a finished one all of them.      *)
WordsMatch ==
  /\ \A w \in 1 .. Words, n \in accepted : packet_to_send_once[w] >= n
  /\ main = "Transmit" => \A w \in 1 .. copied : packet_to_send_once[w] = calls
  /\ main = "SetBeaconPacket" => \A w \in 1 .. copied : packet_beacon[w] = calls
  /\ main # "Transmit" => \E n \in 0 .. MaxCalls : packet_to_send_once = Whole(n)
  /\ main # "SetBeaconPacket" => \E n \in 0 .. MaxCalls : packet_beacon = Whole(n)
  /\ main = "Transmit" => calls > 0

SendInv == CommandType /\ PacketType /\ ChipType /\ NeverTransmitsNull /\ LevelsMatch /\ WordsMatch

LEMMA CommandParts ==
  /\ \A c \in Commands : c.Cmd \in {"R_MSG_TRANSMIT", "R_MSG_SET_PWR"}
  /\ \A c \in Commands : c.Cmd = "R_MSG_SET_PWR" => c.Value \in PowerLevels
  /\ [Cmd |-> "R_MSG_TRANSMIT"] \in Commands
  /\ \A level \in PowerLevels : [Cmd |-> "R_MSG_SET_PWR", Value |-> level] \in Commands
BY DEF Commands

LEMMA SendInit == Init => SendInv
<1>1. SUFFICES ASSUME Init PROVE SendInv
  OBVIOUS
<1>2. <<>> \in Seq(Commands) /\ Len(<<>>) = 0 /\ Zero \in Packet /\ Zero = Whole(0) /\ 0 \in 0 .. MaxCalls
  BY RadioAssumption DEF Zero, Packet, Whole
<1>3. CommandType /\ ~Pending("R_MSG_TRANSMIT")
  BY <1>1, <1>2, RadioAssumption DEF Init, CommandType, Pending
<1>4. PacketType
  <2>1. /\ packet_to_send_once \in Packet /\ packet_beacon \in Packet
        /\ PktTxOnce = FALSE /\ PktTxBeacon = FALSE /\ main = "handler"
    BY <1>1, <1>2 DEF Init
  <2>2. copied \in 0 .. Words /\ calls \in 0 .. MaxCalls /\ accepted \in SUBSET (1 .. calls)
    BY <1>1, RadioAssumption DEF Init
  <2>. QED  BY <2>1, <2>2 DEF PacketType
<1>5. ChipType
  BY <1>1, <1>2, RadioAssumption DEF Init, ChipType
<1>6. LevelsMatch
  BY <1>1, <1>2 DEF Init, LevelsMatch
<1>7. WordsMatch
  BY <1>1, <1>2 DEF Init, WordsMatch
<1>8. NeverTransmitsNull
  BY <1>1, <1>3 DEF Init, NeverTransmitsNull
<1>. QED  BY <1>3, <1>4, <1>5, <1>6, <1>7, <1>8 DEF SendInv

(* The radio thread takes a command: what the rest of the queue says of    *)
(* the level stays true if the chip obeys.                                 *)
LEMMA TakeCommand ==
  ASSUME SendInv, RMsgQ # <<>>, RMsgQ' = Tail(RMsgQ), asked' = asked, radio # "off",
         Head(RMsgQ).Cmd = "R_MSG_SET_PWR" => power' = Head(RMsgQ).Value,
         Head(RMsgQ).Cmd # "R_MSG_SET_PWR" => power' = power
  PROVE  CommandType' /\ LevelsMatch' /\ power' \in PowerLevels
<1>1. /\ RMsgQ \in Seq(Commands) /\ Len(RMsgQ) \in Nat /\ Len(RMsgQ) <= RMsgQLen /\ RMsgQLen \in Nat
      /\ LevelsMatch /\ power \in PowerLevels
  BY RadioAssumption DEF SendInv, CommandType, ChipType
<1>2. /\ RMsgQ' \in Seq(Commands) /\ Len(RMsgQ') = Len(RMsgQ) - 1 /\ Len(RMsgQ) > 0
      /\ \A n \in 1 .. Len(RMsgQ') : RMsgQ'[n] = RMsgQ[n + 1] /\ n + 1 \in 1 .. Len(RMsgQ)
      /\ Head(RMsgQ) = RMsgQ[1] /\ RMsgQ[1] \in Commands /\ 1 \in 1 .. Len(RMsgQ)
  BY <1>1, TailElements
<1>3. CommandType'
  BY <1>1, <1>2 DEF CommandType
<1>4. power' \in PowerLevels
  BY <1>1, <1>2, CommandParts
<1>5. ASSUME NEW n \in 1 .. Len(RMsgQ'), IsPower(n)',
             \A p \in 1 .. Len(RMsgQ') : n < p => ~IsPower(p)'
      PROVE  RMsgQ'[n].Value = asked'
  <2>1. IsPower(n + 1) /\ n + 1 \in 1 .. Len(RMsgQ)
    BY <1>2, <1>5 DEF IsPower
  <2>2. ASSUME NEW p \in 1 .. Len(RMsgQ), n + 1 < p PROVE ~IsPower(p)
    <3>1. p - 1 \in 1 .. Len(RMsgQ') /\ n < p - 1 /\ RMsgQ'[p - 1] = RMsgQ[p]
      BY <1>1, <1>2, <2>2
    <3>. QED  BY <3>1, <1>5 DEF IsPower
  <2>. QED  BY <2>1, <2>2, <1>1, <1>2 DEF LevelsMatch
<1>6. ASSUME \A n \in 1 .. Len(RMsgQ') : ~IsPower(n)'
      PROVE  power' = asked'
  <2>1. ASSUME NEW p \in 1 .. Len(RMsgQ), 1 < p PROVE ~IsPower(p)
    <3>1. p - 1 \in 1 .. Len(RMsgQ') /\ RMsgQ'[p - 1] = RMsgQ[p]
      BY <1>1, <1>2, <2>1
    <3>. QED  BY <3>1, <1>6 DEF IsPower
  <2>2. CASE IsPower(1)
    BY <2>1, <2>2, <1>1, <1>2 DEF LevelsMatch, IsPower
  <2>3. CASE ~IsPower(1)
    <3>1. \A p \in 1 .. Len(RMsgQ) : ~IsPower(p)
      BY <2>1, <2>3
    <3>. QED  BY <3>1, <2>3, <1>1, <1>2 DEF LevelsMatch, IsPower
  <2>. QED  BY <2>2, <2>3
<1>7. LevelsMatch'
  BY <1>5, <1>6 DEF LevelsMatch
<1>. QED  BY <1>3, <1>4, <1>7

(* A caller queues a command.                                              *)
LEMMA QueueCommand ==
  ASSUME SendInv, NEW c \in Commands, RMsgQ' = SendNowOrExit(RMsgQ, RMsgQLen, c),
         radio' = radio, power' = power,
         asked' = IF c.Cmd = "R_MSG_SET_PWR" /\ ~Full(RMsgQ, RMsgQLen) THEN c.Value ELSE asked
  PROVE  CommandType' /\ LevelsMatch' /\ asked' \in PowerLevels
<1>1. /\ RMsgQ \in Seq(Commands) /\ Len(RMsgQ) \in Nat /\ Len(RMsgQ) <= RMsgQLen /\ RMsgQLen \in Nat
      /\ LevelsMatch /\ asked \in PowerLevels
  BY RadioAssumption DEF SendInv, CommandType, ChipType
<1>2. CASE Full(RMsgQ, RMsgQLen)
  <2>1. RMsgQ' = RMsgQ /\ asked' = asked
    BY <1>2 DEF SendNowOrExit
  <2>. QED  BY <2>1, <1>1 DEF CommandType, LevelsMatch, IsPower
<1>3. CASE ~Full(RMsgQ, RMsgQLen)
  <2>1. /\ RMsgQ' \in Seq(Commands) /\ Len(RMsgQ') = Len(RMsgQ) + 1
        /\ \A n \in 1 .. Len(RMsgQ) : RMsgQ'[n] = RMsgQ[n]
        /\ RMsgQ'[Len(RMsgQ) + 1] = c
    BY <1>1, <1>3, AppendElements DEF SendNowOrExit
  <2>2. Len(RMsgQ) < RMsgQLen
    BY <1>1, <1>3 DEF Full
  <2>3. CommandType'
    BY <1>1, <2>1, <2>2 DEF CommandType
  <2>4. asked' \in PowerLevels
    BY <1>1, CommandParts
  <2>5. \A n \in 1 .. Len(RMsgQ) : IsPower(n)' <=> IsPower(n)
    BY <2>1 DEF IsPower
  <2>6. /\ Len(RMsgQ) + 1 \in 1 .. Len(RMsgQ')
        /\ \A n \in 1 .. Len(RMsgQ') : n = Len(RMsgQ) + 1 => (IsPower(n)' <=> c.Cmd = "R_MSG_SET_PWR")
    BY <1>1, <2>1 DEF IsPower
  <2>7. \A n \in 1 .. Len(RMsgQ') : n \in 1 .. Len(RMsgQ) \/ n = Len(RMsgQ) + 1
    BY <1>1, <2>1
  <2>8. \A n \in 1 .. Len(RMsgQ) : n \in 1 .. Len(RMsgQ') /\ n < Len(RMsgQ) + 1
    BY <1>1, <2>1
  <2>9. LevelsMatch'
    <3>1. CASE c.Cmd = "R_MSG_SET_PWR"
      <4>1. asked' = c.Value
        BY <3>1, <1>3
      <4>2. ASSUME NEW n \in 1 .. Len(RMsgQ'), IsPower(n)',
                   \A p \in 1 .. Len(RMsgQ') : n < p => ~IsPower(p)'
            PROVE  RMsgQ'[n].Value = asked'
        <5>1. n = Len(RMsgQ) + 1
          BY <4>2, <3>1, <2>6, <2>7, <2>8
        <5>. QED  BY <5>1, <4>1, <2>1
      <4>3. ~ \A n \in 1 .. Len(RMsgQ') : ~IsPower(n)'
        BY <3>1, <2>6
      <4>. QED  BY <4>2, <4>3 DEF LevelsMatch
    <3>2. CASE c.Cmd # "R_MSG_SET_PWR"
      <4>1. asked' = asked
        BY <3>2
      <4>2. ASSUME NEW n \in 1 .. Len(RMsgQ'), IsPower(n)',
                   \A p \in 1 .. Len(RMsgQ') : n < p => ~IsPower(p)'
            PROVE  RMsgQ'[n].Value = asked'
        <5>1. n \in 1 .. Len(RMsgQ) /\ IsPower(n) /\ RMsgQ'[n] = RMsgQ[n]
          BY <4>2, <3>2, <2>1, <2>5, <2>6, <2>7
        <5>2. \A p \in 1 .. Len(RMsgQ) : n < p => ~IsPower(p)
          BY <4>2, <2>5, <2>8
        <5>. QED  BY <5>1, <5>2, <4>1, <1>1 DEF LevelsMatch
      <4>3. ASSUME radio' # "off", \A n \in 1 .. Len(RMsgQ') : ~IsPower(n)'
            PROVE  power' = asked'
        <5>1. \A n \in 1 .. Len(RMsgQ) : ~IsPower(n)
          BY <4>3, <2>5, <2>8
        <5>. QED  BY <5>1, <4>1, <4>3, <1>1 DEF LevelsMatch
      <4>. QED  BY <4>2, <4>3 DEF LevelsMatch
    <3>. QED  BY <3>1, <3>2
  <2>. QED  BY <2>3, <2>4, <2>9
<1>. QED  BY <1>2, <1>3

(* What the behaviour's side of the invariant needs is left alone by the   *)
(* radio thread.                                                           *)
LEMMA RadioLeavesWords ==
  ASSUME SendInv, RadioFrame, onAir' \in Packet
  PROVE  PacketType' /\ WordsMatch' /\ onAir' \in Packet
<1>1. /\ packet_to_send_once' = packet_to_send_once /\ packet_beacon' = packet_beacon
      /\ copied' = copied /\ calls' = calls /\ PktTxOnce' = PktTxOnce /\ PktTxBeacon' = PktTxBeacon
      /\ main' = main /\ accepted' = accepted
  BY DEF RadioFrame, packets
<1>2. PacketType /\ WordsMatch
  BY DEF SendInv
<1>3. PacketType'
  BY <1>1, <1>2 DEF PacketType
<1>4. WordsMatch'
  BY <1>1, <1>2 DEF WordsMatch
<1>. QED  BY <1>3, <1>4

LEMMA SendLoopTop ==
  ASSUME SendInv, LoopTop, RadioFrame, radio = "rx"
  PROVE  SendInv'
<1>1. /\ CommandType /\ PacketType /\ ChipType /\ NeverTransmitsNull /\ LevelsMatch
      /\ RMsgQ \in Seq(Commands) /\ Bursts \in Nat \ {0}
      /\ packet_to_send_once \in Packet /\ packet_beacon \in Packet
  BY RadioAssumption DEF SendInv, CommandType, PacketType
<1>2. PktTxOnce' = PktTxOnce /\ asked' = asked
  BY DEF RadioFrame
<1>3. Zero \in Packet
  BY RadioAssumption DEF Zero, Packet
<1>4. BeaconOrRx => sent' = 0 /\ radio' \in {"beacon", "rx"} /\ onAir' \in Packet
  BY <1>1, <1>3 DEF BeaconOrRx, Transmit
<1>5. CASE StartBursts
  <2>1. /\ RMsgQ # <<>> /\ Head(RMsgQ).Cmd = "R_MSG_TRANSMIT" /\ RMsgQ' = Tail(RMsgQ)
        /\ radio' = "once" /\ onAir' = packet_to_send_once /\ sent' = 1 /\ power' = power
    BY <1>5 DEF StartBursts, Command, Transmit
  <2>2. CommandType' /\ LevelsMatch' /\ power' \in PowerLevels
    BY <1>2, <2>1, TakeCommand
  <2>3. 1 \in DOMAIN RMsgQ /\ Head(RMsgQ) = RMsgQ[1]
    BY <1>1, <2>1, TailElements
  <2>4. Pending("R_MSG_TRANSMIT")
    BY <2>1, <2>3 DEF Pending
  <2>5. NeverTransmitsNull'
    BY <1>1, <1>2, <2>4 DEF NeverTransmitsNull
  <2>6. ChipType'
    BY <1>1, <1>2, <2>1, <2>2 DEF ChipType
  <2>7. PacketType' /\ WordsMatch'
    BY <1>1, <2>1, RadioLeavesWords
  <2>. QED  BY <2>2, <2>5, <2>6, <2>7 DEF SendInv
<1>6. CASE SetTxPower
  <2>1. /\ RMsgQ # <<>> /\ Head(RMsgQ).Cmd = "R_MSG_SET_PWR" /\ RMsgQ' = Tail(RMsgQ)
        /\ power' = Head(RMsgQ).Value /\ BeaconOrRx
    BY <1>6 DEF SetTxPower, Command
  <2>2. CommandType' /\ LevelsMatch' /\ power' \in PowerLevels
    BY <1>2, <2>1, TakeCommand
  <2>3. Pending("R_MSG_TRANSMIT")' => Pending("R_MSG_TRANSMIT")
    <3>1. SUFFICES ASSUME NEW n \in DOMAIN RMsgQ', RMsgQ'[n].Cmd = "R_MSG_TRANSMIT"
                   PROVE  \E p \in DOMAIN RMsgQ : RMsgQ[p].Cmd = "R_MSG_TRANSMIT"
      BY DEF Pending
    <3>2. /\ n \in 1 .. Len(RMsgQ) - 1 /\ RMsgQ'[n] = RMsgQ[n + 1] /\ DOMAIN RMsgQ = 1 .. Len(RMsgQ)
          /\ Len(RMsgQ) \in Nat
      BY <1>1, <2>1, TailElements
    <3>3. n + 1 \in DOMAIN RMsgQ
      BY <3>2
    <3>. QED  BY <3>1, <3>2, <3>3
  <2>4. NeverTransmitsNull'
    BY <1>1, <1>2, <1>4, <2>1, <2>3 DEF NeverTransmitsNull
  <2>5. ChipType'
    BY <1>1, <1>2, <1>4, <2>1, <2>2 DEF ChipType
  <2>6. PacketType' /\ WordsMatch'
    BY <1>4, <2>1, RadioLeavesWords
  <2>. QED  BY <2>2, <2>4, <2>5, <2>6 DEF SendInv
<1>7. CASE NoCommand
  <2>1. RMsgQ' = RMsgQ /\ power' = power /\ BeaconOrRx
    BY <1>7 DEF NoCommand
  <2>2. CommandType' /\ LevelsMatch'
    BY <1>1, <1>2, <1>4, <2>1 DEF CommandType, LevelsMatch, IsPower
  <2>3. NeverTransmitsNull'
    BY <1>1, <1>2, <1>4, <2>1 DEF NeverTransmitsNull, Pending
  <2>4. ChipType'
    BY <1>1, <1>2, <1>4, <2>1 DEF ChipType
  <2>5. PacketType' /\ WordsMatch'
    BY <1>4, <2>1, RadioLeavesWords
  <2>. QED  BY <2>2, <2>3, <2>4, <2>5 DEF SendInv
<1>. QED  BY <1>5, <1>6, <1>7 DEF LoopTop

(* The end of a transmission.                                              *)
LEMMA SendSent ==
  ASSUME SendInv, BurstSent \/ BeaconSent
  PROVE  SendInv'
<1>1. /\ CommandType /\ PacketType /\ ChipType /\ NeverTransmitsNull /\ LevelsMatch
      /\ Bursts \in Nat \ {0}
      /\ packet_to_send_once \in Packet /\ packet_beacon \in Packet
  BY RadioAssumption DEF SendInv, PacketType
<1>2. /\ RMsgQ' = RMsgQ /\ power' = power /\ RadioFrame
      /\ radio \in {"once", "beacon"}
  BY DEF BurstSent, BeaconSent
<1>3. PktTxOnce' = PktTxOnce /\ asked' = asked
  BY <1>2 DEF RadioFrame
<1>4. Zero \in Packet
  BY RadioAssumption DEF Zero, Packet
<1>5. \/ radio = "once" /\ radio' = "once" /\ sent' = sent + 1 /\ sent < Bursts /\ onAir' = packet_to_send_once
      \/ sent' = 0 /\ radio' \in {"beacon", "rx"} /\ onAir' \in Packet
  <2>1. CASE BurstSent
    BY <2>1, <1>1, <1>4 DEF BurstSent, BeaconOrRx, Transmit
  <2>2. CASE BeaconSent
    <3>1. radio = "beacon" /\ sent' = sent /\ radio' = "rx" /\ onAir' = Zero
      BY <2>2 DEF BeaconSent
    <3>2. sent = 0
      BY <1>1, <3>1 DEF ChipType
    <3>. QED  BY <3>1, <3>2, <1>4
  <2>. QED  BY <2>1, <2>2
<1>6. onAir' \in Packet
  BY <1>1, <1>5
<1>7. ChipType'
  <2>1. sent \in 0 .. Bursts
    BY <1>1 DEF ChipType
  <2>2. sent' \in 0 .. Bursts /\ (radio' = "once" <=> sent' > 0) /\ radio' \in {"off", "rx", "once", "beacon"}
    BY <2>1, <1>1, <1>5
  <2>. QED  BY <2>2, <1>1, <1>2, <1>3, <1>6 DEF ChipType
<1>8. CommandType' /\ LevelsMatch'
  BY <1>1, <1>2, <1>3, <1>5 DEF CommandType, LevelsMatch, IsPower
<1>9. NeverTransmitsNull'
  BY <1>1, <1>2, <1>3, <1>5 DEF NeverTransmitsNull, Pending
<1>10. PacketType' /\ WordsMatch'
  BY <1>2, <1>6, RadioLeavesWords
<1>. QED  BY <1>7, <1>8, <1>9, <1>10 DEF SendInv

(* The main loop comes and goes without touching a packet.                 *)
LEMMA SendUnchanged ==
  ASSUME SendInv,
         UNCHANGED <<RMsgQ, packets, PktTxOnce, chip, accepted, asked>>, PktTxBeacon' \in BOOLEAN,
         main' = main \/ {main, main'} \subseteq {"loop", "radioCmd", "handler"}
  PROVE  SendInv'
<1>1. /\ RMsgQ' = RMsgQ /\ packet_to_send_once' = packet_to_send_once /\ packet_beacon' = packet_beacon
      /\ copied' = copied /\ calls' = calls /\ PktTxOnce' = PktTxOnce
      /\ radio' = radio /\ sent' = sent /\ onAir' = onAir /\ power' = power
      /\ accepted' = accepted /\ asked' = asked
  BY DEF packets, chip
<1>2. CommandType' /\ ChipType'
  BY <1>1 DEF SendInv, CommandType, ChipType
<1>3. NeverTransmitsNull' /\ LevelsMatch'
  BY <1>1 DEF SendInv, NeverTransmitsNull, Pending, LevelsMatch, IsPower
<1>4. PacketType'
  BY <1>1 DEF SendInv, PacketType
<1>5. WordsMatch'
  BY <1>1 DEF SendInv, WordsMatch
<1>. QED  BY <1>2, <1>3, <1>4, <1>5 DEF SendInv

LEMMA SendCallWithPacket ==
  ASSUME SendInv, NEW call \in {"Transmit", "SetBeaconPacket"}, CallWithPacket(call)
  PROVE  SendInv'
<1>1. /\ main = "handler" /\ main' = call /\ calls' = calls + 1 /\ calls < MaxCalls /\ copied' = 0
      /\ RMsgQ' = RMsgQ /\ packet_to_send_once' = packet_to_send_once /\ packet_beacon' = packet_beacon
      /\ PktTxOnce' = PktTxOnce /\ PktTxBeacon' = PktTxBeacon
      /\ radio' = radio /\ sent' = sent /\ onAir' = onAir /\ power' = power
      /\ accepted' = accepted /\ asked' = asked
  BY DEF CallWithPacket, chip
<1>2. CommandType' /\ ChipType' /\ NeverTransmitsNull' /\ LevelsMatch'
  BY <1>1 DEF SendInv, CommandType, ChipType, NeverTransmitsNull, Pending, LevelsMatch, IsPower
<1>3. PacketType'
  <2>1. calls' \in 0 .. MaxCalls /\ accepted \in SUBSET (1 .. calls') /\ copied' \in 0 .. Words
    BY <1>1, RadioAssumption DEF SendInv, PacketType
  <2>. QED  BY <1>1, <2>1 DEF SendInv, PacketType
<1>4. WordsMatch'
  <2>1. 1 .. copied' = {} /\ calls' > 0 /\ main = "handler"
    BY <1>1, RadioAssumption DEF SendInv, PacketType
  <2>2. WordsMatch
    BY DEF SendInv
  <2>3. /\ \A w \in 1 .. Words, n \in accepted : packet_to_send_once[w] >= n
        /\ \E n \in 0 .. MaxCalls : packet_to_send_once = Whole(n)
        /\ \E n \in 0 .. MaxCalls : packet_beacon = Whole(n)
    BY <2>1, <2>2 DEF WordsMatch
  <2>4. \A w \in 1 .. copied' : packet_to_send_once'[w] = calls' /\ packet_beacon'[w] = calls'
    BY <2>1
  <2>. QED  BY <1>1, <2>1, <2>3, <2>4 DEF WordsMatch
<1>. QED  BY <1>2, <1>3, <1>4 DEF SendInv

LEMMA SendCopyWord ==
  ASSUME SendInv, CopyWord
  PROVE  SendInv'
<1>1. /\ copied < Words /\ copied' = copied + 1 /\ calls' = calls /\ main' = main
      /\ RMsgQ' = RMsgQ /\ PktTxOnce' = PktTxOnce /\ PktTxBeacon' = PktTxBeacon
      /\ radio' = radio /\ sent' = sent /\ onAir' = onAir /\ power' = power
      /\ accepted' = accepted /\ asked' = asked
      /\ \/ /\ main = "Transmit" /\ packet_beacon' = packet_beacon
            /\ packet_to_send_once' = [packet_to_send_once EXCEPT ![copied + 1] = calls]
         \/ /\ main = "SetBeaconPacket" /\ packet_to_send_once' = packet_to_send_once
            /\ packet_beacon' = [packet_beacon EXCEPT ![copied + 1] = calls]
  BY DEF CopyWord, chip
<1>2. /\ packet_to_send_once \in Packet /\ packet_beacon \in Packet /\ WordsMatch
      /\ copied \in 0 .. Words /\ calls \in 0 .. MaxCalls /\ accepted \in SUBSET (1 .. calls)
      /\ Words \in Nat /\ MaxCalls \in Nat /\ copied + 1 \in 1 .. Words
  BY <1>1, RadioAssumption DEF SendInv, PacketType
<1>3. CommandType' /\ ChipType' /\ NeverTransmitsNull' /\ LevelsMatch'
  BY <1>1 DEF SendInv, CommandType, ChipType, NeverTransmitsNull, Pending, LevelsMatch, IsPower
<1>4. packet_to_send_once' \in Packet /\ packet_beacon' \in Packet
  BY <1>1, <1>2 DEF Packet
<1>5. PacketType'
  <2>1. copied' \in 0 .. Words
    BY <1>1, <1>2
  <2>. QED  BY <2>1, <1>1, <1>4 DEF SendInv, PacketType
<1>6. WordsMatch'
  <2>1. \A w \in 1 .. copied + 1 : w \in 1 .. Words /\ (w \in 1 .. copied \/ w = copied + 1)
    BY <1>2
  <2>2. CASE main = "Transmit"
    <3>1. \A w \in 1 .. Words : packet_to_send_once'[w] =
                                  IF w = copied + 1 THEN calls ELSE packet_to_send_once[w]
      BY <1>1, <1>2, <2>2 DEF Packet
    <3>2. \A w \in 1 .. copied + 1 : packet_to_send_once'[w] = calls
      BY <3>1, <2>1, <2>2, <1>2 DEF WordsMatch
    <3>3. \A w \in 1 .. Words, n \in accepted : packet_to_send_once'[w] >= n
      <4>1. \A n \in accepted : calls >= n
        BY <1>2
      <4>. QED  BY <4>1, <3>1, <1>2 DEF WordsMatch
    <3>. QED  BY <3>2, <3>3, <2>2, <1>1, <1>2 DEF WordsMatch
  <2>3. CASE main = "SetBeaconPacket"
    <3>1. \A w \in 1 .. Words : packet_beacon'[w] = IF w = copied + 1 THEN calls ELSE packet_beacon[w]
      BY <1>1, <1>2, <2>3 DEF Packet
    <3>2. \A w \in 1 .. copied + 1 : packet_beacon'[w] = calls
      BY <3>1, <2>1, <2>3, <1>2 DEF WordsMatch
    <3>. QED  BY <3>2, <2>3, <1>1, <1>2 DEF WordsMatch
  <2>. QED  BY <2>2, <2>3, <1>1
<1>. QED  BY <1>3, <1>5, <1>6 DEF SendInv

(* When all words are copied the packet is whole.                          *)
LEMMA AllCopied ==
  ASSUME NEW p \in Packet, NEW n \in 0 .. MaxCalls, \A w \in 1 .. Words : p[w] = n
  PROVE  p = Whole(n)
BY DEF Packet, Whole

LEMMA SendTransmitEnd ==
  ASSUME SendInv, TransmitEnd
  PROVE  SendInv'
<1>. DEFINE command == [Cmd |-> "R_MSG_TRANSMIT"]
<1>1. /\ main = "Transmit" /\ copied = Words /\ main' = "handler" /\ PktTxOnce' = TRUE
      /\ RMsgQ' = SendNowOrExit(RMsgQ, RMsgQLen, command)
      /\ accepted' = (IF Full(RMsgQ, RMsgQLen) THEN accepted ELSE accepted \cup {calls})
      /\ packet_to_send_once' = packet_to_send_once /\ packet_beacon' = packet_beacon
      /\ copied' = copied /\ calls' = calls /\ PktTxBeacon' = PktTxBeacon
      /\ radio' = radio /\ sent' = sent /\ onAir' = onAir /\ power' = power /\ asked' = asked
  BY DEF TransmitEnd, packets, chip
<1>2. /\ packet_to_send_once \in Packet /\ calls \in 0 .. MaxCalls /\ accepted \in SUBSET (1 .. calls)
      /\ WordsMatch /\ MaxCalls \in Nat /\ Words \in Nat \ {0}
  BY RadioAssumption DEF SendInv, PacketType
<1>3. command \in Commands /\ command.Cmd # "R_MSG_SET_PWR"
  BY CommandParts
<1>. HIDE DEF command
<1>4. CommandType' /\ LevelsMatch' /\ asked' \in PowerLevels
  BY <1>1, <1>3, QueueCommand
<1>5. ChipType' /\ NeverTransmitsNull'
  BY <1>1 DEF SendInv, ChipType, NeverTransmitsNull
<1>6. \A w \in 1 .. Words : packet_to_send_once[w] = calls
  BY <1>1, <1>2 DEF WordsMatch
<1>7. packet_to_send_once = Whole(calls)
  BY <1>2, <1>6, AllCopied
<1>8. calls \in 1 .. calls
  <2>1. calls > 0
    BY <1>1, <1>2 DEF WordsMatch
  <2>. QED  BY <2>1, <1>2
<1>9. PacketType'
  BY <1>1, <1>8 DEF SendInv, PacketType
<1>10. WordsMatch'
  BY <1>1, <1>2, <1>6, <1>7 DEF WordsMatch
<1>. QED  BY <1>4, <1>5, <1>9, <1>10 DEF SendInv

LEMMA SendSetBeaconEnd ==
  ASSUME SendInv, SetBeaconEnd
  PROVE  SendInv'
<1>1. /\ main = "SetBeaconPacket" /\ copied = Words /\ main' = "handler" /\ PktTxBeacon' = TRUE
      /\ RMsgQ' = RMsgQ /\ accepted' = accepted /\ asked' = asked /\ PktTxOnce' = PktTxOnce
      /\ packet_to_send_once' = packet_to_send_once /\ packet_beacon' = packet_beacon
      /\ copied' = copied /\ calls' = calls
      /\ radio' = radio /\ sent' = sent /\ onAir' = onAir /\ power' = power
  BY DEF SetBeaconEnd, packets, chip
<1>2. packet_beacon \in Packet /\ calls \in 0 .. MaxCalls /\ WordsMatch
  BY DEF SendInv, PacketType
<1>3. CommandType' /\ ChipType' /\ NeverTransmitsNull' /\ LevelsMatch'
  BY <1>1 DEF SendInv, CommandType, ChipType, NeverTransmitsNull, Pending, LevelsMatch, IsPower
<1>4. PacketType'
  BY <1>1 DEF SendInv, PacketType
<1>5. \A w \in 1 .. Words : packet_beacon[w] = calls
  BY <1>1, <1>2 DEF WordsMatch
<1>6. packet_beacon = Whole(calls)
  BY <1>2, <1>5, AllCopied
<1>7. WordsMatch'
  BY <1>1, <1>2, <1>6 DEF WordsMatch
<1>. QED  BY <1>3, <1>4, <1>7 DEF SendInv

LEMMA SendSetPowerLevel ==
  ASSUME SendInv, NEW level \in PowerLevels, SetPowerLevel(level)
  PROVE  SendInv'
<1>. DEFINE command == [Cmd |-> "R_MSG_SET_PWR", Value |-> level]
<1>1. /\ RMsgQ' = SendNowOrExit(RMsgQ, RMsgQLen, command)
      /\ asked' = (IF Full(RMsgQ, RMsgQLen) THEN asked ELSE level)
      /\ packet_to_send_once' = packet_to_send_once /\ packet_beacon' = packet_beacon
      /\ copied' = copied /\ calls' = calls /\ PktTxOnce' = PktTxOnce /\ PktTxBeacon' = PktTxBeacon
      /\ radio' = radio /\ sent' = sent /\ onAir' = onAir /\ power' = power
      /\ main' = main /\ accepted' = accepted
  BY DEF SetPowerLevel, packets, chip
<1>2. command \in Commands /\ command.Cmd = "R_MSG_SET_PWR" /\ command.Value = level
  BY CommandParts
<1>. HIDE DEF command
<1>3. CommandType' /\ LevelsMatch' /\ asked' \in PowerLevels
  BY <1>1, <1>2, QueueCommand
<1>4. PacketType' /\ WordsMatch'
  BY <1>1 DEF SendInv, PacketType, WordsMatch
<1>5. ChipType'
  BY <1>1, <1>3 DEF SendInv, ChipType
<1>6. NeverTransmitsNull'
  <2>1. Pending("R_MSG_TRANSMIT")' => Pending("R_MSG_TRANSMIT")
    <3>1. CASE Full(RMsgQ, RMsgQLen)
      BY <3>1, <1>1 DEF SendNowOrExit, Pending
    <3>2. CASE ~Full(RMsgQ, RMsgQLen)
      <4>1. RMsgQ \in Seq(Commands) /\ RMsgQ' = Append(RMsgQ, command)
        BY <3>2, <1>1 DEF SendNowOrExit, SendInv, CommandType
      <4>2. /\ DOMAIN RMsgQ = 1 .. Len(RMsgQ) /\ DOMAIN RMsgQ' = 1 .. Len(RMsgQ) + 1
            /\ \A n \in 1 .. Len(RMsgQ) : RMsgQ'[n] = RMsgQ[n]
            /\ RMsgQ'[Len(RMsgQ) + 1] = command /\ Len(RMsgQ) \in Nat
        BY <4>1, <1>2, AppendElements
      <4>. QED  BY <4>2, <1>2 DEF Pending
    <3>. QED  BY <3>1, <3>2
  <2>. QED  BY <2>1, <1>1 DEF SendInv, NeverTransmitsNull
<1>. QED  BY <1>3, <1>4, <1>5, <1>6 DEF SendInv

LEMMA SendStep ==
  ASSUME SendInv, [Next]_vars
  PROVE  SendInv'
<1>1. CASE RxOk \/ RxFail
  <2>1. LoopTop /\ RadioFrame /\ radio = "rx"
    BY <1>1 DEF RxOk, RxFail
  <2>. QED  BY <2>1, SendLoopTop
<1>2. CASE BurstSent \/ BeaconSent
  BY <1>2, SendSent
<1>3. CASE MainFetch \/ FetchReceived \/ HandlerReturn \/ OtherEvent \/ ClearBeaconPacket \/ UNCHANGED vars
  <2>1. UNCHANGED <<RMsgQ, packets, PktTxOnce, chip, accepted, asked>>
    BY <1>3 DEF MainFetch, FetchReceived, HandlerReturn, OtherEvent, ClearBeaconPacket, vars, packets, chip
  <2>2. PktTxBeacon' \in BOOLEAN
    BY <1>3 DEF MainFetch, FetchReceived, HandlerReturn, OtherEvent, ClearBeaconPacket, vars,
                SendInv, PacketType
  <2>3. main' = main \/ {main, main'} \subseteq {"loop", "radioCmd", "handler"}
    BY <1>3 DEF MainFetch, FetchReceived, HandlerReturn, OtherEvent, ClearBeaconPacket, vars
  <2>. QED  BY <2>1, <2>2, <2>3, SendUnchanged
<1>4. CASE \E call \in {"Transmit", "SetBeaconPacket"} : CallWithPacket(call)
  BY <1>4, SendCallWithPacket
<1>5. CASE \E level \in PowerLevels : SetPowerLevel(level)
  BY <1>5, SendSetPowerLevel
<1>. QED  BY <1>1, <1>2, <1>3, <1>4, <1>5, SendCopyWord, SendTransmitEnd, SendSetBeaconEnd
          DEF Next, RadioStep, MainStep

LEMMA SendInvariance == Spec => []SendInv
BY SendInit, SendStep, PTL DEF Spec

-----------------------------------------------------------------------------
(* Every variable keeps its type, the queues never hold more than their    *)
(* places, and the bursts of a packet never exceed their number.           *)
THEOREM TypeCorrect == Spec => []TypeOK
<1>1. RecvInv /\ SendInv => TypeOK
  <2>1. SUFFICES ASSUME RecvInv, SendInv PROVE TypeOK
    OBVIOUS
  <2>. QED  BY <2>1 DEF RecvInv, RecvType, SendInv, CommandType, PacketType, ChipType, TypeOK
<1>. QED  BY <1>1, RecvInvariance, SendInvariance, PTL

(* The event and the packet that radio_lvl1.h sends through two queues     *)
(* never drift apart unaccounted, however long the queues are.             *)
THEOREM EventsBalancePackets == Spec => []PacketsMatchEvents
<1>1. RecvInv => PacketsMatchEvents
  BY DEF RecvInv
<1>. QED  BY <1>1, RecvInvariance, PTL

(* The behaviour sees received packets at most once and in their order,    *)
(* whichever were refused by the queues of radio_lvl1.h.                   *)
THEOREM PacketsStayInOrder == Spec => []HandedInOrder
<1>1. RecvInv => HandedInOrder
  <2>1. SUFFICES ASSUME RecvInv PROVE HandedInOrder
    OBVIOUS
  <2>2. DOMAIN handed = 1 .. Len(handed)
    BY <2>1 DEF RecvInv, RecvType
  <2>. QED  BY <2>1, <2>2 DEF RecvInv, InOrder, HandedInOrder
<1>. QED  BY <1>1, RecvInvariance, PTL

(* The thread of radio_lvl1.h never follows a null pkt_tx_once.            *)
THEOREM TransmitsPackets == Spec => []NeverTransmitsNull
<1>1. SendInv => NeverTransmitsNull
  BY DEF SendInv
<1>. QED  BY <1>1, SendInvariance, PTL

(* The chip ends up with the power level of the last SetPowerLevel that    *)
(* the queue accepted, for every length of the queue.                      *)
THEOREM LastLevelWins == Spec => []LastPowerWins
<1>1. SendInv => LastPowerWins
  <2>1. SUFFICES ASSUME SendInv, radio # "off", ~Pending("R_MSG_SET_PWR") PROVE power = asked
    BY DEF LastPowerWins
  <2>2. DOMAIN RMsgQ = 1 .. Len(RMsgQ)
    BY <2>1 DEF SendInv, CommandType
  <2>. QED  BY <2>1, <2>2 DEF SendInv, LevelsMatch, IsPower, Pending
<1>. QED  BY <1>1, SendInvariance, PTL

(* Although Transmit of radio_wrapper.h copies its packet without a lock,  *)
(* what goes on the air for a command is in every word at least as new as  *)
(* every packet whose command was accepted.                                *)
THEOREM BurstsStayCurrent == Spec => BurstsAreCurrent
<1>1. SendInv /\ [Next]_vars
        => [radio' = "once" /\ sent' # sent
              => \A w \in 1 .. Words : \A n \in accepted : onAir'[w] >= n]_vars
  <2>1. SUFFICES ASSUME SendInv, Next, radio' = "once", sent' # sent
                 PROVE  onAir' = packet_to_send_once
    BY DEF SendInv, WordsMatch
  <2>2. CASE RxOk \/ RxFail \/ BurstSent
    BY <2>1, <2>2 DEF RxOk, RxFail, BurstSent, LoopTop, StartBursts, SetTxPower, NoCommand,
                      BeaconOrRx, Transmit
  <2>3. sent' = sent \/ RxOk \/ RxFail \/ BurstSent
    BY <2>1 DEF Next, RadioStep, MainStep, BeaconSent, MainFetch, FetchReceived, HandlerReturn,
                CallWithPacket, CopyWord, TransmitEnd, SetBeaconEnd, ClearBeaconPacket,
                SetPowerLevel, OtherEvent, chip
  <2>. QED  BY <2>1, <2>2, <2>3
<1>. QED  BY <1>1, SendInvariance, PTL DEF Spec, BurstsAreCurrent

(* Halves of two packets go on the air only when the radio thread wakes    *)
(* inside a copy of radio_wrapper.h.                                       *)
THEOREM WholePackets == Spec => WholeUnlessCopying
<1>1. SendInv /\ [Next]_vars
        => [onAir' # onAir /\ main \notin {"Transmit", "SetBeaconPacket"}
              => \E n \in 0 .. MaxCalls : onAir' = Whole(n)]_vars
  <2>1. SUFFICES ASSUME SendInv, Next, onAir' # onAir, main \notin {"Transmit", "SetBeaconPacket"}
                 PROVE  \E n \in 0 .. MaxCalls : onAir' = Whole(n)
    OBVIOUS
  <2>2. onAir' \in {packet_to_send_once, packet_beacon, Zero}
    <3>1. CASE RxOk \/ RxFail \/ BurstSent \/ BeaconSent
      BY <3>1 DEF RxOk, RxFail, BurstSent, BeaconSent, LoopTop, StartBursts, SetTxPower, NoCommand,
                  BeaconOrRx, Transmit
    <3>2. onAir' = onAir \/ RxOk \/ RxFail \/ BurstSent \/ BeaconSent
      BY <2>1 DEF Next, RadioStep, MainStep, MainFetch, FetchReceived, HandlerReturn,
                  CallWithPacket, CopyWord, TransmitEnd, SetBeaconEnd, ClearBeaconPacket,
                  SetPowerLevel, OtherEvent, chip
    <3>. QED  BY <2>1, <3>1, <3>2
  <2>3. Zero = Whole(0) /\ 0 \in 0 .. MaxCalls
    BY RadioAssumption DEF Zero, Whole
  <2>. QED  BY <2>1, <2>2, <2>3 DEF SendInv, WordsMatch
<1>. QED  BY <1>1, SendInvariance, PTL DEF Spec, WholeUnlessCopying
=============================================================================
