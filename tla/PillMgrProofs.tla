---- MODULE PillMgrProofs ----
(***************************************************************************)
(* Proofs about PillMgr for any set of pills, any number of pages, any     *)
(* length of EvtQMain and any bounds.                                      *)
(***************************************************************************)
EXTENDS PillMgr, TLAPS

PillEvents == {"evtIdPillConnected", "evtIdPillDisconnected"}

(* Taking the head of a queue: what is left leads on from what the head told. *)
LEMMA TailElements ==
  ASSUME NEW s \in Seq(Events), s # <<>>
  PROVE  /\ Tail(s) \in Seq(Events) /\ Len(Tail(s)) = Len(s) - 1 /\ Len(s) \in Nat /\ Len(s) > 0
         /\ \A i \in 1..(Len(s) - 1) : Tail(s)[i] = s[i + 1]
         /\ Head(s) = s[1] /\ s[1] \in Events
OBVIOUS

LEMMA AppendElements ==
  ASSUME NEW s \in Seq(Events), NEW e \in Events
  PROVE  /\ Append(s, e) \in Seq(Events) /\ Len(Append(s, e)) = Len(s) + 1 /\ Len(s) \in Nat
         /\ \A i \in 1..Len(s) : Append(s, e)[i] = s[i]
         /\ Append(s, e)[Len(s) + 1] = e
OBVIOUS

LEMMA NoneInTail ==
  ASSUME NEW s \in Seq(Events), s # <<>>, NEW i \in Nat, NEW j \in Nat,
         NoneIn(Tail(s), i, j), i > 0 \/ ~PillAt(s, 1)
  PROVE  NoneIn(s, IF i = 0 THEN 0 ELSE i + 1, j + 1)
<1>1. SUFFICES ASSUME NEW k \in 1..Len(s), (IF i = 0 THEN 0 ELSE i + 1) < k, k < j + 1
               PROVE  ~PillAt(s, k)
  BY DEF NoneIn
<1>2. CASE k = 1
  BY <1>1, <1>2
<1>3. CASE k > 1
  <2>1. k - 1 \in 1..Len(Tail(s)) /\ i < k - 1 /\ k - 1 < j /\ Tail(s)[k - 1] = s[k]
    BY <1>1, <1>3, TailElements
  <2>. QED  BY <2>1 DEF NoneIn, PillAt
<1>. QED  BY <1>1, <1>2, <1>3, TailElements

LEMMA TailInTurn ==
  ASSUME NEW s \in Seq(Events), s # <<>>, NEW told \in BOOLEAN, NEW found \in BOOLEAN,
         InTurn(s, told, found)
  PROVE  /\ Head(s) \notin PillEvents => InTurn(Tail(s), told, found)
         /\ Head(s) = "evtIdPillConnected" => ~told /\ InTurn(Tail(s), TRUE, found)
         /\ Head(s) = "evtIdPillDisconnected" => told /\ InTurn(Tail(s), FALSE, found)
<1> DEFINE t == Tail(s)
<1>1. /\ t \in Seq(Events) /\ Len(t) = Len(s) - 1 /\ Len(s) \in Nat /\ Len(s) > 0
      /\ \A i \in 1..Len(t) : t[i] = s[i + 1] /\ i + 1 \in 1..Len(s) /\ i \in Nat
      /\ Head(s) = s[1] /\ s[1] \in Events /\ 1 \in 1..Len(s)
  BY TailElements
<1>2. ASSUME NEW i \in Nat, NEW j \in Nat, i > 0, NoneIn(t, i, j)
      PROVE  NoneIn(s, i + 1, j + 1)
  BY <1>2, NoneInTail
<1>3. ASSUME NEW j \in Nat, NoneIn(t, 0, j)
      PROVE  NoneIn(s, 1, j + 1)
  <2>1. SUFFICES ASSUME NEW k \in 1..Len(s), 1 < k, k < j + 1 PROVE ~PillAt(s, k)
    BY DEF NoneIn
  <2>2. k - 1 \in 1..Len(t) /\ 0 < k - 1 /\ k - 1 < j /\ t[k - 1] = s[k]
    BY <2>1, <1>1
  <2>. QED  BY <2>2, <1>3 DEF NoneIn, PillAt
<1>4. ASSUME NEW j \in Nat, NoneIn(t, 0, j), ~PillAt(s, 1)
      PROVE  NoneIn(s, 0, j + 1)
  BY <1>4, NoneInTail
<1>5. \A i \in 1..Len(t) : PillAt(t, i) <=> PillAt(s, i + 1)
  BY <1>1 DEF PillAt
<1>. HIDE DEF t
\* the two conditions that do not speak of what was told
<1>6. ASSUME NEW i \in 1..Len(t), PillAt(t, i)
      PROVE  /\ \A j \in 1..Len(t) : i < j /\ PillAt(t, j) /\ NoneIn(t, i, j) => t[i] # t[j]
             /\ NoneIn(t, i, Len(t) + 1) => (t[i] = "evtIdPillConnected" <=> found)
  <2>1. i > 0 /\ i \in Nat /\ Len(t) + 1 \in Nat /\ Len(t) + 1 + 1 = Len(s) + 1
    BY <1>1
  <2>2. PillAt(s, i + 1) /\ i + 1 \in 1..Len(s) /\ t[i] = s[i + 1]
    BY <1>1, <1>5, <1>6
  <2>3. ASSUME NEW j \in 1..Len(t), i < j, PillAt(t, j), NoneIn(t, i, j)
        PROVE  t[i] # t[j]
    <3>1. NoneIn(s, i + 1, j + 1)
      BY <2>3, <2>1, <1>2, <1>1
    <3>2. j + 1 \in 1..Len(s) /\ i + 1 < j + 1 /\ PillAt(s, j + 1) /\ t[j] = s[j + 1]
      BY <2>3, <1>1, <1>5, <2>1
    <3>. QED  BY <3>1, <3>2, <2>2 DEF InTurn
  <2>4. ASSUME NoneIn(t, i, Len(t) + 1)
        PROVE  t[i] = "evtIdPillConnected" <=> found
    <3>1. NoneIn(s, i + 1, Len(s) + 1)
      BY <2>4, <2>1, <1>2
    <3>. QED  BY <3>1, <2>2 DEF InTurn
  <2>. QED  BY <2>3, <2>4
<1>7. ASSUME Head(s) \notin PillEvents
      PROVE  InTurn(t, told, found)
  <2>1. ~PillAt(s, 1)
    BY <1>7, <1>1 DEF PillAt, PillEvents
  <2>2. ASSUME NEW i \in 1..Len(t), PillAt(t, i), NoneIn(t, 0, i)
        PROVE  t[i] = "evtIdPillConnected" <=> ~told
    <3>1. NoneIn(s, 0, i + 1) /\ PillAt(s, i + 1) /\ i + 1 \in 1..Len(s) /\ t[i] = s[i + 1]
      BY <2>1, <2>2, <1>1, <1>4, <1>5
    <3>. QED  BY <3>1 DEF InTurn
  <2>3. ASSUME NoneIn(t, 0, Len(t) + 1)
        PROVE  told <=> found
    <3>1. NoneIn(s, 0, Len(t) + 1 + 1) /\ Len(t) + 1 + 1 = Len(s) + 1
      BY <2>1, <2>3, <1>1, <1>4
    <3>. QED  BY <3>1 DEF InTurn
  <2>. QED  BY <1>6, <2>2, <2>3 DEF InTurn
<1>8. ASSUME Head(s) \in PillEvents
      PROVE  /\ Head(s) = "evtIdPillConnected" <=> ~told
             /\ InTurn(t, Head(s) = "evtIdPillConnected", found)
  <2>1. PillAt(s, 1) /\ 1 \in 1..Len(s)
    BY <1>8, <1>1 DEF PillAt, PillEvents
  <2>2. NoneIn(s, 0, 1)
    BY <1>1 DEF NoneIn
  <2>3. Head(s) = "evtIdPillConnected" <=> ~told
    BY <2>1, <2>2, <1>1 DEF InTurn
  <2>4. ASSUME NEW i \in 1..Len(t), PillAt(t, i), NoneIn(t, 0, i)
        PROVE  t[i] = "evtIdPillConnected" <=> ~(Head(s) = "evtIdPillConnected")
    <3>1. NoneIn(s, 1, i + 1) /\ PillAt(s, i + 1) /\ i + 1 \in 1..Len(s) /\ 1 < i + 1 /\ t[i] = s[i + 1]
      BY <2>4, <1>1, <1>3, <1>5
    <3>2. s[1] # s[i + 1]
      BY <3>1, <2>1 DEF InTurn
    <3>. QED  BY <3>1, <3>2, <2>1, <1>1 DEF PillAt
  <2>5. ASSUME NoneIn(t, 0, Len(t) + 1)
        PROVE  (Head(s) = "evtIdPillConnected") <=> found
    <3>1. NoneIn(s, 1, Len(t) + 1 + 1) /\ Len(t) + 1 + 1 = Len(s) + 1
      BY <2>5, <1>1, <1>3
    <3>. QED  BY <3>1, <2>1, <1>1 DEF InTurn
  <2>. QED  BY <1>6, <2>3, <2>4, <2>5 DEF InTurn
<1>9. Head(s) = "evtIdPillConnected" => (Head(s) = "evtIdPillConnected") = TRUE
  OBVIOUS
<1>10. Head(s) = "evtIdPillDisconnected" => (Head(s) = "evtIdPillConnected") = FALSE
  OBVIOUS
<1>. QED  BY <1>7, <1>8, <1>9, <1>10 DEF PillEvents, t

(* Sending an event at the other end. *)
LEMMA NoneInAppend ==
  ASSUME NEW s \in Seq(Events), NEW e \in Events, NEW i \in Nat, NEW j \in Nat, j <= Len(s) + 1
  PROVE  NoneIn(Append(s, e), i, j) <=> NoneIn(s, i, j)
<1>1. /\ Len(Append(s, e)) = Len(s) + 1 /\ Len(s) \in Nat
      /\ \A k \in 1..Len(s) : Append(s, e)[k] = s[k]
  BY AppendElements
<1>2. ASSUME NoneIn(s, i, j), NEW k \in 1..Len(Append(s, e)), i < k, k < j
      PROVE  ~PillAt(Append(s, e), k)
  <2>1. k \in 1..Len(s)
    BY <1>1, <1>2
  <2>. QED  BY <2>1, <1>1, <1>2 DEF NoneIn, PillAt
<1>3. ASSUME NoneIn(Append(s, e), i, j), NEW k \in 1..Len(s), i < k, k < j
      PROVE  ~PillAt(s, k)
  <2>1. k \in 1..Len(Append(s, e))
    BY <1>1
  <2>. QED  BY <2>1, <1>1, <1>3 DEF NoneIn, PillAt
<1>. QED  BY <1>2, <1>3 DEF NoneIn

LEMMA AppendOtherInTurn ==
  ASSUME NEW s \in Seq(Events), NEW e \in Events \ PillEvents,
         NEW told \in BOOLEAN, NEW found \in BOOLEAN, InTurn(s, told, found)
  PROVE  InTurn(Append(s, e), told, found)
<1> DEFINE t == Append(s, e)
<1>1. /\ Len(t) = Len(s) + 1 /\ Len(s) \in Nat /\ ~PillAt(t, Len(s) + 1)
      /\ \A k \in 1..Len(s) : t[k] = s[k] /\ (PillAt(t, k) <=> PillAt(s, k))
  BY AppendElements DEF PillAt, PillEvents
<1>2. \A i, j \in Nat : j <= Len(s) + 1 => (NoneIn(t, i, j) <=> NoneIn(s, i, j))
  BY NoneInAppend
<1>3. \A i \in Nat : NoneIn(t, i, Len(s) + 2) => NoneIn(t, i, Len(s) + 1)
  BY <1>1 DEF NoneIn
<1>. HIDE DEF t
<1>4. ASSUME NEW i \in 1..Len(t), PillAt(t, i)
      PROVE  i \in 1..Len(s) /\ i \in Nat /\ PillAt(s, i) /\ t[i] = s[i]
  <2>1. i # Len(s) + 1
    BY <1>1, <1>4
  <2>. QED  BY <2>1, <1>1, <1>4
<1>5. ASSUME NEW i \in 1..Len(t), PillAt(t, i), NoneIn(t, 0, i)
      PROVE  t[i] = "evtIdPillConnected" <=> ~told
  <2>1. NoneIn(s, 0, i)
    BY <1>1, <1>2, <1>4, <1>5
  <2>. QED  BY <2>1, <1>4, <1>5 DEF InTurn
<1>6. ASSUME NEW i \in 1..Len(t), PillAt(t, i), NEW j \in 1..Len(t), i < j, PillAt(t, j), NoneIn(t, i, j)
      PROVE  t[i] # t[j]
  <2>1. NoneIn(s, i, j)
    BY <1>1, <1>2, <1>4, <1>6
  <2>. QED  BY <2>1, <1>4, <1>6 DEF InTurn
<1>7. ASSUME NEW i \in 1..Len(t), PillAt(t, i), NoneIn(t, i, Len(t) + 1)
      PROVE  t[i] = "evtIdPillConnected" <=> found
  <2>1. NoneIn(t, i, Len(s) + 1) /\ i \in Nat /\ Len(s) + 1 \in Nat
    BY <1>1, <1>3, <1>4, <1>7
  <2>2. NoneIn(s, i, Len(s) + 1)
    BY <2>1, <1>2, <1>1
  <2>. QED  BY <2>2, <1>4, <1>7 DEF InTurn
<1>8. ASSUME NoneIn(t, 0, Len(t) + 1)
      PROVE  told <=> found
  <2>1. NoneIn(t, 0, Len(s) + 1) /\ Len(s) + 1 \in Nat
    BY <1>1, <1>3, <1>8
  <2>2. NoneIn(s, 0, Len(s) + 1)
    BY <2>1, <1>2, <1>1
  <2>. QED  BY <2>2 DEF InTurn
<1>9. InTurn(t, told, found)
  BY <1>5, <1>6, <1>7, <1>8 DEF InTurn
<1>. QED  BY <1>9 DEF t

LEMMA AppendPillInTurn ==
  ASSUME NEW s \in Seq(Events), NEW told \in BOOLEAN, NEW found \in BOOLEAN, InTurn(s, told, found),
         NEW e \in PillEvents, e = "evtIdPillConnected" <=> ~found
  PROVE  InTurn(Append(s, e), told, ~found)
<1> DEFINE t == Append(s, e)
           n == Len(s)
<1>0. e \in Events
  BY DEF Events, PillEvents
<1>1. /\ Len(t) = n + 1 /\ n \in Nat /\ PillAt(t, n + 1) /\ t[n + 1] = e
      /\ \A k \in 1..n : t[k] = s[k] /\ (PillAt(t, k) <=> PillAt(s, k))
  BY <1>0, AppendElements DEF PillAt, PillEvents
<1>2. \A i, j \in Nat : j <= n + 1 => (NoneIn(t, i, j) <=> NoneIn(s, i, j))
  BY <1>0, NoneInAppend
<1>3. \A i \in 0..n : ~NoneIn(t, i, Len(t) + 1)
  BY <1>1 DEF NoneIn
<1>. HIDE DEF t
<1>4. ASSUME NEW i \in 1..Len(t), PillAt(t, i), NoneIn(t, 0, i)
      PROVE  t[i] = "evtIdPillConnected" <=> ~told
  <2>1. NoneIn(s, 0, i) /\ i \in Nat
    BY <1>1, <1>2, <1>4
  <2>2. CASE i = n + 1
    <3>1. told <=> found
      BY <2>1, <2>2 DEF InTurn
    <3>. QED  BY <3>1, <2>2, <1>1
  <2>3. CASE i \in 1..n
    BY <2>1, <2>3, <1>1, <1>4 DEF InTurn
  <2>. QED  BY <2>2, <2>3, <1>1, <1>4
<1>5. ASSUME NEW i \in 1..Len(t), PillAt(t, i), NEW j \in 1..Len(t), i < j, PillAt(t, j), NoneIn(t, i, j)
      PROVE  t[i] # t[j]
  <2>1. NoneIn(s, i, j) /\ i \in 1..n /\ PillAt(s, i) /\ t[i] = s[i]
    BY <1>1, <1>2, <1>5
  <2>2. CASE j = n + 1
    <3>1. s[i] = "evtIdPillConnected" <=> found
      BY <2>1, <2>2 DEF InTurn
    <3>. QED  BY <3>1, <2>1, <2>2, <1>1
  <2>3. CASE j \in 1..n
    <3>1. PillAt(s, j) /\ t[j] = s[j]
      BY <2>3, <1>1, <1>5
    <3>. QED  BY <3>1, <2>1, <2>3, <1>5 DEF InTurn
  <2>. QED  BY <2>2, <2>3, <1>1, <1>5
<1>6. ASSUME NEW i \in 1..Len(t), PillAt(t, i), NoneIn(t, i, Len(t) + 1)
      PROVE  t[i] = "evtIdPillConnected" <=> ~found
  <2>1. i = n + 1
    BY <1>1, <1>3, <1>6
  <2>. QED  BY <2>1, <1>1
<1>7. ~NoneIn(t, 0, Len(t) + 1)
  BY <1>1, <1>3
<1>8. InTurn(t, told, ~found)
  BY <1>4, <1>5, <1>6, <1>7 DEF InTurn
<1>. QED  BY <1>8 DEF t

LEMMA EmptyInTurn == InTurn(<<>>, FALSE, FALSE)
BY DEF InTurn
----
(* The inductive invariant: where Write is, and what it has written if the
   pill it began with is the only one it has met. *)
WritingMatches ==
  /\ pc = "write" => page \in 1..Pages
  /\ pc = "poll" => page = Pages + 1
  /\ pc # "fetch" /\ target # "none" =>
       /\ socket \in {"none", target}
       /\ \A n \in 1..Pages : n < page => content[target][n] = "new"

IInv == TypeOK /\ ToldInTurn /\ WritingMatches

(* The parts of TypeOK that different actions change. *)
QueueOK == q \in Seq(Events) /\ Len(q) <= QSize /\ refused \in BOOLEAN
ViewOK  == IsConnectedNow \in BOOLEAN /\ pill_manager \in BOOLEAN
LoopOK  == /\ pc \in {"fetch", "write", "poll"} /\ page \in 1..(Pages + 1) /\ retries \in 0..4
           /\ target \in Pills \cup {"none"}
PlaceOK == socket \in Pills \cup {"none"} /\ content \in [Pills -> [1..Pages -> {"old", "new"}]]
BoundOK == moves \in 0..MaxMoves /\ failures \in 0..MaxFailures /\ other \in 0..MaxOther

LEMMA TypeParts == TypeOK <=> QueueOK /\ ViewOK /\ LoopOK /\ PlaceOK /\ BoundOK
BY DEF TypeOK, QueueOK, ViewOK, LoopOK, PlaceOK, BoundOK

LEMMA SendIsSafe ==
  ASSUME NEW rest \in Seq(Events), Len(rest) <= QSize, NEW e \in PillEvents, Send(e, rest),
         refused \in BOOLEAN, NEW told \in BOOLEAN, NEW found \in BOOLEAN,
         e = "evtIdPillConnected" <=> ~found, ~refused => InTurn(rest, told, found)
  PROVE  QueueOK' /\ (~refused' => InTurn(q', told, ~found))
<1>1. CASE Len(rest) < QSize
  <2>1. q' = Append(rest, e) /\ refused' = refused /\ e \in Events
    BY <1>1 DEF Send, Events, PillEvents
  <2>2. q' \in Seq(Events) /\ Len(q') <= QSize
    BY <1>1, <2>1, AppendElements, PillAssumption
  <2>. QED  BY <2>1, <2>2, AppendPillInTurn DEF QueueOK
<1>2. CASE ~(Len(rest) < QSize)
  BY <1>2 DEF Send, QueueOK
<1>. QED  BY <1>1, <1>2

(* Failures are counted up to their bound. *)
LEMMA TransferBounds ==
  ASSUME BoundOK, Answers \/ Fails
  PROVE  failures' \in 0..MaxFailures
BY PillAssumption DEF BoundOK, Answers, Fails

LEMMA CheckSends ==
  ASSUME TypeOK, ToldInTurn, Fetch("evtIdEverySecond"), Check, UNCHANGED pill_manager
  PROVE  QueueOK' /\ IsConnectedNow' \in BOOLEAN /\ ToldInTurn' /\ (Answers \/ Fails)
<1>1. /\ q # <<>> /\ Head(q) \notin PillEvents /\ Tail(q) \in Seq(Events) /\ Len(Tail(q)) <= QSize
      /\ refused \in BOOLEAN /\ IsConnectedNow \in BOOLEAN /\ pill_manager \in BOOLEAN
  BY TailElements, PillAssumption DEF TypeOK, Fetch, PillEvents
<1>2. ~refused => InTurn(Tail(q), pill_manager, IsConnectedNow)
  BY <1>1, TailInTurn DEF ToldInTurn, TypeOK
<1>3. Answers \/ Fails
  BY DEF Check
<1>4. CASE q' = Tail(q) /\ UNCHANGED <<IsConnectedNow, refused>>
  <2>1. q' = Tail(q) /\ IsConnectedNow' = IsConnectedNow /\ refused' = refused /\ pill_manager' = pill_manager
    BY <1>4
  <2>2. QueueOK'
    BY <1>1, <2>1 DEF QueueOK
  <2>3. ToldInTurn'
    BY <1>2, <2>1 DEF ToldInTurn
  <2>. QED  BY <1>1, <1>3, <2>1, <2>2, <2>3
<1>5. CASE IsConnectedNow /\ IsConnectedNow' = FALSE /\ Send("evtIdPillDisconnected", Tail(q))
  <2>1. QueueOK' /\ (~refused' => InTurn(q', pill_manager, ~IsConnectedNow))
    BY <1>1, <1>2, <1>5, SendIsSafe DEF PillEvents
  <2>2. IsConnectedNow' = ~IsConnectedNow /\ pill_manager' = pill_manager
    BY <1>1, <1>5
  <2>3. ToldInTurn'
    BY <2>1, <2>2 DEF ToldInTurn
  <2>. QED  BY <1>3, <1>5, <2>1, <2>3
<1>6. CASE ~IsConnectedNow /\ IsConnectedNow' = TRUE /\ Send("evtIdPillConnected", Tail(q))
  <2>1. QueueOK' /\ (~refused' => InTurn(q', pill_manager, ~IsConnectedNow))
    BY <1>1, <1>2, <1>6, SendIsSafe DEF PillEvents
  <2>2. IsConnectedNow' = ~IsConnectedNow /\ pill_manager' = pill_manager
    BY <1>1, <1>6
  <2>3. ToldInTurn'
    BY <2>1, <2>2 DEF ToldInTurn
  <2>. QED  BY <1>3, <1>6, <2>1, <2>3
<1>7. \/ q' = Tail(q) /\ UNCHANGED <<IsConnectedNow, refused>>
      \/ IsConnectedNow /\ IsConnectedNow' = FALSE /\ Send("evtIdPillDisconnected", Tail(q))
      \/ ~IsConnectedNow /\ IsConnectedNow' = TRUE /\ Send("evtIdPillConnected", Tail(q))
  BY DEF Check
<1>. QED  BY <1>4, <1>5, <1>6, <1>7

(* A behaviour's handler returns or begins a write. *)
LEMMA HandlerEnds ==
  ASSUME LoopOK, PlaceOK, Return \/ BeginWrite, UNCHANGED <<socket, content>>, pc = "fetch"
  PROVE  LoopOK' /\ PlaceOK' /\ WritingMatches'
<1>1. PlaceOK'
  BY DEF PlaceOK
<1>2. CASE Return
  <2>1. pc' = "fetch" /\ page' = page /\ retries' = retries /\ target' = target
    BY <1>2 DEF Return, write
  <2>2. LoopOK'
    BY <2>1 DEF LoopOK
  <2>. QED  BY <1>1, <2>1, <2>2 DEF WritingMatches
<1>3. CASE BeginWrite
  <2>1. LoopOK' /\ page' = 1 /\ pc' = "write" /\ target' = socket
    BY <1>3, PillAssumption DEF BeginWrite, LoopOK, PlaceOK
  <2>. QED  BY <2>1, <1>1, PillAssumption DEF WritingMatches
<1>. QED  BY <1>1, <1>2, <1>3

(* An event taken from the queue changes what was told as its name says. *)
LEMMA FetchTells ==
  ASSUME TypeOK, ToldInTurn, q # <<>>, q' = Tail(q), UNCHANGED <<IsConnectedNow, refused>>,
         \/ Head(q) \notin PillEvents /\ UNCHANGED pill_manager
         \/ Head(q) = "evtIdPillConnected" /\ pill_manager' = TRUE
         \/ Head(q) = "evtIdPillDisconnected" /\ pill_manager' = FALSE
  PROVE  QueueOK' /\ ViewOK' /\ ToldInTurn'
<1>1. QueueOK' /\ ViewOK'
  <2>1. Tail(q) \in Seq(Events) /\ Len(Tail(q)) <= QSize
    BY TailElements, PillAssumption DEF TypeOK
  <2>2. IsConnectedNow' = IsConnectedNow /\ refused' = refused
    OBVIOUS
  <2>3. QueueOK'
    BY <2>1, <2>2 DEF TypeOK, QueueOK
  <2>4. pill_manager' \in BOOLEAN
    BY DEF TypeOK
  <2>. QED  BY <2>2, <2>3, <2>4 DEF TypeOK, ViewOK
<1>2. q \in Seq(Events) /\ pill_manager \in BOOLEAN /\ IsConnectedNow \in BOOLEAN
  BY DEF TypeOK
<1>3. ~refused => InTurn(Tail(q), pill_manager', IsConnectedNow)
  BY <1>2, TailInTurn DEF ToldInTurn
<1>. QED  BY <1>1, <1>3 DEF ToldInTurn
----
LEMMA InitInv == Init => IInv
<1>1. SUFFICES ASSUME Init PROVE IInv
  OBVIOUS
<1>2. TypeOK
  <2>1. <<>> \in Seq(Events) /\ Len(<<>>) = 0
    OBVIOUS
  <2>2. QueueOK
    <3>1. q = <<>> /\ refused = FALSE
      BY <1>1 DEF Init
    <3>2. q \in Seq(Events) /\ Len(q) = 0
      BY <2>1, <3>1
    <3>3. Len(q) <= QSize
      BY <3>2, PillAssumption
    <3>4. refused \in BOOLEAN
      BY <3>1
    <3>. QED  BY <3>2, <3>3, <3>4 DEF QueueOK
  <2>3. ViewOK
    BY <1>1 DEF Init, ViewOK
  <2>4. LoopOK
    BY <1>1, PillAssumption DEF Init, LoopOK
  <2>5. PlaceOK
    BY <1>1 DEF Init, PlaceOK
  <2>6. BoundOK
    BY <1>1, PillAssumption DEF Init, BoundOK
  <2>. QED  BY <2>2, <2>3, <2>4, <2>5, <2>6, TypeParts
<1>3. ToldInTurn
  BY <1>1, EmptyInTurn DEF Init, ToldInTurn
<1>4. WritingMatches
  BY <1>1 DEF Init, WritingMatches
<1>. QED  BY <1>2, <1>3, <1>4 DEF IInv

LEMMA MainLoopInv ==
  ASSUME IInv, MainLoop
  PROVE  IInv'
<1>1. TypeOK /\ ToldInTurn /\ WritingMatches /\ QueueOK /\ ViewOK /\ LoopOK /\ PlaceOK /\ BoundOK
  BY TypeParts DEF IInv
<1>2. CASE EverySecond
  <2>1. Fetch("evtIdEverySecond") /\ Check /\ UNCHANGED <<socket, content, pill_manager, moves, other>>
    BY <1>2 DEF EverySecond
  <2>2. QueueOK' /\ IsConnectedNow' \in BOOLEAN /\ ToldInTurn' /\ (Answers \/ Fails)
    BY <1>1, <2>1, CheckSends
  <2>3. LoopOK' /\ PlaceOK' /\ WritingMatches'
    BY <1>1, <1>2, <2>1, HandlerEnds DEF EverySecond, Fetch
  <2>4. BoundOK' /\ ViewOK'
    BY <1>1, <2>1, <2>2, TransferBounds DEF BoundOK, ViewOK
  <2>. QED  BY <2>2, <2>3, <2>4, TypeParts DEF IInv, TypeOK, QueueOK, ViewOK, LoopOK, PlaceOK, BoundOK
<1>3. CASE OnPillConnected \/ OnPillDisconnected \/ OnButtonPressed
  <2>1. /\ q # <<>> /\ q' = Tail(q) /\ pc = "fetch" /\ (Return \/ BeginWrite)
        /\ UNCHANGED <<socket, content, IsConnectedNow, refused, bounds>>
        /\ \/ Head(q) \notin PillEvents /\ UNCHANGED pill_manager
           \/ Head(q) = "evtIdPillConnected" /\ pill_manager' = TRUE
           \/ Head(q) = "evtIdPillDisconnected" /\ pill_manager' = FALSE
    BY <1>3 DEF OnPillConnected, OnPillDisconnected, OnButtonPressed, Fetch, PillEvents
  <2>2. QueueOK' /\ ViewOK' /\ ToldInTurn'
    BY <1>1, <2>1, FetchTells
  <2>3. LoopOK' /\ PlaceOK' /\ WritingMatches'
    BY <1>1, <2>1, HandlerEnds
  <2>4. BoundOK'
    BY <1>1, <2>1 DEF BoundOK, bounds
  <2>. QED  BY <2>2, <2>3, <2>4 DEF IInv, TypeOK, QueueOK, ViewOK, LoopOK, PlaceOK, BoundOK
<1>4. CASE WriteFailed \/ PollFailed \/ WriteOk
  <2>1. /\ (Answers \/ Fails)
        /\ UNCHANGED <<socket, content, IsConnectedNow, q, pill_manager, refused, moves, other>>
    BY <1>4 DEF WriteFailed, PollFailed, WriteOk
  <2>2. \/ Return
        \/ retries < 4 /\ retries' = retries + 1 /\ UNCHANGED <<pc, page, target>>
    BY <1>4 DEF WriteFailed, PollFailed, WriteOk
  <2>3. LoopOK'
    BY <1>1, <2>2 DEF LoopOK, Return, write
  <2>4. WritingMatches'
    BY <1>1, <2>1, <2>2 DEF WritingMatches, Return, write
  <2>5. QueueOK' /\ ViewOK' /\ PlaceOK' /\ BoundOK' /\ ToldInTurn'
    BY <1>1, <2>1, TransferBounds DEF QueueOK, ViewOK, PlaceOK, BoundOK, ToldInTurn
  <2>. QED  BY <2>3, <2>4, <2>5 DEF IInv, TypeOK, QueueOK, ViewOK, LoopOK, PlaceOK, BoundOK
<1>5. CASE WritePage
  <2>1. /\ pc = "write" /\ socket # "none" /\ UNCHANGED failures
        /\ content' = [content EXCEPT ![socket][page] = "new"]
        /\ page' = page + 1 /\ retries' = 0 /\ target' = target
        /\ pc' = IF page = Pages THEN "poll" ELSE "write"
        /\ UNCHANGED <<socket, IsConnectedNow, q, pill_manager, refused, moves, other>>
    BY <1>5 DEF WritePage, Answers
  <2>2. page \in 1..Pages /\ socket \in Pills /\ Pages \in Nat
    BY <1>1, <2>1, PillAssumption DEF WritingMatches, PlaceOK
  <2>3. LoopOK'
    BY <1>1, <2>1, <2>2 DEF LoopOK
  <2>4. PlaceOK'
    BY <1>1, <2>1, <2>2 DEF PlaceOK
  <2>5. pc' # "fetch" /\ target' # "none" => socket' \in {"none", target'}
    BY <1>1, <2>1 DEF WritingMatches
  <2>6. ASSUME target # "none", NEW n \in 1..Pages, n < page + 1
        PROVE  content'[target][n] = "new"
    <3>1. target = socket /\ (n < page => content[target][n] = "new")
      BY <1>1, <2>1, <2>6 DEF WritingMatches
    <3>2. n = page \/ n < page
      BY <2>2, <2>6
    <3>3. content[socket] \in [1..Pages -> {"old", "new"}] /\ socket \in DOMAIN content
      BY <1>1, <2>2 DEF PlaceOK
    <3>4. content'[socket] = [content[socket] EXCEPT ![page] = "new"]
      BY <2>1, <3>3
    <3>. QED  BY <3>1, <3>2, <3>3, <3>4, <2>2
  <2>7. WritingMatches'
    BY <2>1, <2>2, <2>5, <2>6 DEF WritingMatches
  <2>8. QueueOK' /\ ViewOK' /\ BoundOK' /\ ToldInTurn'
    BY <1>1, <2>1 DEF QueueOK, ViewOK, BoundOK, ToldInTurn
  <2>. QED  BY <2>3, <2>4, <2>7, <2>8 DEF IInv, TypeOK, QueueOK, ViewOK, LoopOK, PlaceOK, BoundOK
<1>. QED  BY <1>2, <1>3, <1>4, <1>5 DEF MainLoop

LEMMA EnvironmentInv ==
  ASSUME IInv, Plug \/ Pull \/ Second \/ Button
  PROVE  IInv'
<1>1. TypeOK /\ ToldInTurn /\ WritingMatches /\ QueueOK /\ ViewOK /\ LoopOK /\ PlaceOK /\ BoundOK
  BY TypeParts DEF IInv
<1>2. CASE Plug
  <2>1. /\ socket = "none" /\ socket' \in Pills /\ moves' = moves + 1 /\ moves < MaxMoves
        /\ target' = (IF socket' = target THEN target ELSE "none")
        /\ UNCHANGED <<content, IsConnectedNow, q, pill_manager, pc, page, retries, refused, failures, other>>
    BY <1>2 DEF Plug
  <2>2. QueueOK' /\ ViewOK' /\ LoopOK' /\ PlaceOK' /\ BoundOK' /\ ToldInTurn'
    BY <1>1, <2>1, PillAssumption DEF QueueOK, ViewOK, LoopOK, PlaceOK, BoundOK, ToldInTurn
  <2>3. WritingMatches'
    BY <1>1, <2>1 DEF WritingMatches
  <2>. QED  BY <2>2, <2>3 DEF IInv, TypeOK, QueueOK, ViewOK, LoopOK, PlaceOK, BoundOK
<1>3. CASE Pull
  <2>1. /\ socket' = "none" /\ moves' = moves + 1 /\ moves < MaxMoves
        /\ UNCHANGED <<content, IsConnectedNow, q, pill_manager, pc, page, retries, target, refused, failures, other>>
    BY <1>3 DEF Pull, write
  <2>2. QueueOK' /\ ViewOK' /\ LoopOK' /\ PlaceOK' /\ BoundOK' /\ ToldInTurn'
    BY <1>1, <2>1, PillAssumption DEF QueueOK, ViewOK, LoopOK, PlaceOK, BoundOK, ToldInTurn
  <2>3. WritingMatches'
    BY <1>1, <2>1 DEF WritingMatches
  <2>. QED  BY <2>2, <2>3 DEF IInv, TypeOK, QueueOK, ViewOK, LoopOK, PlaceOK, BoundOK
<1>4. CASE Second \/ Button
  <2>1. PICK e \in Events \ PillEvents : q' = Append(q, e)
    BY <1>4 DEF Second, Button, Events, PillEvents
  <2>2. /\ Len(q) < QSize
        /\ other' = other \/ (other' = other + 1 /\ other < MaxOther)
        /\ UNCHANGED <<socket, content, IsConnectedNow, pill_manager, pc, page, retries, target,
                       refused, moves, failures>>
    BY <1>4 DEF Second, Button, write, bounds
  <2>3. QueueOK'
    BY <1>1, <2>1, <2>2, AppendElements, PillAssumption DEF QueueOK
  <2>4. ToldInTurn'
    BY <1>1, <2>1, <2>2, AppendOtherInTurn DEF ToldInTurn, QueueOK, ViewOK
  <2>5. ViewOK' /\ LoopOK' /\ PlaceOK' /\ BoundOK' /\ WritingMatches'
    BY <1>1, <2>2, PillAssumption DEF ViewOK, LoopOK, PlaceOK, BoundOK, WritingMatches
  <2>. QED  BY <2>3, <2>4, <2>5 DEF IInv, TypeOK, QueueOK, ViewOK, LoopOK, PlaceOK, BoundOK
<1>. QED  BY <1>2, <1>3, <1>4

LEMMA StepInv == IInv /\ [Next]_vars => IInv'
<1>1. ASSUME IInv, UNCHANGED vars PROVE IInv'
  BY <1>1 DEF IInv, TypeOK, ToldInTurn, WritingMatches, vars, write, bounds
<1>. QED  BY <1>1, MainLoopInv, EnvironmentInv DEF Next

LEMMA Invariance == Spec => []IInv
BY InitInv, StepInv, PTL DEF Spec

(* Every variable of the pill manager and of the main loop keeps its type;
   Write never addresses a page behind the PillState (pill_mgr.cpp). *)
THEOREM TypeCorrect == Spec => []TypeOK
<1>1. IInv => TypeOK
  BY DEF IInv
<1>. QED  BY <1>1, Invariance, PTL

(* The events of Check reach the behaviour in turn for every length of
   EvtQMain, as long as none is refused. *)
THEOREM EventsInTurn == Spec => []ToldInTurn
<1>1. IInv => ToldInTurn
  BY DEF IInv
<1>. QED  BY <1>1, Invariance, PTL

(* WritePill's retvOk means that every page was written, for every number of
   pages and whatever failed on the way. *)
THEOREM WritesAreWhole == Spec => OkMeansWritten
<1>1. IInv /\ [Next]_vars =>
        [WriteOk /\ socket = target => \A n \in 1..Pages : content[socket][n] = "new"]_vars
  <2>1. SUFFICES ASSUME IInv, WriteOk, socket = target, NEW n \in 1..Pages
                 PROVE  content[socket][n] = "new"
    OBVIOUS
  <2>2. pc = "poll" /\ target # "none" /\ page = Pages + 1 /\ Pages \in Nat
    BY <2>1, PillAssumption DEF IInv, WriteOk, Answers, WritingMatches
  <2>3. n < page
    BY <2>2
  <2>. QED  BY <2>1, <2>2, <2>3 DEF IInv, WritingMatches
<1>. QED  BY <1>1, Invariance, PTL DEF Spec, OkMeansWritten
====
