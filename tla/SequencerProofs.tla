-------------------------- MODULE SequencerProofs --------------------------
(***************************************************************************)
(* Proofs about Sequencer, for all sequences that end with kEnd or kGoto.  *)
(*                                                                         *)
(* The argument: IInv is inductive.  The chunk under IPCurrentChunk always *)
(* exists because only the last chunk of a sequence may be kEnd or kGoto   *)
(* at its end and only these do not move on (NotLast); the timer is armed  *)
(* exactly by the steps that leave the handler with a sequence in play.    *)
(*                                                                         *)
(* PlaysAsWritten needs what the place and the counter say of the history: *)
(* each state has played the sequence so far for the first time, in the    *)
(* midst of its repeats, or in its endless part (Form), and every chunk    *)
(* leads from one of these to one of them (PlayInv).                       *)
(***************************************************************************)
EXTENDS Sequencer, SequenceTheorems, WellFoundedInduction, TLAPS

\* A chunk that is neither kEnd nor kGoto has a chunk behind it.
LEMMA NotLast ==
    ASSUME NEW n \in Names, NEW i \in 1..Len(Chunks[n]),
           Chunks[n][i].type \notin {"kEnd", "kGoto"}
    PROVE  i + 1 \in 1..Len(Chunks[n])
<1>1. WellFormed(Chunks[n])
  BY ChunksAssumption
<1>2. Len(Chunks[n]) \in Nat /\ i # Len(Chunks[n])
  BY <1>1 DEF WellFormed
<1> QED
  BY <1>2

\* Every chunk of a sequence is one.
LEMMA ChunkType ==
    ASSUME NEW n \in Names, NEW i \in 1..Len(Chunks[n])
    PROVE  /\ Chunks[n][i] \in Chunk
           /\ Chunks[n][i].type = "kGoto" => Chunks[n][i].value + 1 \in 1..Len(Chunks[n])
<1>1. WellFormed(Chunks[n])
  BY ChunksAssumption
<1>2. Chunks[n] \in Seq(Chunk) /\ Len(Chunks[n]) \in Nat
  BY <1>1 DEF WellFormed
<1>3. Chunks[n][i] \in Chunk
  BY <1>2
<1>4. Chunks[n][i].type = "kGoto" => Chunks[n][i].value < Len(Chunks[n])
  BY <1>1 DEF WellFormed
<1> QED
  BY <1>2, <1>3, <1>4 DEF Chunk

\* In the handler there is a sequence, a chunk of it, and no timer.
LEMMA InHandler ==
    ASSUME IInv, by # "nobody"
    PROVE  /\ start \in Names /\ start # Null
           /\ current \in 1..Len(Chunks[start])
           /\ Now \in Chunk
           /\ ~armed
<1>1. start # Null /\ start \in Names /\ ~armed
  BY DEF IInv, TypeOK, TimerFollowsSequence
<1>2. current \in 1..Len(Chunks[start])
  BY <1>1 DEF IInv, TypeOK
<1> QED
  BY <1>1, <1>2, ChunkType DEF Now

\* The first chunk exists.
LEMMA FirstChunk ==
    ASSUME NEW n \in Names
    PROVE  n # Null /\ 1 \in 1..Len(Chunks[n])
<1>1. WellFormed(Chunks[n])
  BY ChunksAssumption
<1>2. Len(Chunks[n]) \in Nat /\ Len(Chunks[n]) > 0
  BY <1>1 DEF WellFormed
<1> QED
  BY <1>2, NullAssumption

\* What a step of the handler must still show: where it leaves the sequence.
LEMMA HandlerStep ==
    ASSUME IInv, Handler
    PROVE  IInv'
<1>1. by # "nobody" /\ by \in {"main", "timer"}
  BY DEF Handler, Setup, Wait, Goto, End, Repeat, IsAt, IInv, TypeOK
<1>2. /\ start \in Names /\ start # Null
      /\ current \in 1..Len(Chunks[start])
      /\ Now \in Chunk
      /\ ~armed
  BY <1>1, InHandler
<1>3. /\ repeatCounter \in Int /\ color \in Levels /\ shown \in Seq(Levels)
      /\ main \in MainStates
      /\ main.at # "stopped" /\ main.at # "switchingOff"
      /\ armed \in BOOLEAN
  BY <1>2 DEF IInv, TypeOK, StoppedStaysDark, SwitchesOffAtRest
<1>4. Now.type \in ChunkTypes /\ Now.value \in Nat /\ Now.color \in Levels
  BY <1>2 DEF Chunk
<1>5. CASE Setup
  <2>1. start' = start /\ repeatCounter' = repeatCounter /\ main' = main /\ Now.type = "kSetup"
    BY <1>5 DEF Setup, IsAt
  <2>2. color' \in Levels
    BY <1>3, <1>4, <1>5, BoundsAssumption DEF Setup, Toward, Levels
  <2>3. CASE color' = Now.color
    <3>1. current' = current + 1 /\ armed' = armed /\ by' = by
      BY <1>5, <2>3 DEF Setup, Next1, GoesOn
    <3>2. current' \in 1..Len(Chunks[start])
      BY <1>2, <2>1, <3>1, NotLast DEF Now
    <3>3. shown' \in Seq(Levels)
      BY <1>3, <1>4, <1>5, <2>3 DEF Setup
    <3> QED
      BY <1>1, <1>2, <1>3, <2>1, <2>2, <3>1, <3>2, <3>3
         DEF IInv, TypeOK, TimerFollowsSequence, StoppedStaysDark, SwitchesOffAtRest
  <2>4. CASE color' # Now.color
    <3>1. current' = current /\ armed' = TRUE /\ by' = "nobody" /\ shown' = shown
      BY <1>5, <2>4 DEF Setup, SetupDelay
    <3> QED
      BY <1>2, <1>3, <2>1, <2>2, <3>1
         DEF IInv, TypeOK, TimerFollowsSequence, StoppedStaysDark, SwitchesOffAtRest
  <2> QED
    BY <2>3, <2>4
<1>6. CASE Wait
  <2>1. /\ start' = start /\ repeatCounter' = repeatCounter /\ main' = main
        /\ color' = color /\ shown' = shown /\ Now.type = "kWait"
        /\ current' = current + 1
    BY <1>6 DEF Wait, IsAt, Next1
  <2>2. current' \in 1..Len(Chunks[start])
    BY <1>2, <2>1, NotLast DEF Now
  <2>3. \/ armed' = TRUE /\ by' = "nobody"
        \/ armed' = armed /\ by' = by
    BY <1>6 DEF Wait, SetupDelay, GoesOn
  <2>4. armed' \in BOOLEAN /\ by' \in {"main", "timer", "nobody"} /\ (armed' <=> by' = "nobody")
    <3>1. CASE armed' = TRUE /\ by' = "nobody"
      BY <3>1
    <3>2. CASE armed' = armed /\ by' = by
      <4>1. ~armed' /\ armed' \in BOOLEAN
        BY <1>2, <1>3, <3>2
      <4>2. by' \in {"main", "timer"} /\ by' # "nobody"
        BY <1>1, <3>2
      <4> QED
        BY <4>1, <4>2
    <3> QED
      BY <2>3, <3>1, <3>2
  <2> QED
    <3>1. TypeOK'
      BY <1>2, <1>3, <2>1, <2>2, <2>4 DEF TypeOK
    <3>2. TimerFollowsSequence'
      BY <1>2, <2>1, <2>4 DEF TimerFollowsSequence
    <3>3. StoppedStaysDark' /\ SwitchesOffAtRest'
      BY <1>3, <2>1 DEF StoppedStaysDark, SwitchesOffAtRest
    <3> QED
      BY <3>1, <3>2, <3>3 DEF IInv
<1>7. CASE Goto
  <2>1. /\ start' = start /\ repeatCounter' = repeatCounter /\ main' = main
        /\ color' = color /\ shown' = shown /\ Now.type = "kGoto"
        /\ current' = 1 + Now.value /\ armed' = TRUE /\ by' = "nobody"
    BY <1>7 DEF Goto, IsAt, SetupDelay
  <2>2. Now.value + 1 \in 1..Len(Chunks[start])
    BY <1>2, <2>1, ChunkType DEF Now
  <2>3. current' \in 1..Len(Chunks[start])
    BY <1>4, <2>1, <2>2
  <2> QED
    BY <1>2, <1>3, <2>1, <2>3
       DEF IInv, TypeOK, TimerFollowsSequence, StoppedStaysDark, SwitchesOffAtRest
<1>8. CASE End
  <2>1. /\ start' = Null /\ current' = 0 /\ by' = "nobody" /\ armed' = armed
        /\ repeatCounter' = repeatCounter /\ main' = main /\ color' = color /\ shown' = shown
    BY <1>8 DEF End
  <2> QED
    BY <1>2, <1>3, <2>1
       DEF IInv, TypeOK, TimerFollowsSequence, StoppedStaysDark, SwitchesOffAtRest
<1>9. CASE Repeat
  <2>1. /\ start' = start /\ main' = main /\ armed' = armed /\ by' = by
        /\ color' = color /\ shown' = shown /\ Now.type = "kRepeat"
    BY <1>9 DEF Repeat, IsAt
  <2>2. repeatCounter' \in Int /\ (current' = current + 1 \/ current' = 1)
    BY <1>3, <1>4, <1>9 DEF Repeat, Next1
  <2>3. current' \in 1..Len(Chunks[start])
    BY <1>2, <2>1, <2>2, NotLast, FirstChunk DEF Now
  <2> QED
    BY <1>1, <1>2, <1>3, <2>1, <2>2, <2>3
       DEF IInv, TypeOK, TimerFollowsSequence, StoppedStaysDark, SwitchesOffAtRest
<1> QED
  BY <1>5, <1>6, <1>7, <1>8, <1>9 DEF Handler

\* Starting a sequence, from either call.
LEMMA BeginStep ==
    ASSUME IInv, NEW n \in Names, Begin(n)
    PROVE  IInv'
<1>1. n # Null /\ 1 \in 1..Len(Chunks[n])
  BY FirstChunk
<1>2. <<>> \in Seq(Levels) /\ color \in Levels /\ Idle \in MainStates
  BY DEF IInv, TypeOK, MainStates
<1>3. Idle.at = "idle"
  BY DEF Idle
<1>4. /\ start' = n /\ current' = 1 /\ repeatCounter' = -1 /\ armed' = FALSE
      /\ by' = "main" /\ main' = Idle /\ shown' = <<>> /\ color' = color
  BY DEF Begin
<1>5. TypeOK'
  <2>1. (start \in Names \cup {Null})' /\ (by \in {"main", "timer", "nobody"})' /\ (armed \in BOOLEAN)'
    BY <1>4
  <2>2. (IF start = Null THEN current = 0 ELSE current \in 1..Len(Chunks[start]))'
    BY <1>1, <1>4
  <2>3. (repeatCounter \in Int)'
    BY <1>4
  <2>4. (color \in Levels)' /\ (main \in MainStates)' /\ (shown \in Seq(Levels))'
    BY <1>2, <1>4
  <2> QED
    BY <2>1, <2>2, <2>3, <2>4 DEF TypeOK
<1>6. TimerFollowsSequence'
  BY <1>1, <1>4 DEF TimerFollowsSequence
<1>7. StoppedStaysDark' /\ SwitchesOffAtRest'
  BY <1>3, <1>4 DEF StoppedStaysDark, SwitchesOffAtRest
<1> QED
  BY <1>5, <1>6, <1>7 DEF IInv

\* The timer's interrupt.
LEMMA TimerStep ==
    ASSUME IInv, TimerFires
    PROVE  IInv'
<1>1. start # Null /\ armed /\ by = "nobody"
  BY DEF TimerFires, IInv, TimerFollowsSequence
<1> QED
  BY <1>1 DEF TimerFires, IInv, TypeOK, TimerFollowsSequence, StoppedStaysDark, SwitchesOffAtRest

\* The places of the main loop are states of it.
LEMMA Places ==
    /\ At("stopping") \in MainStates /\ At("switchingOff") \in MainStates
    /\ At("stopped") \in MainStates /\ Idle \in MainStates
    /\ At("stopping").at = "stopping" /\ At("switchingOff").at = "switchingOff"
    /\ At("stopped").at = "stopped" /\ Idle.at = "idle"
    /\ \A n \in Names : [at |-> "differs", arg |-> n] \in MainStates
  BY DEF At, Idle, MainStates

\* The other steps of the main loop's calls.
LEMMA CallStep ==
    ASSUME IInv, InCall \/ Call
    PROVE  IInv'
<1>1. CASE ContinueStarts
  <2>1. main \in MainStates /\ main.at = "differs"
    BY <1>1 DEF ContinueStarts, IInv, TypeOK
  <2>2. main.arg \in Names
    BY <2>1 DEF MainStates, Idle
  <2> QED
    BY <1>1, <2>2, BeginStep DEF ContinueStarts
<1>2. CASE StopReset
  BY <1>2, Places
     DEF StopReset, IInv, TypeOK, TimerFollowsSequence, StoppedStaysDark, SwitchesOffAtRest
<1>3. CASE SwitchOff
  <2>1. Black \in Levels
    BY BoundsAssumption DEF Black, Levels
  <2>2. main.at = "switchingOff" /\ start = Null /\ ~armed
    BY <1>3, Places DEF SwitchOff, IInv, SwitchesOffAtRest
  <2> QED
    BY <1>3, <2>1, <2>2, Places
       DEF SwitchOff, tape, IInv, TypeOK, TimerFollowsSequence, StoppedStaysDark, SwitchesOffAtRest
<1>4. CASE \E n \in Names : StartOrRestart(n)
  BY <1>4, BeginStep DEF StartOrRestart
<1>5. CASE \E n \in Names : ContinueSame(n)
  BY <1>5, Places
     DEF ContinueSame, tape, IInv, TypeOK, TimerFollowsSequence, StoppedStaysDark, SwitchesOffAtRest
<1>6. CASE \E n \in Names : ContinueDiffers(n)
  <2>1. PICK n \in Names : ContinueDiffers(n)
    BY <1>6
  <2>2. main' = [at |-> "differs", arg |-> n] /\ main' \in MainStates /\ main'.at = "differs"
    BY <2>1, Places DEF ContinueDiffers
  <2> QED
    BY <2>1, <2>2
       DEF ContinueDiffers, tape, IInv, TypeOK, TimerFollowsSequence, StoppedStaysDark, SwitchesOffAtRest
<1>7. CASE StopTest
  <2>1. start = Null => ~armed
    BY DEF IInv, TimerFollowsSequence
  <2>2. \/ main' = At("stopping")
        \/ main' = At("switchingOff") /\ start = Null
    BY <1>7 DEF StopTest
  <2> QED
    BY <1>7, <2>1, <2>2, Places
       DEF StopTest, tape, IInv, TypeOK, TimerFollowsSequence, StoppedStaysDark, SwitchesOffAtRest
<1> QED
  BY <1>1, <1>2, <1>3, <1>4, <1>5, <1>6, <1>7 DEF InCall, Call

\* IInv holds at the start and after every step.
THEOREM Invariance == Spec => []IInv
<1>1. Init => IInv
  <2> SUFFICES ASSUME Init PROVE IInv
    OBVIOUS
  <2>1. Black \in Levels
    BY BoundsAssumption DEF Black, Levels
  <2>2. shown \in Seq(Levels) /\ main \in MainStates /\ color \in Levels
    BY <2>1, Places DEF Init
  <2>3. repeatCounter \in Int
    BY DEF Init
  <2>4. TypeOK
    BY <2>2, <2>3 DEF Init, TypeOK
  <2>5. TimerFollowsSequence /\ StoppedStaysDark /\ SwitchesOffAtRest
    BY Places DEF Init, TimerFollowsSequence, StoppedStaysDark, SwitchesOffAtRest
  <2> QED
    BY <2>4, <2>5 DEF IInv
<1>2. IInv /\ [Next]_vars => IInv'
  <2> SUFFICES ASSUME IInv, [Next]_vars PROVE IInv'
    OBVIOUS
  <2>1. CASE UNCHANGED vars
    <3>1. /\ start' = start /\ current' = current /\ repeatCounter' = repeatCounter
          /\ armed' = armed /\ color' = color /\ by' = by /\ main' = main /\ shown' = shown
      BY <2>1 DEF vars
    <3>2. TypeOK'
      BY <3>1 DEF IInv, TypeOK
    <3>3. TimerFollowsSequence'
      BY <3>1 DEF IInv, TimerFollowsSequence
    <3>4. StoppedStaysDark' /\ SwitchesOffAtRest'
      BY <3>1 DEF IInv, StoppedStaysDark, SwitchesOffAtRest
    <3> QED
      BY <3>2, <3>3, <3>4 DEF IInv
  <2> QED
    BY <2>1, HandlerStep, TimerStep, CallStep DEF Next
<1> QED
  BY <1>1, <1>2, PTL DEF Spec

\* IPCurrentChunk always points into the sequence at IPStartChunk, or both
\* are null; the handler never reads past the end.
THEOREM TypeCorrect == Spec => []TypeOK
<1>1. IInv => TypeOK
  BY DEF IInv
<1> QED
  BY <1>1, Invariance, PTL

\* A sequence is in play exactly while the timer or the handler will go on
\* with it.
THEOREM TimerAlwaysFollows == Spec => []TimerFollowsSequence
<1>1. IInv => TimerFollowsSequence
  BY DEF IInv
<1> QED
  BY <1>1, Invariance, PTL

\* After Stop the LED is dark and cannot light up by itself.
THEOREM StopIsFinal == Spec => []StoppedStaysDark
<1>1. IInv => StoppedStaysDark
  BY DEF IInv
<1> QED
  BY <1>1, Invariance, PTL

-----------------------------------------------------------------------------
(* What a sequence means.  The definitions are recursive functions on an   *)
(* interval of numbers; what holds at its first and with each number at    *)
(* the next holds on all of it (Upward), and such a function exists        *)
(* because it does on each shorter interval (Iterates).                    *)

LEMMA Upward ==
  ASSUME NEW n \in Nat, NEW S, 0 \in S, \A k \in 1..n : k - 1 \in S => k \in S
  PROVE  \A k \in 0..n : k \in S
<1>. DEFINE T == (0..n) \ S
            R == OpToRel(<, Nat)
<1>1. SUFFICES ASSUME T # {} PROVE FALSE
  OBVIOUS
<1>2. IsWellFoundedOn(R, Nat) /\ \A x, y \in Nat : <<y, x>> \in R <=> y < x
  BY NatLessThanWellFounded DEF OpToRel
<1>3. T \subseteq Nat
  OBVIOUS
<1>4. PICK x \in T : \A y \in T : ~ (<<y, x>> \in R)
  <2>. HIDE DEF R, T
  <2>. QED  BY <1>1, <1>2, <1>3, WFMin
<1>5. x \in 1..n /\ x - 1 \in 0..n /\ x - 1 \in Nat /\ x - 1 < x /\ x \in Nat
  <2>1. x \in 0..n /\ x # 0
    BY <1>4
  <2>. QED  BY <2>1
<1>6. x - 1 \notin T
  <2>. HIDE DEF R
  <2>. QED  BY <1>2, <1>4, <1>5
<1>. QED  BY <1>4, <1>5, <1>6

KeepsTo(G, X, n) == \A x \in X, k \in 1..n : G[<<x, k>>] \in X
Iterated(f, x0, G, n) == f[0] = x0 /\ \A k \in 1..n : f[k] = G[<<f[k - 1], k>>]

LEMMA Iterates ==
  ASSUME NEW X, NEW x0 \in X, NEW n \in Nat, NEW G, KeepsTo(G, X, n)
  PROVE  \E f \in [0..n -> X] : Iterated(f, x0, G, n)
<1>. DEFINE S == {m \in 0..n : \E f \in [0..m -> X] : Iterated(f, x0, G, m)}
<1>1. 0 \in S
  <2>. DEFINE f == [i \in 0..0 |-> x0]
  <2>1. f \in [0..0 -> X] /\ Iterated(f, x0, G, 0) /\ 0 \in 0..n
    BY DEF Iterated
  <2>. HIDE DEF f
  <2>. QED  BY <2>1
<1>2. ASSUME NEW m \in 1..n, m - 1 \in S PROVE m \in S
  <2>1. PICK f \in [0..(m - 1) -> X] : Iterated(f, x0, G, m - 1)
    BY <1>2
  <2>. DEFINE g == [i \in 0..m |-> IF i = m THEN G[<<f[m - 1], m>>] ELSE f[i]]
  <2>2. \A i \in 0..m : i # m => i \in 0..(m - 1)
    OBVIOUS
  <2>3. f[m - 1] \in X /\ G[<<f[m - 1], m>>] \in X
    BY DEF KeepsTo
  <2>4. g \in [0..m -> X]
    BY <2>2, <2>3
  <2>5. g[0] = x0
    BY <2>1 DEF Iterated
  <2>6. ASSUME NEW k \in 1..m PROVE g[k] = G[<<g[k - 1], k>>]
    <3>1. k - 1 \in 0..m /\ k - 1 # m /\ g[k - 1] = f[k - 1]
      OBVIOUS
    <3>2. CASE k = m
      BY <3>1, <3>2
    <3>3. CASE k # m
      <4>1. k \in 1..(m - 1) /\ g[k] = f[k]
        BY <3>3
      <4>2. f[k] = G[<<f[k - 1], k>>]
        BY <2>1, <4>1 DEF Iterated
      <4>. HIDE DEF g
      <4>. QED  BY <3>1, <4>1, <4>2
    <3>. QED  BY <3>2, <3>3
  <2>. HIDE DEF g
  <2>. QED  BY <2>4, <2>5, <2>6 DEF Iterated
<1>3. n \in S
  <2>. HIDE DEF S
  <2>. QED  BY <1>1, <1>2, Upward
<1>. QED  BY <1>3

Shows == Seq(Levels)

\* Times, one time more.
LEMMA TimesIs ==
  ASSUME NEW s \in Shows
  PROVE  /\ Times(s, 0) = <<>>
         /\ \A n \in Nat : Times(s, n) \in Shows /\ Times(s, n + 1) = Times(s, n) \o s
<1>. DEFINE Eqn(f, n) == f = [i \in 0..n |-> IF i = 0 THEN <<>> ELSE f[i - 1] \o s]
            F(n) == CHOOSE f : Eqn(f, n)
<1>1. \A n \in Nat : Times(s, n) = F(n)[n]
  BY DEF Times
<1>2. <<>> \in Shows /\ \A x \in Shows : x \o s \in Shows
  BY ConcatProperties, EmptySeq DEF Shows
<1>3. ASSUME NEW n \in Nat PROVE Eqn(F(n), n)
  <2>. DEFINE G == [p \in Shows \X (1..n) |-> p[1] \o s]
  <2>1. \A x \in Shows, k \in 1..n : G[<<x, k>>] = x \o s
    OBVIOUS
  <2>2. PICK f \in [0..n -> Shows] : Iterated(f, <<>>, G, n)
    <3>1. KeepsTo(G, Shows, n)
      BY <1>2, <2>1 DEF KeepsTo
    <3>. HIDE DEF G
    <3>. QED  BY <1>2, <3>1, Iterates
  <2>3. \A k \in 1..n : f[k] = f[k - 1] \o s
    <3>. HIDE DEF G
    <3>1. \A k \in 1..n : f[k - 1] \in Shows
      OBVIOUS
    <3>. QED  BY <2>1, <2>2, <3>1 DEF Iterated
  <2>4. \A i \in 0..n : f[i] = IF i = 0 THEN <<>> ELSE f[i - 1] \o s
    BY <2>2, <2>3 DEF Iterated
  <2>5. Eqn(f, n)
    BY <2>4
  <2>. HIDE DEF Eqn
  <2>. QED  BY <2>5
<1>4. \A n \in Nat : F(n)[0] = <<>> /\ \A i \in 1..n : F(n)[i] = F(n)[i - 1] \o s
  <2>. SUFFICES ASSUME NEW n \in Nat PROVE F(n)[0] = <<>> /\ \A i \in 1..n : F(n)[i] = F(n)[i - 1] \o s
    OBVIOUS
  <2>1. PICK f : f = F(n)
    OBVIOUS
  <2>2. f = [i \in 0..n |-> IF i = 0 THEN <<>> ELSE f[i - 1] \o s]
    BY <1>3, <2>1
  <2>3. \A i \in 0..n : f[i] = IF i = 0 THEN <<>> ELSE f[i - 1] \o s
    BY <2>2, Zenon
  <2>4. 0 \in 0..n /\ \A i \in 1..n : i \in 0..n /\ i # 0
    OBVIOUS
  <2>5. f[0] = <<>>
    BY <2>3, <2>4, Zenon
  <2>6. \A i \in 1..n : f[i] = f[i - 1] \o s
    BY <2>3, <2>4, Zenon
  <2>. HIDE DEF F
  <2>. QED  BY <2>1, <2>5, <2>6
<1>. HIDE DEF F, Eqn
<1>5. ASSUME NEW n \in Nat PROVE F(n)[n] \in Shows
  <2>. DEFINE S == {i \in 0..n : F(n)[i] \in Shows}
  <2>1. 0 \in S
    <3>1. F(n)[0] = <<>> /\ 0 \in 0..n
      BY <1>4
    <3>. QED  BY <1>2, <3>1
  <2>2. ASSUME NEW k \in 1..n, k - 1 \in S PROVE k \in S
    <3>1. F(n)[k] = F(n)[k - 1] \o s /\ F(n)[k - 1] \in Shows /\ k \in 0..n
      BY <1>4, <2>2
    <3>. QED  BY <1>2, <3>1
  <2>3. n \in S
    <3>. HIDE DEF S
    <3>. QED  BY <2>1, <2>2, Upward
  <2>. QED  BY <2>3
<1>6. ASSUME NEW n \in Nat PROVE F(n + 1)[n] = F(n)[n]
  <2>. DEFINE S == {i \in 0..n : F(n + 1)[i] = F(n)[i]}
  <2>1. 0 \in S
    BY <1>4
  <2>2. ASSUME NEW k \in 1..n, k - 1 \in S PROVE k \in S
    <3>1. k \in 1..(n + 1) /\ n + 1 \in Nat /\ k \in 0..n
      OBVIOUS
    <3>2. F(n + 1)[k] = F(n + 1)[k - 1] \o s /\ F(n)[k] = F(n)[k - 1] \o s
      BY <1>4, <3>1
    <3>. QED  BY <2>2, <3>1, <3>2
  <2>3. n \in S
    <3>. HIDE DEF S
    <3>. QED  BY <2>1, <2>2, Upward
  <2>. QED  BY <2>3
<1>7. ASSUME NEW n \in Nat PROVE Times(s, n + 1) = Times(s, n) \o s
  <2>1. n + 1 \in Nat /\ n + 1 \in 1..(n + 1) /\ (n + 1) - 1 = n
    OBVIOUS
  <2>2. F(n + 1)[n + 1] = F(n + 1)[n] \o s
    BY <1>4, <2>1
  <2>. QED  BY <1>1, <1>6, <2>1, <2>2
<1>. QED  BY <1>1, <1>4, <1>5, <1>7

LEMMA OneMore ==
  ASSUME NEW s \in Shows, NEW k \in Nat
  PROVE  Times(s, k) \in Shows /\ Times(s, k + 1) \in Shows /\ Times(s, k + 1) = Times(s, k) \o s
<1>1. k + 1 \in Nat
  OBVIOUS
<1>. QED  BY <1>1, TimesIs

LEMMA ConcatType == \A x, y \in Shows : x \o y \in Shows
BY ConcatProperties DEF Shows

LEMMA Associative == \A x, y, z \in Shows : (x \o y) \o z = x \o (y \o z)
BY ConcatAssociative DEF Shows

\* s is the beginning of t.
Begins(s, t) == \E u \in Shows : t = s \o u

LEMMA BeginsIs ==
  ASSUME NEW s \in Shows, NEW t \in Shows
  PROVE  /\ Begins(s, s) /\ Begins(s, s \o t)
         /\ Begins(s, t) => IsPrefix(s, t)
         /\ Begins(s, t) => \A r \in Shows : Begins(t, r) => Begins(s, r)
         /\ Begins(s, t) => \A r \in Shows : Begins(r \o s, r \o t)
<1>1. Begins(s, s)
  <2>1. <<>> \in Shows /\ s = s \o <<>>
    BY ConcatEmptySeq, EmptySeq DEF Shows
  <2>. QED  BY <2>1 DEF Begins
<1>2. Begins(s, s \o t)
  BY DEF Begins
<1>3. ASSUME NEW u \in Shows, t = s \o u PROVE IsPrefix(s, t)
  <2>. DEFINE m == Len(s)
  <2>1. m \in Nat /\ m <= Len(t) /\ \A i \in 1..m : s[i] = t[i]
    BY <1>3, ConcatProperties, LenProperties DEF Shows
  <2>2. SubSeq(s, 1, m) = [i \in 1..m |-> s[i]] /\ SubSeq(t, 1, m) = [i \in 1..m |-> t[i]]
    BY <2>1
  <2>3. SubSeq(s, 1, m) = SubSeq(t, 1, m)
    BY <2>1, <2>2
  <2>. QED  BY <2>1, <2>3 DEF IsPrefix
<1>4. ASSUME NEW u \in Shows, t = s \o u, NEW r \in Shows, NEW v \in Shows, r = t \o v
      PROVE  Begins(s, r)
  <2>1. u \o v \in Shows /\ r = s \o (u \o v)
    BY <1>4, ConcatProperties, ConcatAssociative DEF Shows
  <2>. QED  BY <2>1 DEF Begins
<1>5. ASSUME NEW u \in Shows, t = s \o u, NEW r \in Shows
      PROVE  Begins(r \o s, r \o t)
  <2>1. r \o t = (r \o s) \o u
    BY <1>5, ConcatAssociative DEF Shows
  <2>. QED  BY <2>1 DEF Begins
<1>. QED  BY <1>1, <1>2, <1>3, <1>4, <1>5 DEF Begins

LEMMA TimesBegins ==
  ASSUME NEW s \in Shows, NEW n \in Nat
  PROVE  /\ Times(s, 1) = s
         /\ \A j \in 0..n : Begins(Times(s, j), Times(s, n))
         /\ s = <<>> => Times(s, n) = <<>>
         /\ s # <<>> => Len(Times(s, n)) >= n
<1>. DEFINE T(k) == Times(s, k)
<1>1. T(0) = <<>> /\ \A k \in Nat : T(k) \in Shows /\ T(k + 1) = T(k) \o s
  BY TimesIs
<1>2. \A k \in 1..n : k \in Nat /\ k - 1 \in Nat /\ T(k) = T(k - 1) \o s
  <2>. SUFFICES ASSUME NEW k \in 1..n PROVE k \in Nat /\ k - 1 \in Nat /\ T(k) = T(k - 1) \o s
    OBVIOUS
  <2>1. k \in Nat /\ k - 1 \in Nat /\ (k - 1) + 1 = k
    OBVIOUS
  <2>. HIDE DEF T
  <2>. QED  BY <1>1, <2>1
<1>. HIDE DEF T
<1>3. T(1) = s
  <2>1. 0 \in Nat /\ 0 + 1 = 1
    OBVIOUS
  <2>2. T(1) = T(0) \o s
    BY <1>1, <2>1
  <2>3. <<>> \o s = s
    BY ConcatEmptySeq DEF Shows
  <2>. QED  BY <1>1, <2>2, <2>3
<1>4. ASSUME NEW j \in 0..n PROVE Begins(T(j), T(n))
  <2>. DEFINE S == {k \in 0..n : j <= k => Begins(T(j), T(k))}
  <2>1. T(j) \in Shows /\ Begins(T(j), T(j))
    <3>1. j \in Nat /\ T(j) \in Shows
      BY <1>1
    <3>. QED  BY <3>1, BeginsIs
  <2>2. 0 \in S
    <3>1. j <= 0 => j = 0
      OBVIOUS
    <3>. QED  BY <2>1, <3>1
  <2>3. ASSUME NEW k \in 1..n, k - 1 \in S PROVE k \in S
    <3>1. CASE j <= k - 1
      <4>1. Begins(T(j), T(k - 1)) /\ T(k - 1) \in Shows /\ T(k) \in Shows
        BY <1>1, <1>2, <2>3, <3>1
      <4>2. Begins(T(k - 1), T(k))
        <5>1. Begins(T(k - 1), T(k - 1) \o s)
          BY <4>1, BeginsIs
        <5>. QED  BY <1>2, <5>1
      <4>3. Begins(T(j), T(k))
        BY <2>1, <4>1, <4>2, BeginsIs
      <4>. QED  BY <4>3
    <3>2. CASE j = k
      BY <2>1, <3>2
    <3>3. CASE j > k
      BY <3>3
    <3>. QED  BY <3>1, <3>2, <3>3
  <2>4. n \in S
    <3>. HIDE DEF S
    <3>. QED  BY <2>2, <2>3, Upward
  <2>. QED  BY <2>4
<1>5. ASSUME s = <<>> PROVE T(n) = <<>>
  <2>. DEFINE S == {k \in 0..n : T(k) = <<>>}
  <2>1. 0 \in S
    BY <1>1
  <2>2. ASSUME NEW k \in 1..n, k - 1 \in S PROVE k \in S
    <3>1. T(k) = <<>> \o <<>> /\ <<>> \o <<>> = <<>>
      BY <1>2, <1>5, <2>2, ConcatEmptySeq, EmptySeq
    <3>. QED  BY <3>1
  <2>3. n \in S
    <3>. HIDE DEF S
    <3>. QED  BY <2>1, <2>2, Upward
  <2>. QED  BY <2>3
<1>6. ASSUME s # <<>> PROVE Len(T(n)) >= n
  <2>. DEFINE S == {k \in 0..n : Len(T(k)) >= k}
  <2>1. 0 \in S
    BY <1>1
  <2>2. ASSUME NEW k \in 1..n, k - 1 \in S PROVE k \in S
    <3>1. Len(s) \in Nat \ {0} /\ T(k - 1) \in Shows
      BY <1>1, <1>2, <1>6, EmptySeq DEF Shows
    <3>2. Len(T(k)) = Len(T(k - 1)) + Len(s) /\ Len(T(k - 1)) \in Nat
      BY <1>2, <3>1, ConcatProperties, LenProperties DEF Shows
    <3>. QED  BY <2>2, <3>1, <3>2
  <2>3. n \in S
    <3>. HIDE DEF S
    <3>. QED  BY <2>1, <2>2, Upward
  <2>. QED  BY <2>3
<1>. QED  BY <1>3, <1>4, <1>5, <1>6 DEF T

LEMMA AddsIs ==
  ASSUME NEW x \in Shows, NEW c \in Chunk
  PROVE  /\ Adds(x, c) \in Shows /\ Begins(x, Adds(x, c))
         /\ c.type = "kSetup" => Adds(x, c) = Append(x, c.color)
         /\ c.type \in {"kWait", "kGoto", "kEnd"} => Adds(x, c) = x
         /\ c.type = "kRepeat" => Adds(x, c) = Times(x, c.value + 1)
<1>1. c.type \in ChunkTypes /\ c.value \in Nat /\ c.color \in Levels
  BY DEF Chunk
<1>2. Append(x, c.color) \in Shows /\ Begins(x, Append(x, c.color))
  <2>1. <<c.color>> \in Shows /\ Append(x, c.color) = x \o <<c.color>>
    BY <1>1, AppendIsConcat DEF Shows
  <2>2. x \o <<c.color>> \in Shows /\ Begins(x, x \o <<c.color>>)
    BY <2>1, BeginsIs, ConcatProperties DEF Shows
  <2>. QED  BY <2>1, <2>2
<1>3. Times(x, c.value + 1) \in Shows /\ Begins(x, Times(x, c.value + 1))
  <2>1. c.value + 1 \in Nat /\ 1 \in 0..c.value + 1
    BY <1>1
  <2>. QED  BY <2>1, TimesIs, TimesBegins
<1>4. Begins(x, x)
  BY BeginsIs
<1>. QED  BY <1>1, <1>2, <1>3, <1>4 DEF Adds, ChunkTypes

LEMMA UpToIs ==
  ASSUME NEW s \in Seq(Chunk)
  PROVE  /\ UpTo(s)[0] = <<>>
         /\ \A i \in 0..Len(s) : UpTo(s)[i] \in Shows
         /\ \A i \in 1..Len(s) : UpTo(s)[i] = Adds(UpTo(s)[i - 1], s[i])
         /\ \A j \in 0..Len(s) : \A i \in 0..j : Begins(UpTo(s)[i], UpTo(s)[j])
<1>. DEFINE L == Len(s)
            Eqn(f) == f = [i \in 0..L |-> IF i = 0 THEN <<>> ELSE Adds(f[i - 1], s[i])]
<1>1. L \in Nat /\ \A i \in 1..L : s[i] \in Chunk
  OBVIOUS
<1>2. <<>> \in Shows /\ \A x \in Shows, i \in 1..L : Adds(x, s[i]) \in Shows
  BY <1>1, AddsIs, EmptySeq DEF Shows
<1>. HIDE DEF L
<1>3. \E f : Eqn(f)
  <2>. DEFINE G == [p \in Shows \X (1..L) |-> Adds(p[1], s[p[2]])]
  <2>1. \A x \in Shows, k \in 1..L : G[<<x, k>>] = Adds(x, s[k])
    OBVIOUS
  <2>. HIDE DEF G
  <2>2. PICK f \in [0..L -> Shows] : Iterated(f, <<>>, G, L)
    <3>1. KeepsTo(G, Shows, L)
      BY <1>2, <2>1 DEF KeepsTo
    <3>. QED  BY <1>1, <1>2, <3>1, Iterates
  <2>3. \A k \in 1..L : f[k] = Adds(f[k - 1], s[k])
    <3>1. \A k \in 1..L : f[k - 1] \in Shows
      BY <1>1
    <3>. QED  BY <2>1, <2>2, <3>1 DEF Iterated
  <2>4. \A i \in 0..L : f[i] = IF i = 0 THEN <<>> ELSE Adds(f[i - 1], s[i])
    BY <1>1, <2>2, <2>3 DEF Iterated
  <2>5. Eqn(f)
    BY <2>4
  <2>. HIDE DEF Eqn
  <2>. QED  BY <2>5
<1>4. Eqn(UpTo(s))
  <2>1. UpTo(s) = CHOOSE f : Eqn(f)
    BY DEF UpTo, L
  <2>. HIDE DEF Eqn
  <2>. QED  BY <1>3, <2>1
<1>. DEFINE M == UpTo(s)
<1>. HIDE DEF M
<1>5. \A i \in 0..L : M[i] = IF i = 0 THEN <<>> ELSE Adds(M[i - 1], s[i])
  BY <1>4, Zenon DEF M
<1>6. 0 \in 0..L /\ \A i \in 1..L : i \in 0..L /\ i # 0 /\ i - 1 \in 0..L
  BY <1>1
<1>. HIDE DEF Eqn
<1>7. M[0] = <<>>
  BY <1>5, <1>6, Zenon
<1>8. \A i \in 1..L : M[i] = Adds(M[i - 1], s[i])
  BY <1>5, <1>6, Zenon
<1>9. \A i \in 0..L : M[i] \in Shows
  <2>. DEFINE S == {i \in 0..L : M[i] \in Shows}
  <2>1. 0 \in S
    BY <1>2, <1>6, <1>7
  <2>2. ASSUME NEW k \in 1..L, k - 1 \in S PROVE k \in S
    BY <1>2, <1>6, <1>8, <2>2
  <2>3. \A i \in 0..L : i \in S
    <3>. HIDE DEF S
    <3>. QED  BY <1>1, <2>1, <2>2, Upward
  <2>. QED  BY <2>3
<1>10. ASSUME NEW i \in 0..L PROVE \A j \in 0..L : i <= j => Begins(M[i], M[j])
  <2>. DEFINE S == {j \in 0..L : i <= j => Begins(M[i], M[j])}
  <2>1. M[i] \in Shows /\ Begins(M[i], M[i])
    BY <1>9, BeginsIs
  <2>2. 0 \in S
    <3>1. i <= 0 => i = 0
      OBVIOUS
    <3>. QED  BY <1>6, <2>1, <3>1
  <2>3. ASSUME NEW k \in 1..L, k - 1 \in S PROVE k \in S
    <3>1. CASE i <= k - 1
      <4>1. Begins(M[i], M[k - 1]) /\ M[k - 1] \in Shows /\ M[k] \in Shows /\ s[k] \in Chunk
        BY <1>1, <1>6, <1>9, <2>3, <3>1
      <4>2. Begins(M[k - 1], M[k])
        BY <1>8, <4>1, AddsIs
      <4>3. Begins(M[i], M[k])
        BY <2>1, <4>1, <4>2, BeginsIs
      <4>. QED  BY <1>6, <4>3
    <3>2. CASE i = k
      BY <2>1, <3>2
    <3>3. CASE i > k
      BY <1>6, <3>3
    <3>. QED  BY <1>1, <3>1, <3>2, <3>3
  <2>4. \A j \in 0..L : j \in S
    <3>. HIDE DEF S
    <3>. QED  BY <1>1, <2>2, <2>3, Upward
  <2>. QED  BY <2>4
<1>11. \A j \in 0..L : \A i \in 0..j : i \in 0..L /\ i <= j
  BY <1>1
<1>. QED  BY <1>7, <1>8, <1>9, <1>10, <1>11 DEF M, L

-----------------------------------------------------------------------------
(* What is shown, by a sequence of the documented form (Plain).            *)

\* The three ways in which sequence s, at chunk c with the counter r, can
\* have shown sh: for the first time, in a repeat, in its endless part.
First(s, c, r, sh) == r = -1 /\ sh = UpTo(s)[c - 1]
Repeating(s, c, r, sh) ==
  \E i \in 1..Len(s) :
     /\ s[i].type = "kRepeat" /\ c <= i /\ r \in 0..s[i].value - 1
     /\ sh = Times(UpTo(s)[i - 1], s[i].value - r) \o UpTo(s)[c - 1]
Circling(s, c, r, sh) ==
  /\ r = -1 /\ Last(s).type = "kGoto" /\ c > Last(s).value
  /\ \E j \in 0..MaxShown - 1 :
        sh = Means(s) \o (Times(Circle(s), j) \o UpTo(Part(s))[c - 1 - Last(s).value])
Form(s, c, r, sh) == First(s, c, r, sh) \/ Repeating(s, c, r, sh) \/ Circling(s, c, r, sh)

Fits(s) == WellFormed(s) /\ PlainSequence(s)

LEMMA PartIs ==
  ASSUME NEW s, Fits(s), Last(s).type = "kGoto"
  PROVE  /\ Last(s) = s[Len(s)] /\ Last(s).value \in 0..Len(s) - 1
         /\ Part(s) \in Seq(Chunk) /\ Len(Part(s)) = Len(s) - Last(s).value
         /\ \A i \in 1..Len(s) - Last(s).value : Part(s)[i] = s[Last(s).value + i]
<1>. DEFINE L == Len(s)
            t == Last(s).value
<1>1. L \in Nat /\ L > 0 /\ (\A i \in 1..L : s[i] \in Chunk) /\ Last(s) = s[L]
  BY DEF Fits, WellFormed, Last
<1>2. t \in Nat /\ t < L
  <2>1. s[L] \in Chunk /\ s[L].type = "kGoto"
    BY <1>1
  <2>2. s[L].value < L
    BY <1>1, <2>1 DEF Fits, WellFormed
  <2>. QED  BY <1>1, <2>1, <2>2 DEF Chunk
<1>. HIDE DEF L, t
<1>3. /\ SubSeq(s, t + 1, L) \in Seq(Chunk) /\ Len(SubSeq(s, t + 1, L)) = L - t
      /\ \A i \in 1..L - t : SubSeq(s, t + 1, L)[i] = s[t + i]
  <2>1. t + 1 \in Int /\ L \in Int /\ \A i \in t + 1..L : s[i] \in Chunk
    BY <1>1, <1>2
  <2>2. /\ SubSeq(s, t + 1, L) \in Seq(Chunk)
        /\ Len(SubSeq(s, t + 1, L)) = IF t + 1 <= L THEN L - (t + 1) + 1 ELSE 0
        /\ \A i \in 1..L - (t + 1) + 1 : SubSeq(s, t + 1, L)[i] = s[t + 1 + i - 1]
    BY <2>1, SubSeqProperties
  <2>3. /\ t + 1 <= L /\ L - (t + 1) + 1 = L - t
        /\ \A i \in 1..L - t : i \in 1..L - (t + 1) + 1 /\ t + 1 + i - 1 = t + i
    BY <1>1, <1>2
  <2>4. Len(SubSeq(s, t + 1, L)) = L - t
    BY <2>2, <2>3
  <2>5. ASSUME NEW i \in 1..L - t PROVE SubSeq(s, t + 1, L)[i] = s[t + i]
    <3>1. i \in 1..L - (t + 1) + 1 /\ t + 1 + i - 1 = t + i
      BY <2>3
    <3>2. SubSeq(s, t + 1, L)[i] = s[t + 1 + i - 1]
      BY <2>2, <3>1
    <3>. QED  BY <3>1, <3>2
  <2>. QED  BY <2>2, <2>4, <2>5
<1>. QED  BY <1>1, <1>2, <1>3 DEF Part, L, t

\* What a plain sequence means, in terms of its parts.
LEMMA MeaningIs ==
  ASSUME NEW s, Fits(s)
  PROVE  /\ Len(s) \in Nat \ {0}
         /\ \A i \in 0..Len(s) : UpTo(s)[i] \in Shows
         /\ Means(s) \in Shows /\ Circle(s) \in Shows
         /\ \A j \in Nat : Times(Circle(s), j) \in Shows
         /\ Meaning(s) \in Shows /\ Begins(Means(s), Meaning(s))
<1>1. s \in Seq(Chunk) /\ Len(s) \in Nat /\ Len(s) > 0
  BY DEF Fits, WellFormed
<1>2. \A i \in 0..Len(s) : UpTo(s)[i] \in Shows
  BY <1>1, UpToIs
<1>3. Means(s) \in Shows
  BY <1>1, <1>2 DEF Means
<1>4. Circle(s) \in Shows
  <2>1. CASE Last(s).type = "kGoto"
    <3>1. Part(s) \in Seq(Chunk) /\ Len(Part(s)) \in Nat
      BY <2>1, PartIs
    <3>2. UpTo(Part(s))[Len(Part(s))] \in Shows
      BY <3>1, UpToIs
    <3>. QED  BY <2>1, <3>2 DEF Circle, Means
  <2>2. CASE Last(s).type # "kGoto"
    BY <2>2, EmptySeq DEF Circle, Shows
  <2>. QED  BY <2>1, <2>2
<1>5. \A j \in Nat : Times(Circle(s), j) \in Shows
  BY <1>4, TimesIs
<1>6. Meaning(s) \in Shows /\ Begins(Means(s), Meaning(s))
  <2>1. Times(Circle(s), MaxShown) \in Shows
    BY <1>5, BoundsAssumption
  <2>. HIDE DEF Shows
  <2>2. Meaning(s) = Means(s) \o Times(Circle(s), MaxShown)
    BY DEF Meaning
  <2>3. Means(s) \o Times(Circle(s), MaxShown) \in Shows
    BY <1>3, <2>1, ConcatProperties DEF Shows
  <2>4. Begins(Means(s), Means(s) \o Times(Circle(s), MaxShown))
    BY <1>3, <2>1, BeginsIs
  <2>. QED  BY <2>2, <2>3, <2>4
<1>. QED  BY <1>1, <1>2, <1>3, <1>4, <1>5, <1>6

\* Whatever has been shown is the beginning of what is meant.
LEMMA FormBegins ==
  ASSUME NEW s, Fits(s), NEW c \in 1..Len(s), NEW r, NEW sh \in Shows, Form(s, c, r, sh)
  PROVE  Begins(sh, Meaning(s))
<1>. DEFINE M == UpTo(s)
<1>1. /\ s \in Seq(Chunk) /\ Len(s) \in Nat \ {0} /\ c - 1 \in 0..Len(s) /\ Len(s) \in 0..Len(s)
      /\ \A i \in 1..Len(s) : s[i] \in Chunk
      /\ Means(s) = M[Len(s)]
      /\ Means(s) \in Shows /\ Meaning(s) \in Shows /\ Begins(Means(s), Meaning(s))
  BY MeaningIs DEF Fits, WellFormed, Means
<1>2. \A i \in 0..Len(s) : M[i] \in Shows /\ Begins(M[i], Meaning(s))
  <2>. SUFFICES ASSUME NEW i \in 0..Len(s) PROVE M[i] \in Shows /\ Begins(M[i], Meaning(s))
    OBVIOUS
  <2>1. M[i] \in Shows /\ Begins(M[i], M[Len(s)])
    BY <1>1, UpToIs
  <2>. HIDE DEF M
  <2>. QED  BY <1>1, <2>1, BeginsIs
<1>3. CASE First(s, c, r, sh)
  BY <1>1, <1>2, <1>3 DEF First
<1>4. CASE Repeating(s, c, r, sh)
  <2>1. PICK i \in 1..Len(s) :
          /\ s[i].type = "kRepeat" /\ c <= i /\ r \in 0..s[i].value - 1
          /\ sh = Times(M[i - 1], s[i].value - r) \o M[c - 1]
    BY <1>4 DEF Repeating
  <2>. DEFINE x == M[i - 1]
              n == s[i].value
  <2>2. /\ n \in Nat /\ n - r \in Nat /\ n - r + 1 \in 0..n + 1 /\ n + 1 \in Nat
        /\ i \in 0..Len(s) /\ i - 1 \in 0..Len(s) /\ c - 1 \in 0..i - 1
    BY <1>1, <2>1 DEF Chunk
  <2>3. M[i] = Times(x, n + 1)
    <3>1. M[i] = Adds(M[i - 1], s[i])
      BY <1>1, UpToIs
    <3>2. M[i - 1] \in Shows /\ s[i] \in Chunk
      BY <1>1, <1>2, <2>2
    <3>. HIDE DEF M
    <3>. QED  BY <2>1, <3>1, <3>2, AddsIs
  <2>4. Begins(M[c - 1], x)
    BY <1>1, <2>2, UpToIs
  <2>5. x \in Shows /\ M[c - 1] \in Shows
    BY <1>2, <2>2, <1>1
  <2>. HIDE DEF M, x, n
  <2>6. /\ Times(x, n - r) \in Shows /\ Times(x, n - r + 1) \in Shows /\ Times(x, n + 1) \in Shows
        /\ Times(x, n - r + 1) = Times(x, n - r) \o x
    BY <2>2, <2>5, OneMore
  <2>7. Begins(Times(x, n - r) \o M[c - 1], Times(x, n - r) \o x)
    BY <2>4, <2>5, <2>6, BeginsIs
  <2>8. Begins(Times(x, n - r + 1), Times(x, n + 1))
    BY <2>2, <2>5, TimesBegins
  <2>9. sh = Times(x, n - r) \o M[c - 1]
    BY <2>1 DEF x, n
  <2>10. Begins(sh, Times(x, n - r + 1))
    BY <2>6, <2>7, <2>9
  <2>11. Begins(sh, M[i]) /\ M[i] \in Shows
    BY <2>3, <2>6, <2>8, <2>10, BeginsIs
  <2>12. Begins(M[i], Meaning(s))
    BY <1>2, <2>2
  <2>. QED  BY <1>1, <2>11, <2>12, BeginsIs
<1>5. CASE Circling(s, c, r, sh)
  <2>. DEFINE C == Circle(s)
              t == Last(s).value
              P == UpTo(Part(s))
  <2>1. Last(s).type = "kGoto" /\ c > t
    BY <1>5 DEF Circling
  <2>2. PICK j \in 0..MaxShown - 1 : sh = Means(s) \o (Times(C, j) \o P[c - 1 - t])
    BY <1>5 DEF Circling
  <2>3. t \in 0..Len(s) - 1 /\ Part(s) \in Seq(Chunk) /\ Len(Part(s)) = Len(s) - t
    BY <2>1, PartIs
  <2>4. C = P[Len(s) - t]
    BY <2>1, <2>3 DEF Circle, Means
  <2>5. /\ c - 1 - t \in 0..Len(s) - t /\ Len(s) - t \in 0..Len(s) - t
        /\ j \in Nat /\ j + 1 \in 0..MaxShown /\ MaxShown \in Nat
    BY <1>1, <2>1, <2>3, BoundsAssumption
  <2>6. C \in Shows /\ P[c - 1 - t] \in Shows /\ Begins(P[c - 1 - t], C)
    <3>. HIDE DEF C, t
    <3>. QED  BY <2>3, <2>4, <2>5, UpToIs
  <2>. HIDE DEF C, t, P
  <2>7. /\ Times(C, j) \in Shows /\ Times(C, j + 1) = Times(C, j) \o C
        /\ Times(C, MaxShown) \in Shows /\ Times(C, j + 1) \in Shows
    BY <2>5, <2>6, OneMore
  <2>8. Begins(Times(C, j) \o P[c - 1 - t], Times(C, j + 1))
    <3>1. Begins(Times(C, j) \o P[c - 1 - t], Times(C, j) \o C)
      BY <2>6, <2>7, BeginsIs
    <3>. QED  BY <2>7, <3>1
  <2>9. Begins(Times(C, j + 1), Times(C, MaxShown))
    BY <2>5, <2>6, TimesBegins
  <2>. DEFINE y == Times(C, j) \o P[c - 1 - t]
  <2>10. y \in Shows
    BY <2>6, <2>7, ConcatProperties DEF Shows
  <2>11. sh = Means(s) \o y /\ Begins(y, Times(C, j + 1))
    BY <2>2, <2>8
  <2>. HIDE DEF y
  <2>12. Begins(y, Times(C, MaxShown))
    BY <2>7, <2>9, <2>10, <2>11, BeginsIs
  <2>13. Begins(Means(s) \o y, Means(s) \o Times(C, MaxShown))
    BY <1>1, <2>7, <2>10, <2>12, BeginsIs
  <2>14. Meaning(s) = Means(s) \o Times(C, MaxShown)
    BY DEF Meaning, C
  <2>. QED  BY <2>11, <2>13, <2>14
<1>. QED  BY <1>3, <1>4, <1>5 DEF Form

\* A chunk that adds d to whatever is before it keeps the form.
AddsAlways(ch, d) == \A x \in Shows : Adds(x, ch) = x \o d

LEMMA FormPasses ==
  ASSUME NEW s, Fits(s), NEW c \in 1..Len(s), NEW r, NEW sh \in Shows, Form(s, c, r, sh),
         s[c].type \in {"kSetup", "kWait"}, NEW d \in Shows, AddsAlways(s[c], d)
  PROVE  Form(s, c + 1, r, sh \o d)
<1>. DEFINE M == UpTo(s)
<1>1. /\ s \in Seq(Chunk) /\ Len(s) \in Nat \ {0} /\ c - 1 \in 0..Len(s) /\ c \in 0..Len(s)
      /\ Means(s) \in Shows /\ Circle(s) \in Shows /\ (c + 1) - 1 = c
  BY MeaningIs DEF Fits, WellFormed
<1>2. M[c - 1] \in Shows /\ M[c] = M[c - 1] \o d
  <2>1. M[c - 1] \in Shows /\ M[c] = Adds(M[c - 1], s[c])
    BY <1>1, UpToIs
  <2>. HIDE DEF M
  <2>. QED  BY <2>1 DEF AddsAlways
<1>3. CASE First(s, c, r, sh)
  <2>1. r = -1 /\ sh \o d = M[c]
    BY <1>2, <1>3 DEF First
  <2>. QED  BY <1>1, <2>1 DEF Form, First
<1>4. CASE Repeating(s, c, r, sh)
  <2>1. PICK i \in 1..Len(s) :
          /\ s[i].type = "kRepeat" /\ c <= i /\ r \in 0..s[i].value - 1
          /\ sh = Times(M[i - 1], s[i].value - r) \o M[c - 1]
    BY <1>4 DEF Repeating
  <2>2. c + 1 <= i
    <3>1. c # i
      BY <2>1
    <3>. QED  BY <2>1, <3>1
  <2>. DEFINE T == Times(M[i - 1], s[i].value - r)
  <2>3. T \in Shows
    <3>1. s[i] \in Chunk /\ i - 1 \in 0..Len(s)
      BY <1>1
    <3>2. s[i].value - r \in Nat
      BY <2>1, <3>1 DEF Chunk
    <3>3. M[i - 1] \in Shows
      BY <1>1, <3>1, MeaningIs
    <3>. HIDE DEF M
    <3>. QED  BY <3>2, <3>3, OneMore
  <2>4. sh \o d = T \o M[c]
    <3>1. sh = T \o M[c - 1]
      BY <2>1
    <3>. HIDE DEF T, M
    <3>2. (T \o M[c - 1]) \o d = T \o (M[c - 1] \o d)
      BY <1>2, <2>3, Associative
    <3>. QED  BY <1>2, <3>1, <3>2
  <2>5. Repeating(s, c + 1, r, sh \o d)
    BY <1>1, <2>1, <2>2, <2>4 DEF Repeating
  <2>. QED  BY <2>5 DEF Form
<1>5. CASE Circling(s, c, r, sh)
  <2>. DEFINE C == Circle(s)
              t == Last(s).value
              P == UpTo(Part(s))
  <2>1. r = -1 /\ Last(s).type = "kGoto" /\ c > t
    BY <1>5 DEF Circling
  <2>2. PICK j \in 0..MaxShown - 1 : sh = Means(s) \o (Times(C, j) \o P[c - 1 - t])
    BY <1>5 DEF Circling
  <2>3. /\ t \in 0..Len(s) - 1 /\ Part(s) \in Seq(Chunk) /\ Len(Part(s)) = Len(s) - t
        /\ \A i \in 1..Len(s) - t : Part(s)[i] = s[t + i]
    BY <2>1, PartIs
  <2>. HIDE DEF t
  <2>4. /\ c - t \in 1..Len(s) - t /\ c - 1 - t \in 0..Len(s) - t /\ (c - t) - 1 = c - 1 - t
        /\ t + (c - t) = c /\ (c + 1) - 1 - t = c - t /\ c + 1 > t
    BY <1>1, <2>1, <2>3
  <2>5. Part(s)[c - t] = s[c]
    BY <2>3, <2>4
  <2>6. P[c - 1 - t] \in Shows /\ P[c - t] = P[c - 1 - t] \o d
    <3>1. P[c - 1 - t] \in Shows /\ P[c - t] = Adds(P[c - 1 - t], s[c])
      BY <2>3, <2>4, <2>5, UpToIs
    <3>. HIDE DEF P
    <3>. QED  BY <3>1 DEF AddsAlways
  <2>7. Times(C, j) \in Shows
    BY <1>1, OneMore
  <2>8. sh \o d = Means(s) \o (Times(C, j) \o P[c - t])
    <3>. DEFINE y == Times(C, j)
                z == P[c - 1 - t]
                w == y \o z
    <3>1. y \in Shows /\ z \in Shows /\ P[c - t] = z \o d /\ sh = Means(s) \o w
      BY <2>2, <2>6, <2>7
    <3>. HIDE DEF y, z, C, P
    <3>2. w \in Shows
      BY <3>1, ConcatType
    <3>3. w \o d = y \o (z \o d)
      BY <3>1, Associative
    <3>. HIDE DEF w
    <3>4. (Means(s) \o w) \o d = Means(s) \o (w \o d)
      BY <1>1, <3>2, Associative
    <3>5. sh \o d = Means(s) \o (y \o P[c - t])
      BY <3>1, <3>3, <3>4
    <3>. QED  BY <3>5 DEF y
  <2>9. c + 1 > Last(s).value /\ P[c - t] = P[(c + 1) - 1 - Last(s).value]
    BY <2>4 DEF t
  <2>10. Circling(s, c + 1, r, sh \o d)
    BY <2>1, <2>8, <2>9 DEF Circling
  <2>. QED  BY <2>10 DEF Form
<1>. QED  BY <1>3, <1>4, <1>5 DEF Form

\* kRepeat: the counter is loaded, counted down, and given back at the end.
LEMMA FormRepeats ==
  ASSUME NEW s, Fits(s), NEW c \in 1..Len(s), NEW r, NEW sh \in Shows, Form(s, c, r, sh),
         s[c].type = "kRepeat",
         NEW count, count = IF r = -1 THEN s[c].value ELSE r
  PROVE  /\ count \in Nat
         /\ count = 0 => Form(s, c + 1, -1, sh)
         /\ count # 0 => Form(s, 1, count - 1, sh)
<1>. DEFINE M == UpTo(s)
            n == s[c].value
            x == M[c - 1]
<1>1. /\ s \in Seq(Chunk) /\ Len(s) \in Nat \ {0} /\ c - 1 \in 0..Len(s) /\ c \in 0..Len(s)
      /\ s[c] \in Chunk /\ (c + 1) - 1 = c /\ 1 - 1 = 0
  BY MeaningIs DEF Fits, WellFormed
<1>2. n \in Nat /\ n + 1 \in Nat
  BY <1>1 DEF Chunk
<1>3. x \in Shows /\ M[0] = <<>> /\ M[c] = Times(x, n + 1)
  <2>1. M[c - 1] \in Shows /\ M[0] = <<>> /\ M[c] = Adds(M[c - 1], s[c])
    BY <1>1, UpToIs
  <2>. HIDE DEF M
  <2>. QED  BY <1>1, <2>1, AddsIs
<1>. HIDE DEF M, x, n
<1>4. Times(x, 1) = x /\ Times(x, 1) \o M[0] = x
  <2>1. Times(x, 1) = x
    BY <1>2, <1>3, TimesBegins
  <2>2. x \o <<>> = x
    BY <1>3, ConcatEmptySeq DEF Shows
  <2>. QED  BY <1>3, <2>1, <2>2
<1>5. CASE First(s, c, r, sh)
  <2>1. r = -1 /\ sh = x /\ count = n
    BY <1>5 DEF First, M, x, n
  <2>2. ASSUME count = 0 PROVE First(s, c + 1, -1, sh)
    <3>1. n + 1 = 1
      BY <2>1, <2>2
    <3>2. sh = M[c]
      BY <1>3, <1>4, <2>1, <3>1
    <3>. QED  BY <1>1, <3>2 DEF First, M
  <2>3. ASSUME count # 0 PROVE Repeating(s, 1, count - 1, sh)
    <3>1. count - 1 \in 0..n - 1 /\ n - (count - 1) = 1 /\ 1 <= c
      BY <1>1, <1>2, <2>1, <2>3
    <3>2. sh = Times(x, n - (count - 1)) \o M[0]
      BY <1>4, <2>1, <3>1
    <3>. QED  BY <1>1, <3>1, <3>2 DEF Repeating, M, x, n
  <2>. QED  BY <1>2, <2>1, <2>2, <2>3 DEF Form
<1>6. CASE Repeating(s, c, r, sh)
  <2>1. r \in 0..n - 1 /\ sh = Times(x, n - r) \o x
    <3>1. PICK i \in 1..Len(s) :
            /\ s[i].type = "kRepeat" /\ c <= i /\ r \in 0..s[i].value - 1
            /\ sh = Times(UpTo(s)[i - 1], s[i].value - r) \o UpTo(s)[c - 1]
      BY <1>6 DEF Repeating
    <3>2. i = c
      BY <3>1 DEF Fits, PlainSequence
    <3>. QED  BY <3>1, <3>2 DEF M, x, n
  <2>2. count = r /\ r \in Nat /\ n - r \in Nat
    BY <1>2, <2>1
  <2>3. sh = Times(x, n - r + 1)
    BY <1>3, <2>1, <2>2, OneMore
  <2>4. ASSUME count = 0 PROVE First(s, c + 1, -1, sh)
    <3>1. n - r + 1 = n + 1
      BY <1>2, <2>2, <2>4
    <3>2. sh = M[c]
      BY <1>3, <2>3, <3>1
    <3>. QED  BY <1>1, <3>2 DEF First, M
  <2>5. ASSUME count # 0 PROVE Repeating(s, 1, count - 1, sh)
    <3>1. count - 1 \in 0..n - 1 /\ n - (count - 1) = n - r + 1 /\ 1 <= c /\ n - r + 1 \in Nat
      BY <1>1, <1>2, <2>1, <2>2, <2>5
    <3>2. Times(x, n - r + 1) \o <<>> = Times(x, n - r + 1)
      <4>1. Times(x, n - r + 1) \in Shows
        BY <1>3, <3>1, OneMore
      <4>. QED  BY <4>1, ConcatEmptySeq DEF Shows
    <3>3. sh = Times(x, n - (count - 1)) \o M[0]
      BY <1>3, <2>3, <3>1, <3>2
    <3>. QED  BY <1>1, <3>1, <3>3 DEF Repeating, M, x, n
  <2>. QED  BY <2>2, <2>4, <2>5 DEF Form
<1>7. CASE Circling(s, c, r, sh)
  <2>1. Last(s).type = "kGoto" /\ c > Last(s).value
    BY <1>7 DEF Circling
  <2>2. c <= Last(s).value /\ Last(s).value \in Nat
    BY <2>1, PartIs DEF Fits, PlainSequence
  <2>. QED  BY <1>1, <2>1, <2>2
<1>. QED  BY <1>5, <1>6, <1>7 DEF Form

\* kGoto: the first or the next round of the endless part begins.
LEMMA FormGoesTo ==
  ASSUME NEW s, Fits(s), NEW c \in 1..Len(s), NEW r, NEW sh \in Shows, Form(s, c, r, sh),
         s[c].type = "kGoto", Len(sh) < MaxShown
  PROVE  Form(s, 1 + s[c].value, r, sh)
<1>. DEFINE M == UpTo(s)
            C == Circle(s)
            t == Last(s).value
            P == UpTo(Part(s))
<1>1. /\ s \in Seq(Chunk) /\ Len(s) \in Nat \ {0} /\ c = Len(s)
      /\ s[c] \in Chunk /\ Means(s) \in Shows /\ C \in Shows /\ Means(s) = M[c]
  BY MeaningIs DEF Fits, WellFormed, PlainSequence, Means
<1>2. /\ Last(s) = s[c] /\ Last(s).type = "kGoto" /\ t \in 0..c - 1 /\ Part(s) \in Seq(Chunk)
      /\ Len(Part(s)) = c - t /\ \A i \in 1..c - t : Part(s)[i] = s[t + i]
  <2>1. Last(s) = s[c]
    BY <1>1 DEF Last
  <2>. QED  BY <1>1, <2>1, PartIs
<1>3. P[0] = <<>> /\ C = P[c - t]
  BY <1>2, UpToIs DEF Circle, Means
<1>4. M[c] = M[c - 1]
  <2>1. c - 1 \in 0..Len(s) /\ c \in 1..Len(s)
    BY <1>1
  <2>2. M[c - 1] \in Shows /\ M[c] = Adds(M[c - 1], s[c])
    BY <1>1, <2>1, UpToIs
  <2>. HIDE DEF M
  <2>. QED  BY <1>1, <2>2, AddsIs
<1>5. P[c - 1 - t] = C
  <2>. HIDE DEF t
  <2>1. c - t \in 1..c - t /\ t + (c - t) = c /\ (c - t) - 1 = c - 1 - t /\ c - 1 - t \in 0..c - t
    BY <1>1, <1>2
  <2>2. P[c - 1 - t] \in Shows /\ P[c - t] = Adds(P[c - 1 - t], s[c])
    BY <1>2, <2>1, UpToIs
  <2>. HIDE DEF P
  <2>. QED  BY <1>1, <1>3, <2>2, AddsIs
<1>6. MaxShown - 1 \in Nat /\ MaxShown \in Nat /\ Len(sh) \in Nat
  BY BoundsAssumption, LenProperties DEF Shows
<1>7. ASSUME r = -1, NEW j \in 0..MaxShown - 1, sh = Means(s) \o Times(C, j)
      PROVE  Form(s, 1 + s[c].value, r, sh)
  <2>. HIDE DEF P, C, M
  <2>1. Times(C, j) \in Shows /\ Times(C, j) \o P[0] = Times(C, j)
    <3>1. Times(C, j) \in Shows
      BY <1>1, OneMore
    <3>. QED  BY <1>3, <3>1, ConcatEmptySeq DEF Shows
  <2>2. sh = Means(s) \o (Times(C, j) \o P[0])
    BY <1>7, <2>1
  <2>3. s[c].value = t /\ 1 + t > t /\ (1 + t) - 1 - t = 0
    BY <1>1, <1>2
  <2>4. sh = Means(s) \o (Times(C, j) \o P[(1 + t) - 1 - t])
    BY <2>2, <2>3
  <2>5. Circling(s, 1 + t, r, sh)
    BY <1>2, <1>7, <2>3, <2>4 DEF Circling, C, P
  <2>. QED  BY <2>3, <2>5 DEF Form
<1>8. CASE First(s, c, r, sh)
  <2>1. r = -1 /\ sh = Means(s)
    BY <1>1, <1>4, <1>8 DEF First
  <2>2. Means(s) \o Times(C, 0) = Means(s)
    <3>1. Times(C, 0) = <<>>
      BY <1>1, TimesIs
    <3>. QED  BY <1>1, <3>1, ConcatEmptySeq DEF Shows
  <2>3. 0 \in 0..MaxShown - 1
    BY <1>6
  <2>. QED  BY <1>7, <2>1, <2>2, <2>3
<1>9. CASE Repeating(s, c, r, sh)
  <2>1. PICK i \in 1..Len(s) : s[i].type = "kRepeat" /\ c <= i
    BY <1>9 DEF Repeating
  <2>2. i = c
    BY <1>1, <2>1
  <2>. QED  BY <2>1, <2>2
<1>10. CASE Circling(s, c, r, sh)
  <2>1. PICK j \in 0..MaxShown - 1 : r = -1 /\ sh = Means(s) \o (Times(C, j) \o P[c - 1 - t])
    BY <1>10 DEF Circling
  <2>. HIDE DEF C, P, M
  <2>2. /\ Times(C, j) \in Shows /\ Times(C, j + 1) \in Shows /\ Times(C, j + 1) = Times(C, j) \o C
        /\ j \in Nat /\ j + 1 \in Nat
    <3>1. j \in Nat /\ j + 1 \in Nat
      OBVIOUS
    <3>2. C \in Shows
      BY <1>1
    <3>. QED  BY <3>1, <3>2, OneMore
  <2>3. sh = Means(s) \o Times(C, j + 1)
    BY <1>5, <2>1, <2>2
  <2>4. CASE C = <<>>
    <3>1. Times(C, j + 1) = Times(C, j)
      BY <1>1, <2>2, <2>4, TimesBegins
    <3>2. sh = Means(s) \o Times(C, j)
      BY <2>3, <3>1
    <3>. QED  BY <1>7, <2>1, <3>2
  <2>5. CASE C # <<>>
    <3>1. Len(Times(C, j + 1)) >= j + 1
      BY <1>1, <2>2, <2>5, TimesBegins
    <3>2. Len(sh) = Len(Means(s)) + Len(Times(C, j + 1)) /\ Len(Means(s)) \in Nat /\ Len(Times(C, j + 1)) \in Nat
      BY <1>1, <2>2, <2>3, ConcatProperties, LenProperties DEF Shows
    <3>3. j + 1 \in 0..MaxShown - 1
      BY <1>6, <2>2, <3>1, <3>2
    <3>. QED  BY <1>7, <2>1, <2>3, <3>3
  <2>. QED  BY <2>4, <2>5
<1>. QED  BY <1>8, <1>9, <1>10 DEF Form

\* kEnd: all that is meant has been shown.
LEMMA FormEnds ==
  ASSUME NEW s, Fits(s), NEW c \in 1..Len(s), NEW r, NEW sh \in Shows, Form(s, c, r, sh),
         s[c].type = "kEnd"
  PROVE  sh = Meaning(s)
<1>1. /\ s \in Seq(Chunk) /\ Len(s) \in Nat \ {0} /\ c = Len(s) /\ s[c] \in Chunk
      /\ Means(s) \in Shows /\ Means(s) = UpTo(s)[c] /\ Last(s) = s[c]
  BY MeaningIs DEF Fits, WellFormed, PlainSequence, Means, Last
<1>2. First(s, c, r, sh)
  <2>1. ~ Circling(s, c, r, sh)
    BY <1>1 DEF Circling
  <2>2. ~ Repeating(s, c, r, sh)
    <3>1. SUFFICES ASSUME NEW i \in 1..Len(s), s[i].type = "kRepeat", c <= i PROVE FALSE
      BY DEF Repeating
    <3>2. i = c
      BY <1>1, <3>1
    <3>. QED  BY <3>1, <3>2
  <2>. QED  BY <2>1, <2>2 DEF Form
<1>3. sh = UpTo(s)[c - 1]
  BY <1>2 DEF First
<1>4. UpTo(s)[c] = sh
  <2>1. UpTo(s)[c] = Adds(UpTo(s)[c - 1], s[c])
    BY <1>1, UpToIs
  <2>2. Adds(sh, s[c]) = sh
    BY <1>1, AddsIs
  <2>. QED  BY <1>3, <2>1, <2>2
<1>5. Circle(s) = <<>> /\ <<>> \in Shows
  BY <1>1, EmptySeq DEF Circle, Shows
<1>6. Times(Circle(s), MaxShown) = <<>>
  BY <1>5, BoundsAssumption, TimesBegins
<1>7. sh \o <<>> = sh
  BY ConcatEmptySeq DEF Shows
<1>. QED  BY <1>1, <1>4, <1>6, <1>7 DEF Meaning

-----------------------------------------------------------------------------
(* The steps of the sequencer.                                             *)

\* What sequence s may have shown; beyond MaxShown the history stands still.
Played(s, c, r, sh) ==
  /\ Len(sh) <= MaxShown /\ Begins(sh, Meaning(s))
  /\ Len(sh) < MaxShown => Form(s, c, r, sh)

PlayInv == start # Null => Played(Chunks[start], current, repeatCounter, shown)

LEMMA PlainFits ==
  ASSUME Plain, NEW n \in Names
  PROVE  Fits(Chunks[n])
BY ChunksAssumption DEF Fits, Plain

\* Where the sequence is in one of the three ways, the history is right.
LEMMA FormPlays ==
  ASSUME NEW s, Fits(s), NEW c \in 1..Len(s), NEW r, NEW sh \in Shows,
         Len(sh) <= MaxShown, Form(s, c, r, sh)
  PROVE  Played(s, c, r, sh)
BY FormBegins DEF Played

\* A sequence that has just begun has shown nothing.
LEMMA BeginPlays ==
  ASSUME Plain, NEW n \in Names
  PROVE  Played(Chunks[n], 1, -1, <<>>)
<1>. DEFINE s == Chunks[n]
<1>1. Fits(s) /\ 1 \in 1..Len(s)
  BY PlainFits, FirstChunk
<1>2. s \in Seq(Chunk) /\ <<>> \in Shows /\ Len(<<>>) = 0 /\ 1 - 1 = 0
  BY <1>1, EmptySeq DEF Fits, WellFormed, Shows
<1>3. UpTo(s)[0] = <<>>
  BY <1>2, UpToIs
<1>. HIDE DEF s
<1>4. Form(s, 1, -1, <<>>)
  BY <1>2, <1>3 DEF Form, First
<1>5. Len(<<>>) <= MaxShown
  BY <1>2, BoundsAssumption
<1>6. Played(s, 1, -1, <<>>)
  BY <1>1, <1>2, <1>4, <1>5, FormPlays
<1>. QED  BY <1>6 DEF s

\* The handler plays one chunk, or takes another step towards its colour.
LEMMA HandlerPlays ==
  ASSUME Plain, IInv, PlayInv, Handler
  PROVE  PlayInv'
<1>. DEFINE s == Chunks[start]
<1>1. /\ start \in Names /\ start # Null /\ current \in 1..Len(s) /\ by # "nobody"
      /\ Now = s[current] /\ Now \in Chunk /\ shown \in Shows /\ repeatCounter \in Int
  <2>1. by # "nobody"
    BY DEF Handler, Setup, Wait, Goto, End, Repeat, IsAt
  <2>2. shown \in Shows /\ repeatCounter \in Int
    BY DEF IInv, TypeOK, Shows
  <2>. QED  BY <2>1, <2>2, InHandler DEF Now
<1>2. Fits(s) /\ Played(s, current, repeatCounter, shown)
  BY <1>1, PlainFits DEF PlayInv
<1>3. /\ Len(shown) \in Nat /\ MaxShown \in Nat /\ Len(shown) <= MaxShown /\ Begins(shown, Meaning(s))
      /\ Len(shown) < MaxShown => Form(s, current, repeatCounter, shown)
  BY <1>1, <1>2, BoundsAssumption, LenProperties DEF Played, Shows
<1>4. IInv'
  BY HandlerStep
<1>5. ASSUME start' = start PROVE current' \in 1..Len(s) /\ shown' \in Shows
  BY <1>1, <1>4, <1>5 DEF IInv, TypeOK, Shows
<1>6. ASSUME start' = start,
             \/ shown' = shown /\ Len(shown) = MaxShown
             \/ Len(shown') <= MaxShown /\ Form(s, current', repeatCounter', shown')
      PROVE  PlayInv'
  <2>1. ASSUME NEW c \in 1..Len(s), NEW r, NEW sh \in Shows,
               \/ sh = shown /\ Len(shown) = MaxShown
               \/ Len(sh) <= MaxShown /\ Form(s, c, r, sh)
        PROVE  Played(s, c, r, sh)
    <3>1. CASE sh = shown /\ Len(shown) = MaxShown
      BY <1>3, <3>1 DEF Played
    <3>2. CASE Len(sh) <= MaxShown /\ Form(s, c, r, sh)
      BY <1>2, <3>2, FormPlays
    <3>. QED  BY <2>1, <3>1, <3>2
  <2>2. Played(s, current', repeatCounter', shown')
    BY <1>5, <1>6, <2>1
  <2>. QED  BY <1>6, <2>2 DEF PlayInv
<1>. HIDE DEF s
<1>7. CASE Setup
  <2>1. start' = start /\ repeatCounter' = repeatCounter /\ s[current].type = "kSetup"
    BY <1>1, <1>7 DEF Setup, IsAt
  <2>2. \/ /\ current' = current + 1
           /\ shown' = IF Len(shown) < MaxShown THEN Append(shown, Now.color) ELSE shown
        \/ current' = current /\ shown' = shown
    BY <1>7 DEF Setup, Next1
  <2>3. CASE Len(shown) = MaxShown
    BY <1>6, <2>1, <2>2, <2>3
  <2>4. CASE Len(shown) < MaxShown /\ current' = current /\ shown' = shown
    BY <1>3, <1>6, <2>1, <2>4
  <2>5. CASE Len(shown) < MaxShown /\ current' = current + 1 /\ shown' = Append(shown, Now.color)
    <3>. DEFINE d == <<Now.color>>
    <3>1. Now.color \in Levels /\ d \in Shows
      BY <1>1 DEF Chunk, Shows
    <3>2. \A x \in Shows : Append(x, Now.color) = x \o d
      BY <3>1, AppendIsConcat DEF Shows
    <3>. HIDE DEF d
    <3>3. AddsAlways(s[current], d)
      BY <1>1, <2>1, <3>2, AddsIs DEF AddsAlways
    <3>4. Form(s, current + 1, repeatCounter, shown \o d)
      BY <1>1, <1>2, <1>3, <2>1, <2>5, <3>1, <3>3, FormPasses
    <3>5. shown' = shown \o d /\ Len(shown') = Len(shown) + 1
      BY <1>1, <2>5, <3>1, <3>2, AppendProperties DEF Shows
    <3>. QED  BY <1>3, <1>6, <2>1, <2>5, <3>4, <3>5
  <2>. QED  BY <1>3, <2>2, <2>3, <2>4, <2>5
<1>8. CASE Wait
  <2>1. /\ start' = start /\ repeatCounter' = repeatCounter /\ s[current].type = "kWait"
        /\ current' = current + 1 /\ shown' = shown
    BY <1>1, <1>8 DEF Wait, IsAt, Next1
  <2>2. CASE Len(shown) < MaxShown
    <3>. DEFINE d == <<>>
    <3>1. d \in Shows /\ \A x \in Shows : x \o d = x
      BY EmptySeq, ConcatEmptySeq DEF Shows
    <3>. HIDE DEF d
    <3>2. AddsAlways(s[current], d)
      BY <1>1, <2>1, <3>1, AddsIs DEF AddsAlways
    <3>3. Form(s, current + 1, repeatCounter, shown \o d)
      BY <1>1, <1>2, <1>3, <2>1, <2>2, <3>1, <3>2, FormPasses
    <3>. QED  BY <1>1, <1>3, <1>6, <2>1, <3>1, <3>3
  <2>. QED  BY <1>3, <1>6, <2>1, <2>2
<1>9. CASE Goto
  <2>1. /\ start' = start /\ repeatCounter' = repeatCounter /\ s[current].type = "kGoto"
        /\ current' = 1 + s[current].value /\ shown' = shown
    BY <1>1, <1>9 DEF Goto, IsAt
  <2>2. CASE Len(shown) < MaxShown
    BY <1>1, <1>2, <1>3, <1>6, <2>1, <2>2, FormGoesTo
  <2>. QED  BY <1>3, <1>6, <2>1, <2>2
<1>10. CASE End
  BY <1>10 DEF End, PlayInv
<1>11. CASE Repeat
  <2>. DEFINE count == IF repeatCounter = -1 THEN s[current].value ELSE repeatCounter
  <2>1. /\ start' = start /\ shown' = shown /\ s[current].type = "kRepeat"
        /\ IF count = 0 THEN repeatCounter' = -1 /\ current' = current + 1
                        ELSE repeatCounter' = count - 1 /\ current' = 1
    BY <1>1, <1>11 DEF Repeat, IsAt, Next1
  <2>2. CASE Len(shown) < MaxShown
    <3>1. /\ count = 0 => Form(s, current + 1, -1, shown)
          /\ count # 0 => Form(s, 1, count - 1, shown)
      BY <1>1, <1>2, <1>3, <2>1, <2>2, FormRepeats
    <3>2. Form(s, current', repeatCounter', shown')
      <4>. HIDE DEF count
      <4>. QED  BY <2>1, <3>1
    <3>. QED  BY <1>3, <1>6, <2>1, <3>2
  <2>. QED  BY <1>3, <1>6, <2>1, <2>2
<1>. QED  BY <1>7, <1>8, <1>9, <1>10, <1>11 DEF Handler

LEMMA StepPlays ==
  ASSUME Plain, IInv, PlayInv, [Next]_vars
  PROVE  PlayInv'
<1>1. ASSUME NEW n \in Names, Begin(n) PROVE PlayInv'
  <2>1. Played(Chunks[n], 1, -1, <<>>)
    BY BeginPlays
  <2>2. start' = n /\ current' = 1 /\ repeatCounter' = -1 /\ shown' = <<>>
    BY <1>1 DEF Begin
  <2>. QED  BY <2>1, <2>2 DEF PlayInv
<1>2. ASSUME UNCHANGED <<tape, shown>> PROVE PlayInv'
  BY <1>2 DEF tape, PlayInv
<1>3. CASE Handler
  BY <1>3, HandlerPlays
<1>4. CASE TimerFires
  BY <1>2, <1>4 DEF TimerFires, tape
<1>5. CASE InCall
  <2>1. CASE ContinueStarts
    <3>1. main \in MainStates /\ main.at = "differs"
      BY <2>1 DEF ContinueStarts, IInv, TypeOK
    <3>2. main.arg \in Names
      BY <3>1 DEF MainStates, Idle
    <3>. QED  BY <1>1, <2>1, <3>2 DEF ContinueStarts
  <2>2. CASE StopReset
    BY <2>2 DEF StopReset, PlayInv
  <2>3. CASE SwitchOff
    BY <1>2, <2>3 DEF SwitchOff
  <2>. QED  BY <1>5, <2>1, <2>2, <2>3 DEF InCall
<1>6. CASE Call
  <2>1. ASSUME NEW n \in Names, StartOrRestart(n) PROVE PlayInv'
    BY <1>1, <2>1 DEF StartOrRestart
  <2>2. ASSUME NEW n \in Names, ContinueSame(n) \/ ContinueDiffers(n) PROVE PlayInv'
    BY <1>2, <2>2 DEF ContinueSame, ContinueDiffers
  <2>3. CASE StopTest
    BY <1>2, <2>3 DEF StopTest
  <2>. QED  BY <1>6, <2>1, <2>2, <2>3 DEF Call
<1>7. CASE UNCHANGED vars
  BY <1>2, <1>7 DEF vars, tape
<1>. QED  BY <1>3, <1>4, <1>5, <1>6, <1>7 DEF Next

\* PlaysAsWritten: for every set of sequences of the documented form, every
\* number of repeats and every history, what has been shown since the start
\* is the beginning of what the sequence means, and all of it at kEnd.
THEOREM PlaysAsWrittenHolds == Plain => (Spec => []PlaysAsWritten)
<1>. SUFFICES ASSUME Plain PROVE Spec => []PlaysAsWritten
  OBVIOUS
<1>1. Init => PlayInv
  BY DEF Init, PlayInv
<1>2. IInv /\ PlayInv /\ [Next]_vars => PlayInv'
  BY StepPlays
<1>3. IInv /\ PlayInv => PlaysAsWritten
  <2>. SUFFICES ASSUME IInv, PlayInv, start # Null
                PROVE  /\ IsPrefix(shown, Meaning(Chunks[start]))
                       /\ IsAt("kEnd") => Len(shown) \in {Len(Meaning(Chunks[start])), MaxShown}
    BY DEF PlaysAsWritten
  <2>. DEFINE s == Chunks[start]
  <2>1. start \in Names /\ current \in 1..Len(s) /\ shown \in Shows
    BY DEF IInv, TypeOK, Shows
  <2>2. Fits(s) /\ Played(s, current, repeatCounter, shown)
    BY <2>1, PlainFits DEF PlayInv
  <2>3. IsPrefix(shown, Meaning(s))
    BY <2>1, <2>2, MeaningIs, BeginsIs DEF Played
  <2>4. ASSUME IsAt("kEnd") PROVE Len(shown) \in {Len(Meaning(s)), MaxShown}
    <3>1. s[current].type = "kEnd"
      BY <2>4 DEF IsAt, Now
    <3>2. CASE Len(shown) < MaxShown
      BY <2>1, <2>2, <3>1, <3>2, FormEnds DEF Played
    <3>3. CASE Len(shown) >= MaxShown
      <4>1. Len(shown) \in Nat /\ MaxShown \in Nat /\ Len(shown) <= MaxShown
        BY <2>1, <2>2, BoundsAssumption, LenProperties DEF Played, Shows
      <4>. QED  BY <3>3, <4>1
    <3>4. Len(shown) \in Nat /\ MaxShown \in Nat
      BY <2>1, BoundsAssumption, LenProperties DEF Shows
    <3>. QED  BY <3>2, <3>3, <3>4
  <2>. QED  BY <2>3, <2>4
<1>. QED  BY <1>1, <1>2, <1>3, Invariance, PTL DEF Spec
=============================================================================
