---------------------------- MODULE InputProofs ----------------------------
(***************************************************************************)
(* Proofs about the two ways in which a player reaches a Locket, Buttons   *)
(* and UartShell.  In both what happens is a fold over data (the loop over *)
(* the pins, what the host has typed), so that the proofs begin with       *)
(* induction, in a form that quantifies over sets instead of operators:    *)
(* the natural numbers are well-founded, hence a set that has 0 and with n *)
(* also n + 1 has them all.                                                *)
(***************************************************************************)
EXTENDS Buttons, UartShell, FiniteSetTheorems, TLAPS

LEMMA Least ==
  ASSUME NEW T, T \subseteq Nat, T # {}
  PROVE  \E x \in T : \A y \in T : x <= y
<1>. DEFINE R == OpToRel(<, Nat)
<1>1. IsWellFoundedOn(R, Nat)
  BY NatLessThanWellFounded
<1>2. \A x, y \in Nat : <<y, x>> \in R <=> y < x
  BY DEF OpToRel
<1>. HIDE DEF R
<1>3. PICK x \in T : \A y \in T : ~ (<<y, x>> \in R)
  BY <1>1, WFMin
<1>4. ASSUME NEW y \in T PROVE x <= y
  <2>1. x \in Nat /\ y \in Nat /\ ~(y < x)
    BY <1>2, <1>3
  <2>. QED  BY <2>1
<1>. QED  BY <1>4

LEMMA SetInduction ==
  ASSUME NEW S, 0 \in S, \A n \in Nat : n \in S => n + 1 \in S
  PROVE  \A n \in Nat : n \in S
<1>. DEFINE T == Nat \ S
<1>1. SUFFICES ASSUME T # {} PROVE FALSE
  OBVIOUS
<1>2. PICK x \in T : \A y \in T : x <= y
  BY <1>1, Least
<1>3. x \in Nat /\ x # 0 /\ x - 1 \in Nat /\ x - 1 \notin T /\ (x - 1) + 1 = x
  BY <1>2
<1>. QED  BY <1>2, <1>3

\* The function that defines MapThenFoldSet for FoldLeft exists, for a step G
\* that keeps to the set P.
KeepsTo(G, P) == \A p \in P, n \in Nat \ {0} : G[<<p, n>>] \in P
IsFold(h, n, base, G) == \A s \in SUBSET (1..n) :
                            h[s] = IF s = {} THEN base ELSE G[<<h[s \ {Max(s)}], Max(s)>>]

LEMMA FoldExists ==
  ASSUME NEW P, NEW base \in P, NEW G, KeepsTo(G, P)
  PROVE  \A n \in Nat : \E h \in [SUBSET (1..n) -> P] : IsFold(h, n, base, G)
<1>. DEFINE Fold(h, n) == IsFold(h, n, base, G)
            S == {n \in Nat : \E h \in [SUBSET (1..n) -> P] : Fold(h, n)}
<1>1. 0 \in S
  <2>. DEFINE h == [s \in SUBSET (1..0) |-> base]
  <2>1. h \in [SUBSET (1..0) -> P] /\ \A s \in SUBSET (1..0) : s = {} /\ h[s] = base
    OBVIOUS
  <2>2. Fold(h, 0)
    BY <2>1 DEF IsFold
  <2>. HIDE DEF h, Fold
  <2>. QED  BY <2>1, <2>2
<1>2. ASSUME NEW n \in Nat, n \in S PROVE n + 1 \in S
  <2>1. PICK h \in [SUBSET (1..n) -> P] : Fold(h, n)
    BY <1>2
  <2>. DEFINE D == SUBSET (1..(n + 1))
              k == [s \in D |-> IF n + 1 \in s THEN G[<<h[s \ {n + 1}], n + 1>>] ELSE h[s]]
  <2>2. \A s \in D : s \ {n + 1} \in SUBSET (1..n) /\ (n + 1 \notin s => s \in SUBSET (1..n))
    OBVIOUS
  <2>3. k \in [D -> P]
    <3>1. ASSUME NEW s \in D PROVE k[s] \in P
      <4>1. n + 1 \in s => G[<<h[s \ {n + 1}], n + 1>>] \in P
        <5>1. h[s \ {n + 1}] \in P /\ n + 1 \in Nat \ {0}
          BY <2>1, <2>2
        <5>. QED  BY <5>1 DEF KeepsTo
      <4>2. n + 1 \notin s => h[s] \in P
        BY <2>1, <2>2
      <4>. QED  BY <4>1, <4>2
    <3>. QED  BY <3>1
  <2>4. ASSUME NEW s \in D PROVE k[s] = IF s = {} THEN base ELSE G[<<k[s \ {Max(s)}], Max(s)>>]
    <3>1. CASE n + 1 \notin s
      <4>1. s \in SUBSET (1..n) /\ k[s] = h[s]
        BY <2>2, <3>1
      <4>2. s \ {Max(s)} \in D /\ n + 1 \notin s \ {Max(s)} /\ k[s \ {Max(s)}] = h[s \ {Max(s)}]
        BY <3>1
      <4>. HIDE DEF k
      <4>. QED  BY <2>1, <4>1, <4>2 DEF IsFold
    <3>2. CASE n + 1 \in s
      <4>1. Max(s) = n + 1
        <5>1. \A x \in s : x \in Int /\ x <= n + 1
          OBVIOUS
        <5>2. \A x \in s : (\A y \in s : x >= y) => x = n + 1
          BY <3>2, <5>1
        <5>3. \A y \in s : n + 1 >= y
          BY <5>1
        <5>. QED  BY <3>2, <5>2, <5>3 DEF Max
      <4>2. k[s] = G[<<h[s \ {n + 1}], n + 1>>]
        BY <3>2
      <4>3. s \ {n + 1} \in D /\ k[s \ {n + 1}] = h[s \ {n + 1}]
        OBVIOUS
      <4>. HIDE DEF k
      <4>. QED  BY <3>2, <4>1, <4>2, <4>3
    <3>. QED  BY <3>1, <3>2
  <2>5. Fold(k, n + 1)
    BY <2>4 DEF IsFold
  <2>. HIDE DEF k, Fold
  <2>6. \E g \in [SUBSET (1..(n + 1)) -> P] : Fold(g, n + 1)
    BY <2>3, <2>5
  <2>7. n + 1 \in Nat
    OBVIOUS
  <2>. QED  BY <2>6, <2>7
<1>3. \A n \in Nat : n \in S
  <2>. HIDE DEF S
  <2>. QED  BY <1>1, <1>2, SetInduction
<1>. QED  BY <1>3

LEMMA MaxOfPrefix ==
  ASSUME NEW k \in Nat \ {0}
  PROVE  Max(1..k) = k /\ (1..k) \ {k} = 1..(k - 1) /\ 1..k # {}
<1>1. k \in 1..k /\ \A y \in 1..k : k >= y
  OBVIOUS
<1>2. \A x \in 1..k : (\A y \in 1..k : x >= y) => x = k
  BY <1>1
<1>. QED  BY <1>1, <1>2 DEF Max

LEMMA MaxIn ==
  ASSUME NEW n \in Nat, NEW s \in SUBSET (1..n), s # {}
  PROVE  Max(s) \in 1..n
<1>1. PICK m \in s : \A y \in s : m >= y
  <2>. DEFINE U == {m \in Nat : \A y \in s : m >= y}
  <2>1. n \in U /\ U \subseteq Nat
    OBVIOUS
  <2>2. PICK m \in U : \A z \in U : m <= z
    BY <2>1, Least
  <2>3. CASE m \in s
    BY <2>2, <2>3
  <2>4. CASE m \notin s
    <3>1. PICK y \in s : TRUE
      OBVIOUS
    <3>2. \A z \in s : z \in Nat /\ z >= 1 /\ m >= z /\ m # z
      BY <2>2, <2>4
    <3>3. m - 1 \in U
      BY <2>2, <3>1, <3>2
    <3>. QED  BY <2>2, <3>3
  <2>. QED  BY <2>3, <2>4
<1>2. Max(s) \in s
  BY <1>1 DEF Max
<1>. QED  BY <1>2

-----------------------------------------------------------------------------
(* Buttons: the loop over the pins.                                        *)

PinStates == {"pssNone", "pssLo", "pssHi", "pssRising", "pssFalling"}
Static == [IsLongPress : [Buttons -> BOOLEAN], LongPressTimer : Time, IsCombo : BOOLEAN,
           LongComboTimer : Time, IsLongCombo : BOOLEAN,
           out : SUBSET ({"beShortPress", "beLongPress", "beLongCombo"} \X Buttons), done : BOOLEAN]

\* One turn of the loop, for button b.
Turn(p, b, st, t) ==
  CASE p.done \/ st[b] = "pssLo" -> p
    [] ~p.done /\ st[b] = "pssRising"  -> Press(p, st, b, t)
    [] ~p.done /\ st[b] = "pssFalling" -> Release(p, st)
    [] ~p.done /\ st[b] = "pssHi"      -> Hold(p, b, t)

Read(st) == st \in [Buttons -> PinStates \ {"pssNone"}]

LEMMA StepTypes ==
  ASSUME NEW p \in Static, NEW b \in Buttons, NEW st, Read(st), NEW t \in Time
  PROVE  /\ Press(p, st, b, t) \in Static
         /\ Release(p, st) \in Static
         /\ Hold(p, b, t) \in Static
<1>0. \A q \in Static, e \in {"beShortPress", "beLongPress", "beLongCombo"} : Send(q, e, b) \in Static
  BY DEF Send, Static
<1>1. Press(p, st, b, t) \in Static
  <2>. DEFINE q == [p EXCEPT !.IsLongPress[b] = FALSE]
              s == Send(q, "beShortPress", b)
  <2>1. q \in Static
    BY DEF Static
  <2>2. s \in Static
    BY <1>0, <2>1
  <2>3. Press(p, st, b, t) = IF Pressed(st) # {b} THEN [q EXCEPT !.IsCombo = TRUE, !.LongComboTimer = t]
                             ELSE [s EXCEPT !.IsCombo = FALSE, !.LongPressTimer = t]
    BY DEF Press
  <2>. HIDE DEF q, s
  <2>4. /\ [q EXCEPT !.IsCombo = TRUE, !.LongComboTimer = t] \in Static
        /\ [s EXCEPT !.IsCombo = FALSE, !.LongPressTimer = t] \in Static
    BY <2>1, <2>2 DEF Static
  <2>. QED  BY <2>3, <2>4
<1>2. Release(p, st) \in Static
  BY DEF Release, Static
<1>3. Hold(p, b, t) \in Static
  <2>. DEFINE l == Send(p, "beLongPress", b)
              c == Send(p, "beLongCombo", b)
  <2>1. l \in Static /\ c \in Static
    BY <1>0
  <2>2. Hold(p, b, t) \in {[l EXCEPT !.IsLongPress[b] = TRUE], [c EXCEPT !.IsLongCombo = TRUE], p}
    BY DEF Hold
  <2>. HIDE DEF l, c
  <2>3. [l EXCEPT !.IsLongPress[b] = TRUE] \in Static /\ [c EXCEPT !.IsLongCombo = TRUE] \in Static
    BY <2>1 DEF Static
  <2>. QED  BY <2>2, <2>3
<1>. QED  BY <1>1, <1>2, <1>3

LEMMA Turns ==
  ASSUME NEW p \in Static, NEW b \in Buttons, NEW st, Read(st), NEW t \in Time
  PROVE  /\ Turn(p, b, st, t) \in Static
         /\ Turn(p, b, st, t) = IF p.done \/ st[b] = "pssLo" THEN p
                                ELSE IF st[b] = "pssRising" THEN Press(p, st, b, t)
                                ELSE IF st[b] = "pssFalling" THEN Release(p, st)
                                ELSE Hold(p, b, t)
<1>1. st[b] \in {"pssLo", "pssHi", "pssRising", "pssFalling"}
  BY DEF Read, PinStates
<1>2. Turn(p, b, st, t) = IF p.done \/ st[b] = "pssLo" THEN p
                          ELSE IF st[b] = "pssRising" THEN Press(p, st, b, t)
                          ELSE IF st[b] = "pssFalling" THEN Release(p, st)
                          ELSE Hold(p, b, t)
  BY <1>1 DEF Turn
<1>. QED  BY <1>2, StepTypes

\* ProcessButtons makes one turn after the other.
LEMMA Loop ==
  ASSUME NEW p0 \in Static, NEW st, Read(st), NEW t \in Time
  PROVE  \E f \in [0..N -> Static] :
            /\ f[0] = p0 /\ \A k \in 1..N : f[k] = Turn(f[k - 1], k, st, t)
            /\ ProcessButtons(p0, st, t) = f[N]
<1>. DEFINE D == SUBSET (1..N)
            T(p, b) == Turn(p, b, st, t)
            seq == [b \in Buttons |-> b]
            Eqn(h) == h = [s \in D |-> IF s = {} THEN p0 ELSE T(h[s \ {Max(s)}], seq[Max(s)])]
            It == CHOOSE h : Eqn(h)
            G == [x \in Static \X (Nat \ {0}) |-> IF x[2] \in 1..N THEN T(x[1], x[2]) ELSE x[1]]
<1>1. N \in Nat
  BY ButtonsAssumption
<1>2. ProcessButtons(p0, st, t) = It[1..N]
  BY <1>1 DEF ProcessButtons, FoldLeft, MapThenFoldSet, Turn, Buttons
<1>3. \A p \in Static, b \in 1..N : T(p, b) \in Static
  BY Turns DEF Buttons
<1>4. \A p \in Static, n \in Nat \ {0} : G[<<p, n>>] = IF n \in 1..N THEN T(p, n) ELSE p
  OBVIOUS
<1>5. \E h : Eqn(h)
  <2>. HIDE DEF G, T
  <2>0. KeepsTo(G, Static)
    BY <1>3, <1>4 DEF KeepsTo
  <2>1. PICK h \in [D -> Static] : IsFold(h, N, p0, G)
    BY <1>1, <2>0, FoldExists
  <2>3. ASSUME NEW s \in D
        PROVE  h[s] = IF s = {} THEN p0 ELSE T(h[s \ {Max(s)}], seq[Max(s)])
    <3>1. CASE s = {}
      BY <2>1, <3>1 DEF IsFold
    <3>2. CASE s # {}
      <4>1. Max(s) \in 1..N /\ Max(s) \in Nat \ {0} /\ seq[Max(s)] = Max(s)
        BY <3>2, <1>1, MaxIn DEF Buttons
      <4>2. h[s \ {Max(s)}] \in Static
        BY <2>1
      <4>. QED  BY <1>4, <2>1, <3>2, <4>1, <4>2 DEF IsFold
    <3>. QED  BY <3>1, <3>2
  <2>4. h = [s \in D |-> IF s = {} THEN p0 ELSE T(h[s \ {Max(s)}], seq[Max(s)])]
    BY <2>1, <2>3
  <2>. QED  BY <2>4
<1>6. Eqn(It)
  BY <1>5
<1>7. /\ It[1..0] = p0
      /\ \A k \in 1..N : It[1..k] = T(It[1..(k - 1)], k)
  <2>. HIDE DEF It, T
  <2>1. \A s \in D : It[s] = IF s = {} THEN p0 ELSE T(It[s \ {Max(s)}], seq[Max(s)])
    BY <1>6
  <2>2. 1..0 \in D /\ 1..0 = {}
    OBVIOUS
  <2>3. ASSUME NEW k \in 1..N
        PROVE  It[1..k] = T(It[1..(k - 1)], k)
    <3>1. k \in Nat \ {0} /\ 1..k \in D /\ seq[k] = k
      BY <1>1 DEF Buttons
    <3>. QED  BY <2>1, <3>1, MaxOfPrefix
  <2>. QED  BY <2>1, <2>2, <2>3
<1>. DEFINE f == [k \in 0..N |-> It[1..k]]
<1>8. f[0] = p0 /\ f[N] = ProcessButtons(p0, st, t)
  BY <1>1, <1>2, <1>7
<1>9. \A k \in 1..N : f[k] = T(f[k - 1], k)
  <2>. HIDE DEF T, It
  <2>. SUFFICES ASSUME NEW k \in 1..N PROVE f[k] = T(f[k - 1], k)
    OBVIOUS
  <2>1. k \in 0..N /\ k - 1 \in 0..N
    BY <1>1
  <2>2. f[k] = It[1..k] /\ f[k - 1] = It[1..(k - 1)]
    BY <2>1
  <2>3. It[1..k] = T(It[1..(k - 1)], k)
    BY <1>7
  <2>. HIDE DEF f
  <2>. QED  BY <2>2, <2>3
<1>10. \A k \in 0..N : f[k] \in Static
  <2>. DEFINE S == {k \in Nat : k \in 0..N => f[k] \in Static}
  <2>. HIDE DEF f, T
  <2>1. 0 \in S
    BY <1>8
  <2>2. ASSUME NEW k \in Nat, k \in S PROVE k + 1 \in S
    <3>1. CASE k + 1 \in 0..N
      <4>1. k \in 0..N /\ k + 1 \in 1..N /\ (k + 1) - 1 = k
        BY <1>1, <3>1
      <4>2. f[k + 1] = T(f[k], k + 1)
        BY <1>9, <4>1
      <4>. QED  BY <1>3, <2>2, <4>1, <4>2
    <3>2. CASE k + 1 \notin 0..N
      BY <3>2
    <3>. QED  BY <3>1, <3>2
  <2>3. \A k \in Nat : k \in S
    <3>. HIDE DEF S
    <3>. QED  BY <2>1, <2>2, SetInduction
  <2>. QED  BY <1>1, <2>3
<1>11. f \in [0..N -> Static]
  <2>1. f = [k \in 0..N |-> f[k]]
    OBVIOUS
  <2>. HIDE DEF f
  <2>. QED  BY <1>10, <2>1
<1>12. f[0] = p0 /\ (\A k \in 1..N : f[k] = Turn(f[k - 1], k, st, t)) /\ ProcessButtons(p0, st, t) = f[N]
  BY <1>8, <1>9
<1>. HIDE DEF f
<1>. QED  BY <1>11, <1>12

-----------------------------------------------------------------------------
(* Buttons: what one poll finds when at most one pin changes at a time.    *)

AllOrNone == (\A b \in Buttons : States[b] = "pssNone") \/ (\A b \in Buttons : States[b] # "pssNone")
Pins(isHi) == [b \in Buttons |-> Edge(States[b], b \in isHi)]

\* c is the only pin with an edge; no pin has one when c is 0.
EdgeAt(st, c) == \A b \in Buttons : IF b = c THEN st[b] \in {"pssRising", "pssFalling"}
                                             ELSE st[b] \in {"pssLo", "pssHi"}

LEMMA OneChange ==
  ASSUME NEW isHi \in SUBSET Buttons, NEW P \in SUBSET Buttons,
         Cardinality(SymDiff(isHi, P)) <= 1
  PROVE  \E c \in 0..N : \A b \in Buttons : b # c => (b \in isHi <=> b \in P)
<1>. DEFINE D == SymDiff(isHi, P)
<1>1. D \subseteq Buttons /\ \A b \in Buttons : b \in D <=> ~(b \in isHi <=> b \in P)
  BY DEF SymDiff
<1>2. IsFiniteSet(D)
  <2>1. IsFiniteSet(Buttons)
    BY ButtonsAssumption, FS_Interval DEF Buttons
  <2>. QED  BY <1>1, <2>1, FS_Subset
<1>. HIDE DEF D
<1>3. CASE D = {}
  <2>1. 0 \in 0..N
    BY ButtonsAssumption
  <2>. QED  BY <1>1, <1>3, <2>1
<1>4. ASSUME NEW c \in D PROVE \A b \in D : b = c
  <2>1. Cardinality(D) <= 1 /\ Cardinality(D) \in Nat
    BY <1>2, FS_CardinalityType DEF D
  <2>2. IsFiniteSet(D \ {c}) /\ Cardinality(D \ {c}) = Cardinality(D) - 1
    BY <1>2, FS_RemoveElement
  <2>3. Cardinality(D \ {c}) \in Nat
    BY <2>2, FS_CardinalityType
  <2>4. D \ {c} = {}
    <3>1. Cardinality(D \ {c}) = 0
      BY <2>1, <2>2, <2>3
    <3>. QED  BY <2>2, <3>1, FS_EmptySet
  <2>. QED  BY <2>4
<1>5. CASE D # {}
  <2>1. PICK c \in D : \A b \in D : b = c
    BY <1>4, <1>5
  <2>2. c \in 0..N
    BY <1>1, ButtonsAssumption DEF Buttons
  <2>. QED  BY <1>1, <2>1, <2>2
<1>. QED  BY <1>3, <1>5

LEMMA FirstPoll ==
  ASSUME TypeOK, \A b \in Buttons : States[b] = "pssNone", NEW isHi \in SUBSET Buttons, PinsMayBe(isHi)
  PROVE  /\ Read(Pins(isHi)) /\ EdgeAt(Pins(isHi), 0)
         /\ ~HeldAtBoot => \A b \in Buttons : Pins(isHi)[b] = "pssLo"
<1>1. \A b \in Buttons : Pins(isHi)[b] = IF b \in isHi THEN "pssHi" ELSE "pssLo"
  BY DEF Pins, Edge
<1>2. \A b \in Buttons : b # 0
  BY ButtonsAssumption DEF Buttons
<1>3. ~HeldAtBoot => isHi = {}
  <2>1. 1 \in Buttons
    BY ButtonsAssumption DEF Buttons
  <2>. QED  BY <2>1 DEF PinsMayBe
<1>4. Read(Pins(isHi))
  <2>1. Pins(isHi) = [b \in Buttons |-> Pins(isHi)[b]]
    BY DEF Pins
  <2>. QED  BY <1>1, <2>1 DEF Read, PinStates
<1>. QED  BY <1>1, <1>2, <1>3, <1>4 DEF EdgeAt

LEMMA LaterPoll ==
  ASSUME TypeOK, \A b \in Buttons : States[b] # "pssNone", NEW isHi \in SUBSET Buttons
  PROVE  /\ Read(Pins(isHi))
         /\ \A b \in Buttons : /\ Down(Pins(isHi), b) <=> b \in isHi
                               /\ Pins(isHi)[b] = "pssRising" <=> ~Down(States, b) /\ b \in isHi
                               /\ Pins(isHi)[b] = "pssFalling" <=> Down(States, b) /\ b \notin isHi
<1>1. \A b \in Buttons : States[b] \in {"pssLo", "pssHi", "pssRising", "pssFalling"}
  BY DEF TypeOK
<1>2. \A b \in Buttons : Pins(isHi)[b] = IF b \in isHi
           THEN IF States[b] \in {"pssLo", "pssFalling"} THEN "pssRising" ELSE "pssHi"
           ELSE IF States[b] \in {"pssHi", "pssRising"} THEN "pssFalling" ELSE "pssLo"
  BY DEF Pins, Edge
<1>3. Read(Pins(isHi))
  <2>1. Pins(isHi) = [b \in Buttons |-> Pins(isHi)[b]]
    BY DEF Pins
  <2>. QED  BY <1>2, <2>1 DEF Read, PinStates
<1>. QED  BY <1>1, <1>2, <1>3 DEF Down

LEMMA OneEdge ==
  ASSUME TypeOK, AllOrNone, Changes <= 1, NEW isHi \in SUBSET Buttons, PinsMayBe(isHi)
  PROVE  Read(Pins(isHi)) /\ \E c \in 0..N : EdgeAt(Pins(isHi), c)
<1>1. CASE \A b \in Buttons : States[b] = "pssNone"
  <2>1. 0 \in 0..N
    BY ButtonsAssumption
  <2>. QED  BY <1>1, <2>1, FirstPoll
<1>2. CASE \A b \in Buttons : States[b] # "pssNone"
  <2>1. Cardinality(SymDiff(isHi, Pressed(States))) <= 1
    <3>1. Pressed(States) \in SUBSET Buttons
      BY DEF Pressed
    <3>2. Cardinality(SymDiff(isHi, Pressed(States))) \in Nat
      <4>1. IsFiniteSet(Buttons)
        BY ButtonsAssumption, FS_Interval DEF Buttons
      <4>2. SymDiff(isHi, Pressed(States)) \subseteq Buttons
        BY <3>1 DEF SymDiff
      <4>. QED  BY <4>1, <4>2, FS_Subset, FS_CardinalityType
    <3>3. Cardinality(SymDiff(isHi, Pressed(States))) <= Changes /\ Changes \in Nat
      BY <1>2, ButtonsAssumption DEF PinsMayBe
    <3>. QED  BY <3>2, <3>3
  <2>2. PICK c \in 0..N : \A b \in Buttons : b # c => (b \in isHi <=> b \in Pressed(States))
    BY <2>1, OneChange DEF Pressed
  <2>3. \A b \in Buttons : Pins(isHi)[b] \in {"pssLo", "pssHi", "pssRising", "pssFalling"}
    BY <1>2, LaterPoll DEF Read, PinStates
  <2>4. \A b \in Buttons : b # c => Pins(isHi)[b] \in {"pssLo", "pssHi"}
    BY <1>2, <2>2, <2>3, LaterPoll DEF Pressed
  <2>5. CASE c \in Buttons /\ ~(c \in isHi <=> c \in Pressed(States))
    <3>1. Pins(isHi)[c] \in {"pssRising", "pssFalling"}
      BY <1>2, <2>3, <2>5, LaterPoll DEF Pressed
    <3>. QED  BY <1>2, <2>4, <3>1, LaterPoll DEF EdgeAt
  <2>6. CASE \A b \in Buttons : b \in isHi <=> b \in Pressed(States)
    <3>1. \A b \in Buttons : Pins(isHi)[b] \in {"pssLo", "pssHi"}
      BY <1>2, <2>3, <2>6, LaterPoll DEF Pressed
    <3>2. 0 \in 0..N /\ \A b \in Buttons : b # 0
      BY ButtonsAssumption DEF Buttons
    <3>. QED  BY <1>2, <3>1, <3>2, LaterPoll DEF EdgeAt
  <2>. QED  BY <2>2, <2>5, <2>6
<1>. QED  BY <1>1, <1>2 DEF AllOrNone

-----------------------------------------------------------------------------
(* Buttons: what the three handlers do to the static variables.            *)

Held(st) == \E b \in Buttons : st[b] = "pssHi"
LongNow(p, b, t) == ~p.IsLongPress[b] /\ ~p.IsCombo /\ Elapsed(p.LongPressTimer, t) >= LongDelay

PressMakes(r, p, b, st, t) ==
  /\ r.IsCombo = (Pressed(st) # {b}) /\ r.IsLongCombo = p.IsLongCombo /\ r.done = p.done
  /\ r.LongPressTimer = IF Pressed(st) = {b} THEN t ELSE p.LongPressTimer
  /\ r.IsLongPress = [p.IsLongPress EXCEPT ![b] = FALSE]
  /\ r.out = IF Pressed(st) = {b} THEN p.out \cup {<<"beShortPress", b>>} ELSE p.out

LEMMA PressEffect ==
  ASSUME NEW p \in Static, NEW b \in Buttons, NEW st, NEW t \in Time
  PROVE  PressMakes(Press(p, st, b, t), p, b, st, t)
<1>. DEFINE q == [p EXCEPT !.IsLongPress[b] = FALSE]
            s == [q EXCEPT !.out = q.out \cup {<<"beShortPress", b>>}]
<1>1. /\ q \in Static /\ q.out = p.out /\ q.done = p.done /\ q.IsLongCombo = p.IsLongCombo
      /\ q.IsLongPress = [p.IsLongPress EXCEPT ![b] = FALSE] /\ q.LongPressTimer = p.LongPressTimer
  BY DEF Static
<1>2. Press(p, st, b, t) = IF Pressed(st) # {b} THEN [q EXCEPT !.IsCombo = TRUE, !.LongComboTimer = t]
                           ELSE [s EXCEPT !.IsCombo = FALSE, !.LongPressTimer = t]
  BY DEF Press, Send
<1>. HIDE DEF q
<1>. QED  BY <1>1, <1>2 DEF Static, PressMakes

LEMMA ReleaseEffect ==
  ASSUME NEW p \in Static, NEW st
  PROVE  LET r == Release(p, st) IN
         /\ r.IsCombo = (p.IsCombo /\ Held(st))
         /\ r.IsLongCombo = (p.IsLongCombo /\ (p.IsCombo => Held(st)))
         /\ r.done = (p.done \/ p.IsCombo)
         /\ r.LongPressTimer = p.LongPressTimer /\ r.IsLongPress = p.IsLongPress /\ r.out = p.out
<1>1. Release(p, st) = IF p.IsCombo
            THEN [p EXCEPT !.IsCombo = Held(st), !.IsLongCombo = Held(st) /\ p.IsLongCombo, !.done = TRUE]
            ELSE p
  BY DEF Release, Held
<1>2. Held(st) \in BOOLEAN
  BY DEF Held
<1>3. CASE p.IsCombo
  BY <1>1, <1>2, <1>3 DEF Static
<1>4. CASE ~p.IsCombo
  BY <1>1, <1>2, <1>4 DEF Static
<1>. QED  BY <1>3, <1>4

LEMMA HoldEffect ==
  ASSUME NEW p \in Static, NEW b \in Buttons, NEW t \in Time
  PROVE  LET r == Hold(p, b, t) IN
         /\ r.IsCombo = p.IsCombo /\ r.done = p.done /\ r.LongPressTimer = p.LongPressTimer
         /\ r.IsLongCombo => p.IsLongCombo \/ p.IsCombo
         /\ r.IsLongPress = IF LongNow(p, b, t) THEN [p.IsLongPress EXCEPT ![b] = TRUE] ELSE p.IsLongPress
         /\ \A type \in {"beShortPress", "beLongPress"}, d \in Buttons :
               <<type, d>> \in r.out <=>
                  <<type, d>> \in p.out \/ (type = "beLongPress" /\ d = b /\ LongNow(p, b, t))
<1>. DEFINE l == [p EXCEPT !.out = p.out \cup {<<"beLongPress", b>>}]
            c == [p EXCEPT !.out = p.out \cup {<<"beLongCombo", b>>}]
            late == p.IsCombo /\ ~p.IsLongCombo /\ Elapsed(p.LongComboTimer, t) >= LongDelay
<1>1. Hold(p, b, t) = IF LongNow(p, b, t) THEN [l EXCEPT !.IsLongPress[b] = TRUE]
                      ELSE IF late THEN [c EXCEPT !.IsLongCombo = TRUE] ELSE p
  BY DEF Hold, Send, LongNow
<1>2. CASE LongNow(p, b, t)
  <2>1. Hold(p, b, t) = [l EXCEPT !.IsLongPress[b] = TRUE]
    BY <1>1, <1>2
  <2>. QED  BY <1>2, <2>1 DEF Static
<1>3. CASE ~LongNow(p, b, t) /\ late
  <2>. DEFINE r == Hold(p, b, t)
  <2>1. r = [c EXCEPT !.IsLongCombo = TRUE] /\ p.IsCombo
    BY <1>1, <1>3
  <2>2. /\ r.IsCombo = p.IsCombo /\ r.done = p.done /\ r.LongPressTimer = p.LongPressTimer
        /\ r.IsLongPress = p.IsLongPress /\ r.out = p.out \cup {<<"beLongCombo", b>>}
    BY <2>1 DEF Static
  <2>. HIDE DEF r
  <2>3. \A type \in {"beShortPress", "beLongPress"}, d \in Buttons :
           <<type, d>> # <<"beLongCombo", b>>
    OBVIOUS
  <2>4. \A type \in {"beShortPress", "beLongPress"}, d \in Buttons :
           <<type, d>> \in r.out <=> <<type, d>> \in p.out
    BY <2>2, <2>3
  <2>5. (r.IsLongCombo => p.IsLongCombo \/ p.IsCombo)
    BY <2>1
  <2>. QED  BY <1>3, <2>2, <2>4, <2>5 DEF r
<1>4. CASE ~LongNow(p, b, t) /\ ~late
  <2>1. Hold(p, b, t) = p
    BY <1>1, <1>4
  <2>. QED  BY <1>4, <2>1 DEF Static
<1>. QED  BY <1>2, <1>3, <1>4

-----------------------------------------------------------------------------
(* Buttons: the variables after the first k turns, when c has the only     *)
(* edge; q is their value before the loop.                                 *)

Rose(k, st, c) == c \in 1..k /\ st[c] = "pssRising"
Fell(k, st, c) == c \in 1..k /\ st[c] = "pssFalling"

ComboAfter(k, p, q, st, c) ==
  /\ p.IsCombo = IF Rose(k, st, c) THEN Pressed(st) # {c}
                 ELSE IF Fell(k, st, c) THEN q.IsCombo /\ Held(st)
                 ELSE q.IsCombo
  /\ p.IsLongCombo => p.IsCombo
  /\ p.done = (Fell(k, st, c) /\ q.IsCombo)

PressAfter(k, p, q, st, c, t) ==
  /\ p.LongPressTimer = IF Rose(k, st, c) /\ Pressed(st) = {c} THEN t ELSE q.LongPressTimer
  /\ Rose(k, st, c) /\ Pressed(st) = {c} => <<"beShortPress", c>> \in p.out
  /\ Rose(k, st, c) => ~p.IsLongPress[c]
  /\ \A b \in Buttons :
        <<"beLongPress", b>> \in p.out => b \in 1..k /\ st[b] = "pssHi" /\ LongNow(q, b, t)
  /\ \A b \in Buttons : st[b] = "pssHi" =>
        p.IsLongPress[b] = (q.IsLongPress[b] \/ <<"beLongPress", b>> \in p.out)
  /\ c = 0 => \A b \in 1..k :
        st[b] = "pssHi" /\ LongNow(q, b, t) => <<"beLongPress", b>> \in p.out

\* The combo has ended before a button is pressed alone.
Before(q, st, c) ==
  /\ q.IsLongCombo => q.IsCombo
  /\ ~q.done
  /\ c \in Buttons /\ Pressed(st) = {c} /\ st[c] = "pssRising" => ~q.IsCombo
  /\ \A b \in Buttons : <<"beLongPress", b>> \notin q.out

LEMMA TurnKeeps ==
  ASSUME NEW q \in Static, NEW st, Read(st), NEW t \in Time, NEW c \in 0..N, EdgeAt(st, c), Before(q, st, c),
         NEW k \in Buttons, NEW p \in Static,
         ComboAfter(k - 1, p, q, st, c), PressAfter(k - 1, p, q, st, c, t)
  PROVE  LET r == Turn(p, k, st, t) IN ComboAfter(k, r, q, st, c) /\ PressAfter(k, r, q, st, c, t)
<1>. DEFINE r == Turn(p, k, st, t)
<1>0. /\ k \in 1..N /\ N \in Nat /\ k \in Nat /\ 1..k \subseteq Buttons
      /\ \A b \in Int : b \in 1..k <=> b \in 1..(k - 1) \/ b = k
      /\ k \notin 1..(k - 1) /\ c \in Int
  BY ButtonsAssumption DEF Buttons
<1>1. r \in Static /\ r = IF p.done \/ st[k] = "pssLo" THEN p
                          ELSE IF st[k] = "pssRising" THEN Press(p, st, k, t)
                          ELSE IF st[k] = "pssFalling" THEN Release(p, st)
                          ELSE Hold(p, k, t)
  BY Turns
<1>. HIDE DEF r
<1>2. st[k] \in {"pssLo", "pssHi", "pssRising", "pssFalling"} /\ (st[k] \in {"pssRising", "pssFalling"} <=> k = c)
  BY DEF Read, PinStates, EdgeAt
<1>3. CASE p.done
  <2>1. r = p /\ k # c /\ c \in 1..(k - 1) /\ st[c] = "pssFalling" /\ q.IsCombo
    BY <1>0, <1>1, <1>3 DEF ComboAfter, Fell
  <2>2. (Rose(k, st, c) <=> Rose(k - 1, st, c)) /\ (Fell(k, st, c) <=> Fell(k - 1, st, c)) /\ c # 0
    BY <1>0, <2>1 DEF Rose, Fell
  <2>3. ComboAfter(k, r, q, st, c)
    BY <2>1, <2>2 DEF ComboAfter
  <2>4. PressAfter(k, r, q, st, c, t)
    BY <1>0, <2>1, <2>2 DEF PressAfter, Buttons
  <2>. QED  BY <2>3, <2>4 DEF r
<1>4. CASE st[k] = "pssLo"
  <2>1. r = p /\ k # c
    BY <1>1, <1>2, <1>4
  <2>2. (Rose(k, st, c) <=> Rose(k - 1, st, c)) /\ (Fell(k, st, c) <=> Fell(k - 1, st, c))
    BY <1>0, <2>1 DEF Rose, Fell
  <2>3. ComboAfter(k, r, q, st, c)
    BY <2>1, <2>2 DEF ComboAfter
  <2>4. PressAfter(k, r, q, st, c, t)
    BY <1>0, <1>4, <2>1, <2>2 DEF PressAfter, Buttons
  <2>. QED  BY <2>3, <2>4 DEF r
<1>5. CASE ~p.done /\ st[k] = "pssRising"
  <2>1. r = Press(p, st, k, t) /\ k = c
    BY <1>1, <1>2, <1>5
  <2>2. Rose(k, st, c) /\ ~Fell(k, st, c) /\ ~Rose(k - 1, st, c) /\ ~Fell(k - 1, st, c) /\ c # 0
    BY <1>0, <1>5, <2>1 DEF Rose, Fell
  <2>3. /\ r.IsCombo = (Pressed(st) # {c}) /\ r.IsLongCombo = p.IsLongCombo /\ r.done = p.done
        /\ r.LongPressTimer = IF Pressed(st) = {c} THEN t ELSE p.LongPressTimer
        /\ r.IsLongPress = [p.IsLongPress EXCEPT ![c] = FALSE]
        /\ r.out = IF Pressed(st) = {c} THEN p.out \cup {<<"beShortPress", c>>} ELSE p.out
    <3>1. PressMakes(Press(p, st, k, t), p, k, st, t)
      BY PressEffect
    <3>. QED  BY <2>1, <3>1 DEF PressMakes
  <2>4. ComboAfter(k, r, q, st, c)
    <3>1. r.IsLongCombo => r.IsCombo
      BY <1>5, <2>1, <2>2, <2>3 DEF ComboAfter, Before
    <3>. QED  BY <1>5, <2>2, <2>3, <3>1 DEF ComboAfter
  <2>5. PressAfter(k, r, q, st, c, t)
    <3>1. p.IsLongPress \in [Buttons -> BOOLEAN]
      BY DEF Static
    <3>2. ~r.IsLongPress[c] /\ \A b \in Buttons : b # c => r.IsLongPress[b] = p.IsLongPress[b]
      BY <2>1, <2>3, <3>1
    <3>3. \A b \in Buttons : <<"beLongPress", b>> \in r.out <=> <<"beLongPress", b>> \in p.out
      <4>1. \A b \in Buttons : <<"beLongPress", b>> # <<"beShortPress", c>>
        OBVIOUS
      <4>. QED  BY <2>3, <4>1
    <3>4. \A b \in Buttons : st[b] = "pssHi" => b # c
      BY <1>5, <2>1
    <3>5. Pressed(st) = {c} => <<"beShortPress", c>> \in r.out
      BY <2>3
    <3>6. r.LongPressTimer = IF Rose(k, st, c) /\ Pressed(st) = {c} THEN t ELSE q.LongPressTimer
      BY <2>2, <2>3 DEF PressAfter
    <3>7. \A b \in Buttons : <<"beLongPress", b>> \in r.out =>
             b \in 1..k /\ st[b] = "pssHi" /\ LongNow(q, b, t)
      BY <1>0, <3>3 DEF PressAfter, Buttons
    <3>8. \A b \in Buttons : st[b] = "pssHi" =>
             r.IsLongPress[b] = (q.IsLongPress[b] \/ <<"beLongPress", b>> \in r.out)
      BY <3>2, <3>3, <3>4 DEF PressAfter
    <3>. QED  BY <2>2, <3>2, <3>5, <3>6, <3>7, <3>8 DEF PressAfter
  <2>. QED  BY <2>4, <2>5 DEF r
<1>6. CASE ~p.done /\ st[k] = "pssFalling"
  <2>1. r = Release(p, st) /\ k = c
    BY <1>1, <1>2, <1>6
  <2>2. Fell(k, st, c) /\ ~Rose(k, st, c) /\ ~Rose(k - 1, st, c) /\ ~Fell(k - 1, st, c) /\ c # 0
    BY <1>0, <1>6, <2>1 DEF Rose, Fell
  <2>3. /\ r.IsCombo = (p.IsCombo /\ Held(st))
        /\ r.IsLongCombo = (p.IsLongCombo /\ (p.IsCombo => Held(st)))
        /\ r.done = (p.done \/ p.IsCombo)
        /\ r.LongPressTimer = p.LongPressTimer /\ r.IsLongPress = p.IsLongPress /\ r.out = p.out
    BY <2>1, ReleaseEffect
  <2>4. ComboAfter(k, r, q, st, c)
    BY <1>6, <2>2, <2>3 DEF ComboAfter
  <2>5. PressAfter(k, r, q, st, c, t)
    BY <1>0, <2>2, <2>3 DEF PressAfter
  <2>. QED  BY <2>4, <2>5 DEF r
<1>7. CASE ~p.done /\ st[k] = "pssHi"
  <2>1. r = Hold(p, k, t) /\ k # c
    BY <1>1, <1>2, <1>7
  <2>2. (Rose(k, st, c) <=> Rose(k - 1, st, c)) /\ (Fell(k, st, c) <=> Fell(k - 1, st, c))
    BY <1>0, <2>1 DEF Rose, Fell
  <2>3. /\ r.IsCombo = p.IsCombo /\ r.done = p.done /\ r.LongPressTimer = p.LongPressTimer
        /\ (r.IsLongCombo => p.IsLongCombo \/ p.IsCombo)
        /\ r.IsLongPress = (IF LongNow(p, k, t) THEN [p.IsLongPress EXCEPT ![k] = TRUE] ELSE p.IsLongPress)
        /\ \A type \in {"beShortPress", "beLongPress"}, d \in Buttons :
              <<type, d>> \in r.out <=>
                 <<type, d>> \in p.out \/ (type = "beLongPress" /\ d = k /\ LongNow(p, k, t))
    BY <2>1, HoldEffect
  <2>4. ComboAfter(k, r, q, st, c)
    BY <2>2, <2>3 DEF ComboAfter
  <2>5. /\ LongNow(p, k, t) => LongNow(q, k, t)
        /\ c = 0 /\ LongNow(q, k, t) => LongNow(p, k, t) \/ <<"beLongPress", k>> \in p.out
    <3>1. k \in Pressed(st)
      BY <1>7 DEF Pressed, Down
    <3>2. Rose(k - 1, st, c) => p.IsCombo
      BY <2>1, <3>1 DEF ComboAfter
    <3>3. Fell(k - 1, st, c) => ~q.IsCombo
      BY <1>7 DEF ComboAfter
    <3>4. ~Rose(k - 1, st, c) => p.IsCombo = q.IsCombo /\ p.LongPressTimer = q.LongPressTimer
      BY <3>3 DEF ComboAfter, PressAfter, Static
    <3>5. <<"beLongPress", k>> \notin p.out /\ p.IsLongPress[k] = q.IsLongPress[k]
      <4>1. <<"beLongPress", k>> \notin p.out
        BY <1>0 DEF PressAfter
      <4>2. q.IsLongPress[k] \in BOOLEAN
        BY DEF Static
      <4>. QED  BY <1>7, <4>1, <4>2 DEF PressAfter
    <3>6. c = 0 => ~Rose(k - 1, st, c)
      BY <1>0 DEF Rose
    <3>. QED  BY <3>2, <3>4, <3>5, <3>6 DEF LongNow
  <2>6. PressAfter(k, r, q, st, c, t)
    <3>1. p.IsLongPress \in [Buttons -> BOOLEAN]
      BY DEF Static
    <3>2. \A b \in Buttons : /\ b # k => r.IsLongPress[b] = p.IsLongPress[b]
                             /\ r.IsLongPress[k] = (p.IsLongPress[k] \/ LongNow(p, k, t))
      BY <2>3, <3>1
    <3>3. \A b \in Buttons : <<"beLongPress", b>> \in r.out <=>
                               <<"beLongPress", b>> \in p.out \/ (b = k /\ LongNow(p, k, t))
      BY <2>3
    <3>4. \A b \in Buttons : <<"beShortPress", b>> \in r.out <=> <<"beShortPress", b>> \in p.out
      BY <2>3
    <3>5. Rose(k, st, c) => c \in Buttons
      BY <1>0 DEF Rose
    <3>6. r.LongPressTimer = IF Rose(k, st, c) /\ Pressed(st) = {c} THEN t ELSE q.LongPressTimer
      BY <2>2, <2>3 DEF PressAfter
    <3>7. /\ Rose(k, st, c) /\ Pressed(st) = {c} => <<"beShortPress", c>> \in r.out
          /\ Rose(k, st, c) => ~r.IsLongPress[c]
      BY <2>1, <2>2, <3>2, <3>4, <3>5 DEF PressAfter
    <3>8. \A b \in Buttons : <<"beLongPress", b>> \in r.out =>
             b \in 1..k /\ st[b] = "pssHi" /\ LongNow(q, b, t)
      BY <1>0, <1>7, <2>5, <3>3 DEF PressAfter, Buttons
    <3>9. \A b \in Buttons : st[b] = "pssHi" =>
             r.IsLongPress[b] = (q.IsLongPress[b] \/ <<"beLongPress", b>> \in r.out)
      BY <3>2, <3>3 DEF PressAfter
    <3>10. c = 0 => \A b \in 1..k : st[b] = "pssHi" /\ LongNow(q, b, t) => <<"beLongPress", b>> \in r.out
      BY <1>0, <2>5, <3>3 DEF PressAfter, Buttons
    <3>. QED  BY <3>6, <3>7, <3>8, <3>9, <3>10 DEF PressAfter
  <2>. QED  BY <2>4, <2>6 DEF r
<1>. QED  BY <1>2, <1>3, <1>4, <1>5, <1>6, <1>7

LEMMA LoopKeeps ==
  ASSUME NEW q \in Static, NEW st, Read(st), NEW t \in Time, NEW c \in 0..N, EdgeAt(st, c), Before(q, st, c)
  PROVE  LET p == ProcessButtons(q, st, t) IN ComboAfter(N, p, q, st, c) /\ PressAfter(N, p, q, st, c, t)
<1>1. PICK f \in [0..N -> Static] : /\ f[0] = q /\ \A k \in 1..N : f[k] = Turn(f[k - 1], k, st, t)
                                    /\ ProcessButtons(q, st, t) = f[N]
  BY Loop
<1>. DEFINE Kept(k) == ComboAfter(k, f[k], q, st, c) /\ PressAfter(k, f[k], q, st, c, t)
            S == {k \in Nat : k \in 0..N => Kept(k)}
<1>2. 0 \in S
  <2>1. ~Rose(0, st, c) /\ ~Fell(0, st, c)
    BY DEF Rose, Fell
  <2>2. ComboAfter(0, q, q, st, c)
    BY <2>1 DEF ComboAfter, Before, Static
  <2>3. \A b \in Buttons : q.IsLongPress[b] \in BOOLEAN
    BY DEF Static
  <2>4. PressAfter(0, q, q, st, c, t)
    BY <2>1, <2>3 DEF PressAfter, Before
  <2>. QED  BY <1>1, <2>2, <2>4
<1>3. ASSUME NEW k \in Nat, k \in S PROVE k + 1 \in S
  <2>1. CASE k + 1 \in 0..N
    <3>1. k \in 0..N /\ k + 1 \in 1..N /\ k + 1 \in Buttons /\ (k + 1) - 1 = k
      BY <2>1, ButtonsAssumption DEF Buttons
    <3>2. Kept(k) /\ f[k] \in Static /\ f[k + 1] = Turn(f[k], k + 1, st, t)
      BY <1>1, <1>3, <3>1
    <3>3. ComboAfter((k + 1) - 1, f[k], q, st, c) /\ PressAfter((k + 1) - 1, f[k], q, st, c, t)
      BY <3>1, <3>2
    <3>4. Kept(k + 1)
      BY <3>1, <3>2, <3>3, TurnKeeps
    <3>. QED  BY <3>4
  <2>2. CASE k + 1 \notin 0..N
    BY <2>2
  <2>. QED  BY <2>1, <2>2
<1>4. \A k \in Nat : k \in S
  <2>. HIDE DEF S
  <2>. QED  BY <1>2, <1>3, SetInduction
<1>5. Kept(N)
  BY <1>4, ButtonsAssumption
<1>. QED  BY <1>1, <1>5

-----------------------------------------------------------------------------
(* Buttons: the steps.                                                     *)

Statics == [IsLongPress |-> IsLongPress, LongPressTimer |-> LongPressTimer, IsCombo |-> IsCombo,
            LongComboTimer |-> LongComboTimer, IsLongCombo |-> IsLongCombo, out |-> {}, done |-> FALSE]
Done(isHi, gap) == ProcessButtons(Statics, Pins(isHi), Tick(now, gap))

\* A poll makes the static variables what p has.
PollMakes(isHi, gap, p) ==
  /\ now' = Tick(now, gap) /\ States' = Pins(isHi)
  /\ IsLongPress' = p.IsLongPress /\ LongPressTimer' = p.LongPressTimer
  /\ IsCombo' = p.IsCombo /\ LongComboTimer' = p.LongComboTimer /\ IsLongCombo' = p.IsLongCombo
  /\ Remember(Pins(isHi), gap, p.out)

LEMMA PinsRead ==
  ASSUME TypeOK, NEW isHi
  PROVE  Read(Pins(isHi))
<1>1. \A b \in Buttons : Pins(isHi)[b] \in PinStates \ {"pssNone"}
  BY DEF Pins, Edge, PinStates
<1>2. Pins(isHi) = [b \in Buttons |-> Pins(isHi)[b]]
  BY DEF Pins
<1>. QED  BY <1>1, <1>2 DEF Read

LEMMA PollIs ==
  ASSUME TypeOK, NEW isHi \in SUBSET Buttons, NEW gap \in 1 .. MaxGap, Poll(isHi, gap)
  PROVE  /\ Statics \in Static /\ Done(isHi, gap) \in Static
         /\ Tick(now, gap) \in Time /\ PollMakes(isHi, gap, Done(isHi, gap))
<1>1. Tick(now, gap) \in Time
  <2>1. now \in Int /\ gap \in Int /\ Wrap \in Nat \ {0} /\ now + gap \in Int
    BY ButtonsAssumption DEF TypeOK, Time
  <2>2. (now + gap) % Wrap \in 0 .. Wrap - 1
    BY <2>1
  <2>. QED  BY <2>2 DEF Tick, Time
<1>2. Statics \in Static
  BY DEF Statics, Static, TypeOK
<1>3. Done(isHi, gap) \in Static
  <2>1. N \in 0..N
    BY ButtonsAssumption
  <2>. QED  BY <1>1, <1>2, <2>1, PinsRead, Loop DEF Done
<1>4. PollMakes(isHi, gap, Done(isHi, gap))
  BY DEF Poll, PollMakes, Done, Statics, Pins
<1>. QED  BY <1>1, <1>2, <1>3, <1>4

LEMMA TypeStep ==
  ASSUME TypeOK, [Next]_vars
  PROVE  TypeOK'
<1>1. CASE UNCHANGED vars
  BY <1>1 DEF vars, TypeOK, Time
<1>2. ASSUME NEW isHi \in SUBSET Buttons, NEW gap \in 1 .. MaxGap, Poll(isHi, gap)
      PROVE  TypeOK'
  <2>. DEFINE p == Done(isHi, gap)
  <2>1. p \in Static /\ Tick(now, gap) \in Time /\ PollMakes(isHi, gap, p)
    BY <1>2, PollIs
  <2>. HIDE DEF p
  <2>2. States' \in [Buttons -> PinStates]
    BY <2>1, PinsRead DEF PollMakes, Read, PinStates
  <2>3. /\ IsLongPress' \in [Buttons -> BOOLEAN] /\ IsCombo' \in BOOLEAN /\ IsLongCombo' \in BOOLEAN
        /\ now' \in Time /\ LongPressTimer' \in Time /\ LongComboTimer' \in Time
    BY <2>1 DEF PollMakes, Static
  <2>4. age' \in [Buttons -> 0 .. LongDelay]
    <3>1. \A b \in Buttons : age[b] \in 0 .. LongDelay
      BY DEF TypeOK
    <3>2. \A b \in Buttons : age[b] + gap \in Nat
      BY <3>1, ButtonsAssumption
    <3>. QED  BY <2>1, <3>1, <3>2, ButtonsAssumption DEF PollMakes, Remember
  <2>5. solo' \in [Buttons -> BOOLEAN]
    BY <2>1 DEF PollMakes, Remember
  <2>6. told' \in [Buttons -> SUBSET {"beShortPress", "beLongPress"}]
    BY <2>1 DEF PollMakes, Remember, TypeOK
  <2>. QED  BY <2>2, <2>3, <2>4, <2>5, <2>6 DEF TypeOK, PinStates, Time
<1>. QED  BY <1>1, <1>2 DEF Next

LEMMA TypeInit == Init => TypeOK
<1>1. 0 \in 0 .. Wrap - 1 /\ 0 \in 0 .. LongDelay
  BY ButtonsAssumption
<1>. QED  BY <1>1 DEF Init, TypeOK, Time

\* TypeOK: the static variables of ProcessButtons keep their types, and the
\* times stay below the range of systime_t, however many pins change at once.
THEOREM TypeCorrect == Spec => []TypeOK
<1>. QED  BY TypeInit, TypeStep, PTL DEF Spec

-----------------------------------------------------------------------------
(* Buttons: combos.                                                        *)

CombosOK == /\ TypeOK /\ AllOrNone
            /\ Pressed(States) = {} => ~IsCombo
            /\ IsLongCombo => IsCombo

\* The pin with an edge is the one that goes into or out of Pressed.
LEMMA EdgePins ==
  ASSUME TypeOK, AllOrNone, NEW isHi \in SUBSET Buttons, PinsMayBe(isHi), NEW c \in 0..N, EdgeAt(Pins(isHi), c)
  PROVE  LET st == Pins(isHi) IN
         /\ \A b \in Buttons : st[b] # "pssNone"
         /\ \/ /\ \A b \in Buttons : States[b] = "pssNone"
               /\ c = 0 /\ Pressed(States) = {} /\ (~HeldAtBoot => \A b \in Buttons : st[b] = "pssLo")
            \/ /\ \A b \in Buttons : b # c => (Down(st, b) <=> Down(States, b))
               /\ c \in Buttons => \/ st[c] = "pssRising" /\ ~Down(States, c) /\ Down(st, c)
                                   \/ st[c] = "pssFalling" /\ Down(States, c) /\ ~Down(st, c)
<1>. DEFINE st == Pins(isHi)
<1>1. \A b \in Buttons : st[b] # "pssNone"
  BY PinsRead DEF Read
<1>2. CASE \A b \in Buttons : States[b] = "pssNone"
  <2>1. EdgeAt(st, 0) /\ (~HeldAtBoot => \A b \in Buttons : st[b] = "pssLo")
    BY <1>2, FirstPoll
  <2>2. c = 0
    <3>1. c = 0 \/ c \in Buttons
      BY ButtonsAssumption DEF Buttons
    <3>2. \A b \in Buttons : b # 0
      BY ButtonsAssumption DEF Buttons
    <3>3. EdgeAt(st, c)
      OBVIOUS
    <3>. HIDE DEF st
    <3>. QED  BY <2>1, <3>1, <3>2, <3>3 DEF EdgeAt
  <2>3. Pressed(States) = {}
    BY <1>2 DEF Pressed, Down
  <2>. QED  BY <1>1, <1>2, <2>1, <2>2, <2>3
<1>3. CASE \A b \in Buttons : States[b] # "pssNone"
  <2>1. \A b \in Buttons : /\ Down(st, b) <=> b \in isHi
                           /\ st[b] = "pssRising" <=> ~Down(States, b) /\ b \in isHi
                           /\ st[b] = "pssFalling" <=> Down(States, b) /\ b \notin isHi
    BY <1>3, LaterPoll
  <2>. HIDE DEF st
  <2>2. EdgeAt(st, c)
    BY DEF st
  <2>3. \A b \in Buttons : b # c => (Down(st, b) <=> Down(States, b))
    BY <2>1, <2>2 DEF EdgeAt
  <2>4. c \in Buttons => \/ st[c] = "pssRising" /\ ~Down(States, c) /\ Down(st, c)
                         \/ st[c] = "pssFalling" /\ Down(States, c) /\ ~Down(st, c)
    BY <2>1, <2>2 DEF EdgeAt
  <2>. QED  BY <1>1, <2>3, <2>4 DEF st
<1>. QED  BY <1>2, <1>3 DEF AllOrNone

\* What the loop has done, given the invariant.
LEMMA PollDoes ==
  ASSUME CombosOK, Changes <= 1, NEW isHi \in SUBSET Buttons, NEW gap \in 1 .. MaxGap,
         PinsMayBe(isHi), Poll(isHi, gap)
  PROVE  LET st == Pins(isHi)
             p  == Done(isHi, gap)
         IN \E c \in 0..N :
               /\ EdgeAt(st, c)
               /\ ComboAfter(N, p, Statics, st, c)
               /\ PressAfter(N, p, Statics, st, c, Tick(now, gap))
<1>. DEFINE st == Pins(isHi)
<1>1. TypeOK /\ AllOrNone
  BY DEF CombosOK
<1>2. PICK c \in 0..N : EdgeAt(st, c)
  BY <1>1, OneEdge
<1>3. Read(st) /\ Statics \in Static /\ Tick(now, gap) \in Time
  BY <1>1, PinsRead, PollIs
<1>4. Before(Statics, st, c)
  <2>1. c \in Buttons /\ Pressed(st) = {c} /\ st[c] = "pssRising" => Pressed(States) = {}
    <3>1. \A b \in Buttons : b # 0
      BY ButtonsAssumption DEF Buttons
    <3>2. \/ c = 0
          \/ /\ \A b \in Buttons : b # c => (Down(st, b) <=> Down(States, b))
             /\ c \in Buttons => \/ st[c] = "pssRising" /\ ~Down(States, c) /\ Down(st, c)
                                 \/ st[c] = "pssFalling" /\ Down(States, c) /\ ~Down(st, c)
      BY <1>1, <1>2, EdgePins
    <3>. HIDE DEF st
    <3>. QED  BY <3>1, <3>2 DEF Pressed
  <2>. QED  BY <2>1 DEF Before, Statics, CombosOK
<1>5. ComboAfter(N, Done(isHi, gap), Statics, st, c) /\ PressAfter(N, Done(isHi, gap), Statics, st, c, Tick(now, gap))
  <2>. HIDE DEF st
  <2>1. LET p == ProcessButtons(Statics, st, Tick(now, gap))
        IN ComboAfter(N, p, Statics, st, c) /\ PressAfter(N, p, Statics, st, c, Tick(now, gap))
    BY <1>2, <1>3, <1>4, LoopKeeps
  <2>. QED  BY <2>1 DEF Done, st
<1>. QED  BY <1>2, <1>5

LEMMA CombosStep ==
  ASSUME CombosOK, [Next]_vars, Changes <= 1
  PROVE  CombosOK'
<1>1. CASE UNCHANGED vars
  BY <1>1, TypeStep DEF vars, CombosOK, AllOrNone, Pressed, Down
<1>2. ASSUME NEW isHi \in SUBSET Buttons, NEW gap \in 1 .. MaxGap, PinsMayBe(isHi), Poll(isHi, gap)
      PROVE  CombosOK'
  <2>. DEFINE st == Pins(isHi)
              p == Done(isHi, gap)
  <2>1. TypeOK /\ AllOrNone /\ TypeOK'
    BY <1>2, TypeStep DEF CombosOK, Next
  <2>2. PICK c \in 0..N : EdgeAt(st, c) /\ ComboAfter(N, p, Statics, st, c)
    BY <1>2, PollDoes
  <2>3. PollMakes(isHi, gap, p)
    BY <1>2, <2>1, PollIs
  <2>4. /\ \A b \in Buttons : st[b] # "pssNone"
        /\ \/ c = 0 /\ Pressed(States) = {}
           \/ /\ \A b \in Buttons : b # c => (Down(st, b) <=> Down(States, b))
              /\ c \in Buttons => \/ st[c] = "pssRising" /\ ~Down(States, c) /\ Down(st, c)
                                  \/ st[c] = "pssFalling" /\ Down(States, c) /\ ~Down(st, c)
    BY <1>2, <2>1, <2>2, EdgePins
  <2>5. Statics.IsCombo = IsCombo
    BY DEF Statics
  <2>. HIDE DEF st, p
  <2>6. States' = st /\ IsCombo' = p.IsCombo /\ IsLongCombo' = p.IsLongCombo
    BY <2>3 DEF PollMakes, st
  <2>7. AllOrNone'
    BY <2>4, <2>6 DEF AllOrNone
  <2>8. Pressed(st) = {} => ~p.IsCombo
    <3>1. SUFFICES ASSUME Pressed(st) = {} PROVE ~p.IsCombo
      OBVIOUS
    <3>2. ~Held(st) /\ ~Rose(N, st, c)
      BY <3>1 DEF Pressed, Down, Held, Rose, Buttons
    <3>3. CASE Fell(N, st, c)
      BY <2>2, <3>2, <3>3 DEF ComboAfter
    <3>4. CASE ~Fell(N, st, c)
      <4>1. c \notin Buttons
        BY <2>2, <3>2, <3>4 DEF EdgeAt, Fell, Rose, Buttons
      <4>2. Pressed(States) = {}
        BY <2>4, <3>1, <4>1 DEF Pressed
      <4>3. ~IsCombo
        BY <4>2 DEF CombosOK
      <4>. QED  BY <2>2, <2>5, <3>2, <3>4, <4>3 DEF ComboAfter
    <3>. QED  BY <3>3, <3>4
  <2>9. Pressed(States)' = Pressed(st)
    BY <2>6 DEF Pressed, Down
  <2>10. p.IsLongCombo => p.IsCombo
    BY <2>2 DEF ComboAfter
  <2>. QED  BY <2>1, <2>6, <2>7, <2>8, <2>9, <2>10 DEF CombosOK
<1>. QED  BY <1>1, <1>2 DEF Next

LEMMA CombosInvariant == Changes <= 1 => (Spec => []CombosOK)
<1>. SUFFICES ASSUME Changes <= 1 PROVE Spec => []CombosOK
  OBVIOUS
<1>1. Init => CombosOK
  <2>1. Init => TypeOK
    BY TypeInit
  <2>. QED  BY <2>1 DEF Init, CombosOK, AllOrNone
<1>2. CombosOK /\ [Next]_vars => CombosOK'
  BY CombosStep
<1>. QED  BY <1>1, <1>2, PTL DEF Spec

\* ComboEnds: when at most one pin changes between two polls, a combo never
\* outlives its last button, whatever was down when the device started.
THEOREM ComboEndsHolds == Changes <= 1 => (Spec => []ComboEnds)
<1>1. CombosOK => ComboEnds
  BY DEF CombosOK, ComboEnds
<1>. QED  BY <1>1, CombosInvariant, PTL

-----------------------------------------------------------------------------
(* Buttons: presses of a single button.                                    *)

PressesOK ==
  /\ CombosOK
  /\ \A b \in Buttons : solo[b] <=> Pressed(States) = {b} /\ ~IsCombo
  /\ ~IsCombo => \A b, d \in Pressed(States) : b = d
  /\ PressReported
  /\ \A b \in Buttons : solo[b] /\ ~IsLongPress[b] =>
        age[b] < LongDelay /\ Elapsed(LongPressTimer, now) = age[b]
  /\ \A b \in Buttons : solo[b] /\ IsLongPress[b] => age[b] = LongDelay /\ "beLongPress" \in told[b]
  /\ LongAfterShort

\* The subtraction of two times that both wrap around gives the time between
\* them, as long as less than a whole range has passed.
Near(x, W) == x \in Int /\ -W <= x /\ x < 2 * W
Folded(x, W) == x % W = IF x < 0 THEN x + W ELSE IF x < W THEN x ELSE x - W

LEMMA Wraps ==
  ASSUME NEW W \in Nat \ {0}, NEW x, Near(x, W)
  PROVE  Folded(x, W)
<1>1. x \in Int /\ -W <= x /\ x < 2 * W
  BY DEF Near
<1>2. x % W = IF x < 0 THEN x + W ELSE IF x < W THEN x ELSE x - W
  BY <1>1
<1>. QED  BY <1>2 DEF Folded

LEMMA ElapsedAdds ==
  ASSUME NEW since \in Time, NEW t \in Time, NEW gap \in 1 .. MaxGap, Elapsed(since, t) + gap < Wrap
  PROVE  Elapsed(since, Tick(t, gap)) = Elapsed(since, t) + gap
<1>1. /\ Wrap \in Nat \ {0} /\ since \in Int /\ t \in Int /\ gap \in Int /\ gap < Wrap
      /\ 0 <= since /\ since < Wrap /\ 0 <= t /\ t < Wrap /\ 1 <= gap
  BY ButtonsAssumption DEF Time
<1>. DEFINE e == t - since
            s == t + gap
<1>2. e \in Int /\ -Wrap <= e /\ e < Wrap /\ s \in Int /\ 0 <= s /\ s < 2 * Wrap
  BY <1>1
<1>3. Elapsed(since, t) = IF e < 0 THEN e + Wrap ELSE e
  <2>1. Elapsed(since, t) = e % Wrap
    BY DEF Elapsed
  <2>. HIDE DEF e
  <2>2. Near(e, Wrap)
    BY <1>1, <1>2 DEF Near
  <2>4. Folded(e, Wrap)
    BY <1>1, <2>2, Wraps
  <2>. QED  BY <1>1, <1>2, <2>1, <2>4 DEF Folded
<1>4. Tick(t, gap) = IF s < Wrap THEN s ELSE s - Wrap
  <2>1. Tick(t, gap) = s % Wrap
    BY DEF Tick
  <2>. HIDE DEF s
  <2>2. Near(s, Wrap)
    BY <1>1, <1>2 DEF Near
  <2>4. Folded(s, Wrap)
    BY <1>1, <2>2, Wraps
  <2>. QED  BY <1>1, <1>2, <2>1, <2>4 DEF Folded
<1>. DEFINE u == Tick(t, gap)
            d == u - since
<1>5. u \in Int /\ 0 <= u /\ u < Wrap
  BY <1>1, <1>2, <1>4
<1>6. Elapsed(since, u) = IF d < 0 THEN d + Wrap ELSE d
  <2>1. Elapsed(since, u) = d % Wrap
    BY DEF Elapsed
  <2>2. d \in Int /\ -Wrap <= d /\ d < Wrap
    <3>. HIDE DEF u
    <3>. QED  BY <1>1, <1>5
  <2>. HIDE DEF d
  <2>3. Near(d, Wrap)
    BY <1>1, <2>2 DEF Near
  <2>4. Folded(d, Wrap)
    BY <1>1, <2>3, Wraps
  <2>. QED  BY <1>1, <2>1, <2>2, <2>4 DEF Folded
<1>7. u = IF s < Wrap THEN s ELSE s - Wrap
  BY <1>4
<1>. HIDE DEF u
<1>. QED  BY <1>1, <1>3, <1>5, <1>6, <1>7 DEF u

\* What Remember makes of one button's history.
Kept(b, st, gap, out) ==
  /\ age'[b] = IF Down(st, b) /\ Down(States, b)
               THEN IF age[b] + gap < LongDelay THEN age[b] + gap ELSE LongDelay
               ELSE 0
  /\ solo'[b] = (Pressed(st) = {b} /\ (Down(States, b) => solo[b]))
  /\ ~Down(st, b) => told'[b] = {}
  /\ Down(st, b) => \A type \in {"beShortPress", "beLongPress"} :
        type \in told'[b] <=> <<type, b>> \in out \/ (Down(States, b) /\ type \in told[b])

LEMMA RememberKeeps ==
  ASSUME NEW st, NEW gap, NEW out, Remember(st, gap, out), NEW b \in Buttons
  PROVE  Kept(b, st, gap, out)
BY DEF Remember, Kept

\* A button held alone through a poll: the timer tells its age.
LEMMA AgeTold ==
  ASSUME PressesOK, NEW b \in Buttons, solo[b], ~IsLongPress[b], NEW gap \in 1 .. MaxGap
  PROVE  Elapsed(LongPressTimer, Tick(now, gap)) = age[b] + gap
<1>1. age[b] < LongDelay /\ Elapsed(LongPressTimer, now) = age[b] /\ TypeOK
  BY DEF PressesOK, CombosOK
<1>2. age[b] \in Nat /\ LongPressTimer \in Time /\ now \in Time
  BY <1>1 DEF TypeOK, Time
<1>3. Elapsed(LongPressTimer, now) + gap < Wrap
  BY <1>1, <1>2, ButtonsAssumption
<1>. QED  BY <1>1, <1>2, <1>3, ElapsedAdds

LEMMA PressesPoll ==
  ASSUME PressesOK, Changes <= 1, ~HeldAtBoot, NEW isHi \in SUBSET Buttons, NEW gap \in 1 .. MaxGap,
         PinsMayBe(isHi), Poll(isHi, gap)
  PROVE  PressesOK'
<1>. DEFINE st == Pins(isHi)
            p == Done(isHi, gap)
            t == Tick(now, gap)
<1>1. CombosOK /\ TypeOK /\ AllOrNone /\ CombosOK' /\ TypeOK'
  <2>1. CombosOK /\ [Next]_vars
    BY DEF PressesOK, Next
  <2>. QED  BY <2>1, CombosStep DEF CombosOK
<1>2. PICK c \in 0..N : EdgeAt(st, c) /\ ComboAfter(N, p, Statics, st, c) /\ PressAfter(N, p, Statics, st, c, t)
  BY <1>1, PollDoes
<1>3. PollMakes(isHi, gap, p) /\ Read(st) /\ t \in Time /\ p \in Static
  BY <1>1, PollIs, PinsRead
<1>4. \/ \A b \in Buttons : st[b] = "pssLo"
      \/ /\ \A b \in Buttons : b # c => (Down(st, b) <=> Down(States, b))
         /\ c \in Buttons => \/ st[c] = "pssRising" /\ ~Down(States, c) /\ Down(st, c)
                             \/ st[c] = "pssFalling" /\ Down(States, c) /\ ~Down(st, c)
  BY <1>1, <1>2, EdgePins
<1>5. /\ Statics.IsCombo = IsCombo /\ Statics.LongPressTimer = LongPressTimer
      /\ Statics.IsLongPress = IsLongPress
  BY DEF Statics
<1>. HIDE DEF st, p, t
<1>6. /\ now' = t /\ States' = st /\ IsLongPress' = p.IsLongPress /\ LongPressTimer' = p.LongPressTimer
      /\ IsCombo' = p.IsCombo
  BY <1>3 DEF PollMakes, st, t
<1>7. \A b \in Buttons : Kept(b, st, gap, p.out)
  BY <1>3, RememberKeeps DEF PollMakes, st
<1>8. Pressed(States)' = Pressed(st)
  BY <1>6 DEF Pressed, Down
<1>9. \A b \in Buttons : solo[b] \in BOOLEAN /\ solo'[b] \in BOOLEAN /\ IsLongPress[b] \in BOOLEAN /\ age[b] \in 0 .. LongDelay
  BY <1>1 DEF TypeOK
<1>10. CASE Pressed(st) = {}
  <2>1. ~IsCombo'
    BY <1>1, <1>8, <1>10 DEF CombosOK
  <2>2. \A b \in Buttons : ~solo'[b] /\ ~Down(st, b) /\ Pressed(st) # {b}
    BY <1>7, <1>10 DEF Kept, Pressed
  <2>3. \A b \in Buttons : told'[b] = {}
    BY <1>7, <2>2 DEF Kept
  <2>4. PressReported' /\ LongAfterShort'
    BY <2>2, <2>3 DEF PressReported, LongAfterShort
  <2>. QED  BY <1>1, <1>8, <1>10, <2>1, <2>2, <2>4 DEF PressesOK
<1>11. CASE Pressed(st) # {}
  <2>1. /\ \A b \in Buttons : b # c => (Down(st, b) <=> Down(States, b))
        /\ c \in Buttons => \/ st[c] = "pssRising" /\ ~Down(States, c) /\ Down(st, c)
                            \/ st[c] = "pssFalling" /\ Down(States, c) /\ ~Down(st, c)
    BY <1>4, <1>11 DEF Pressed, Down
  <2>2. c \in Buttons \/ c = 0
    BY ButtonsAssumption DEF Buttons
  \* A button that is down and has no edge keeps its age growing.
  <2>3. \A b \in Buttons : Down(st, b) /\ b # c =>
           /\ st[b] = "pssHi" /\ Down(States, b)
           /\ age'[b] = IF age[b] + gap < LongDelay THEN age[b] + gap ELSE LongDelay
           /\ \A type \in {"beShortPress", "beLongPress"} :
                 type \in told'[b] <=> <<type, b>> \in p.out \/ type \in told[b]
    BY <1>2, <1>7, <2>1 DEF EdgeAt, Kept, Down
  <2>4. LongAfterShort'
    <3>1. SUFFICES ASSUME NEW b \in Buttons, "beLongPress" \in told'[b]
                   PROVE  "beShortPress" \in told'[b] /\ age'[b] = LongDelay
      BY DEF LongAfterShort
    <3>2. Down(st, b)
      BY <1>7, <3>1 DEF Kept
    <3>3. CASE <<"beLongPress", b>> \in p.out
      <4>1. st[b] = "pssHi" /\ LongNow(Statics, b, t)
        BY <1>2, <3>3 DEF PressAfter
      <4>2. b # c
        BY <1>2, <4>1 DEF EdgeAt
      <4>3. ~IsCombo /\ ~IsLongPress[b] /\ Elapsed(LongPressTimer, t) >= LongDelay
        BY <1>5, <4>1 DEF LongNow
      <4>4. solo[b]
        <5>1. b \in Pressed(States)
          BY <2>3, <3>2, <4>2 DEF Pressed
        <5>2. Pressed(States) = {b}
          BY <4>3, <5>1 DEF PressesOK
        <5>. QED  BY <4>3, <5>2 DEF PressesOK
      <4>5. Elapsed(LongPressTimer, t) = age[b] + gap
        BY <4>3, <4>4, AgeTold DEF t
      <4>6. "beShortPress" \in told[b]
        BY <4>4 DEF PressesOK, PressReported
      <4>7. ~(age[b] + gap < LongDelay)
        BY <1>9, <4>3, <4>5, ButtonsAssumption
      <4>. QED  BY <2>3, <3>2, <4>2, <4>6, <4>7
    <3>4. CASE <<"beLongPress", b>> \notin p.out
      <4>1. Down(States, b) /\ "beLongPress" \in told[b]
        BY <1>7, <3>1, <3>2, <3>4 DEF Kept
      <4>2. "beShortPress" \in told[b] /\ age[b] = LongDelay
        BY <4>1 DEF PressesOK, LongAfterShort
      <4>3. "beShortPress" \in told'[b]
        BY <1>7, <3>2, <4>1, <4>2 DEF Kept
      <4>4. age'[b] = IF age[b] + gap < LongDelay THEN age[b] + gap ELSE LongDelay
        BY <1>7, <3>2, <4>1 DEF Kept
      <4>. QED  BY <4>2, <4>3, <4>4, ButtonsAssumption
    <3>. QED  BY <3>3, <3>4
  <2>5. CASE c = 0
    <3>1. Pressed(st) = Pressed(States)
      BY <2>1, <2>5, ButtonsAssumption DEF Pressed, Buttons
    <3>2. ~Rose(N, st, c) /\ ~Fell(N, st, c)
      BY <2>5 DEF Rose, Fell
    <3>3. IsCombo' = IsCombo /\ LongPressTimer' = LongPressTimer
      BY <1>2, <1>5, <1>6, <3>2 DEF ComboAfter, PressAfter
    <3>4. \A b \in Buttons : b # c
      BY <2>5, ButtonsAssumption DEF Buttons
    <3>5. \A b \in Buttons : solo'[b] = solo[b]
      <4>1. SUFFICES ASSUME NEW b \in Buttons PROVE solo'[b] <=> solo[b]
        BY <1>9
      <4>2. solo[b] => Pressed(States) = {b}
        BY DEF PressesOK
      <4>3. Pressed(st) = {b} => Down(States, b)
        BY <3>1 DEF Pressed
      <4>. QED  BY <1>7, <3>1, <4>2, <4>3 DEF Kept
    <3>6. \A b \in Buttons : solo[b] => Down(st, b) /\ st[b] = "pssHi"
      BY <2>3, <3>1, <3>4 DEF PressesOK, Pressed
    <3>7. PressReported'
      BY <2>3, <3>4, <3>5, <3>6 DEF PressesOK, PressReported
    <3>8. ASSUME NEW b \in Buttons, solo[b]
          PROVE  /\ ~IsLongPress'[b] => age'[b] < LongDelay /\ Elapsed(LongPressTimer', now') = age'[b]
                 /\ IsLongPress'[b] => age'[b] = LongDelay /\ "beLongPress" \in told'[b]
      <4>1. /\ st[b] = "pssHi" /\ Down(st, b) /\ b # c
            /\ age'[b] = IF age[b] + gap < LongDelay THEN age[b] + gap ELSE LongDelay
            /\ "beLongPress" \in told'[b] <=> <<"beLongPress", b>> \in p.out \/ "beLongPress" \in told[b]
        BY <2>3, <3>4, <3>6, <3>8
      <4>2. IsLongPress'[b] = (IsLongPress[b] \/ <<"beLongPress", b>> \in p.out)
        BY <1>2, <1>5, <1>6, <4>1 DEF PressAfter
      <4>3. ~IsCombo
        BY <3>8 DEF PressesOK
      <4>4. b \in 1..N
        BY DEF Buttons
      <4>5. LongNow(Statics, b, t) <=> ~IsLongPress[b] /\ Elapsed(LongPressTimer, t) >= LongDelay
        BY <1>5, <4>3 DEF LongNow
      <4>6. <<"beLongPress", b>> \in p.out <=> LongNow(Statics, b, t)
        BY <1>2, <2>5, <4>1, <4>4 DEF PressAfter
      <4>7. CASE IsLongPress[b]
        <5>1. age[b] = LongDelay /\ "beLongPress" \in told[b]
          BY <3>8, <4>7 DEF PressesOK
        <5>2. IsLongPress'[b] /\ "beLongPress" \in told'[b]
          BY <4>1, <4>2, <4>7, <5>1
        <5>3. age'[b] = LongDelay
          BY <4>1, <5>1, ButtonsAssumption
        <5>. QED  BY <5>2, <5>3
      <4>8. CASE ~IsLongPress[b]
        <5>1. Elapsed(LongPressTimer, t) = age[b] + gap
          BY <3>8, <4>8, AgeTold DEF t
        <5>2. age[b] + gap \in Int /\ LongDelay \in Int
          BY <1>9, ButtonsAssumption
        <5>3. IsLongPress'[b] <=> age[b] + gap >= LongDelay
          BY <4>2, <4>5, <4>6, <4>8, <5>1
        <5>4. IsLongPress'[b] => "beLongPress" \in told'[b]
          BY <4>1, <4>2, <4>8
        <5>. QED  BY <1>6, <3>3, <4>1, <5>1, <5>2, <5>3, <5>4
      <4>. QED  BY <1>9, <4>7, <4>8
    <3>9. ~IsCombo' => \A b, d \in Pressed(st) : b = d
      BY <3>1, <3>3 DEF PressesOK
    <3>10. \A b \in Buttons : solo'[b] <=> Pressed(st) = {b} /\ ~IsCombo'
      BY <3>1, <3>3, <3>5 DEF PressesOK
    <3>. QED  BY <1>1, <1>8, <2>4, <3>5, <3>7, <3>8, <3>9, <3>10 DEF PressesOK
  <2>6. CASE c \in Buttons /\ st[c] = "pssRising"
    <3>1. ~Down(States, c) /\ Down(st, c) /\ c \in Pressed(st)
      BY <2>1, <2>6 DEF Pressed, Down
    <3>2. Rose(N, st, c)
      BY <2>6 DEF Rose, Buttons
    <3>3. /\ IsCombo' = (Pressed(st) # {c}) /\ ~IsLongPress'[c]
          /\ Pressed(st) = {c} => <<"beShortPress", c>> \in p.out /\ LongPressTimer' = t
      BY <1>2, <1>6, <3>2 DEF ComboAfter, PressAfter
    <3>4. solo'[c] <=> Pressed(st) = {c}
      BY <1>7, <2>6, <3>1 DEF Kept
    <3>5. \A b \in Buttons : b # c => Pressed(st) # {b} /\ ~solo'[b]
      BY <1>7, <3>1 DEF Kept
    <3>6. age'[c] = 0 /\ (Pressed(st) = {c} => "beShortPress" \in told'[c])
      BY <1>7, <2>6, <3>1, <3>3 DEF Kept
    <3>7. Elapsed(t, t) = 0 /\ 0 < LongDelay
      <4>1. t - t = 0 /\ 0 % Wrap = 0
        BY <1>3, ButtonsAssumption DEF Time
      <4>. QED  BY <4>1, ButtonsAssumption DEF Elapsed
    <3>8. \A b \in Buttons : solo'[b] <=> Pressed(st) = {b} /\ ~IsCombo'
      BY <3>3, <3>4, <3>5
    <3>9. ~IsCombo' => \A b, d \in Pressed(st) : b = d
      BY <3>3
    <3>10. \A b \in Buttons : solo'[b] => b = c /\ Pressed(st) = {c}
      BY <3>4, <3>5
    <3>11. PressReported'
      BY <3>6, <3>10 DEF PressReported
    <3>12. \A b \in Buttons : solo'[b] =>
              ~IsLongPress'[b] /\ age'[b] < LongDelay /\ Elapsed(LongPressTimer', now') = age'[b]
      BY <1>6, <3>3, <3>6, <3>7, <3>10
    <3>. QED  BY <1>1, <1>8, <2>4, <3>8, <3>9, <3>11, <3>12 DEF PressesOK
  <2>7. CASE c \in Buttons /\ st[c] = "pssFalling"
    <3>1. Down(States, c) /\ ~Down(st, c) /\ c \in Pressed(States)
      BY <2>1, <2>7 DEF Pressed, Down
    <3>2. ~Rose(N, st, c) /\ Fell(N, st, c)
      BY <2>7 DEF Rose, Fell, Buttons
    <3>3. Held(st)
      <4>1. PICK b \in Pressed(st) : TRUE
        BY <1>11
      <4>2. b \in Buttons /\ Down(st, b) /\ b # c
        BY <3>1 DEF Pressed
      <4>. QED  BY <2>3, <4>2 DEF Held
    <3>4. IsCombo
      <4>1. PICK b \in Pressed(st) : TRUE
        BY <1>11
      <4>2. b \in Buttons /\ b # c /\ b \in Pressed(States)
        BY <2>1, <3>1 DEF Pressed
      <4>. QED  BY <3>1, <4>2 DEF PressesOK
    <3>5. IsCombo'
      BY <1>2, <1>5, <1>6, <3>2, <3>3, <3>4 DEF ComboAfter
    <3>6. \A b \in Buttons : ~solo'[b]
      <4>1. SUFFICES ASSUME NEW b \in Buttons, solo'[b] PROVE FALSE
        OBVIOUS
      <4>2. Pressed(st) = {b} /\ (Down(States, b) => solo[b])
        BY <1>7, <4>1 DEF Kept
      <4>3. Down(st, b) /\ b # c
        BY <3>1, <4>2 DEF Pressed
      <4>4. solo[b]
        BY <2>1, <4>2, <4>3
      <4>. QED  BY <3>4, <4>4 DEF PressesOK
    <3>7. PressReported'
      BY <3>6 DEF PressReported
    <3>. QED  BY <1>1, <1>8, <2>4, <3>5, <3>6, <3>7 DEF PressesOK
  <2>. QED  BY <2>1, <2>2, <2>5, <2>6, <2>7
<1>. QED  BY <1>10, <1>11

LEMMA PressesInvariant == Changes <= 1 /\ ~HeldAtBoot => (Spec => []PressesOK)
<1>. SUFFICES ASSUME Changes <= 1, ~HeldAtBoot PROVE Spec => []PressesOK
  OBVIOUS
<1>1. Init => PressesOK
  <2>1. SUFFICES ASSUME Init PROVE PressesOK
    OBVIOUS
  <2>2. CombosOK
    BY <2>1, TypeInit DEF Init, CombosOK, AllOrNone
  <2>3. Pressed(States) = {}
    BY <2>1 DEF Init, Pressed, Down
  <2>4. \A b \in Buttons : ~solo[b] /\ told[b] = {} /\ Pressed(States) # {b}
    BY <2>1, <2>3 DEF Init
  <2>. QED  BY <2>2, <2>3, <2>4 DEF PressesOK, PressReported, LongAfterShort
<1>2. PressesOK /\ [Next]_vars => PressesOK'
  <2>1. SUFFICES ASSUME PressesOK, [Next]_vars PROVE PressesOK'
    OBVIOUS
  <2>2. CASE UNCHANGED vars
    <3>1. CombosOK'
      BY <2>1, CombosStep DEF PressesOK
    <3>. QED  BY <2>1, <2>2, <3>1 DEF vars, PressesOK, Pressed, Down, PressReported, LongAfterShort
  <2>3. CASE Next
    BY <2>1, <2>3, PressesPoll DEF Next
  <2>. QED  BY <2>1, <2>2, <2>3
<1>. QED  BY <1>1, <1>2, PTL DEF Spec

\* PressReported: when at most one pin changes between two polls and the
\* device starts with the buttons up, no press of a single button is lost.
THEOREM PressReportedHolds == Changes <= 1 /\ ~HeldAtBoot => (Spec => []PressReported)
<1>1. PressesOK => PressReported
  BY DEF PressesOK
<1>. QED  BY <1>1, PressesInvariant, PTL

\* LongAfterShort: under the same conditions a long press is reported only
\* for a button whose short press was, and which has been down long enough.
THEOREM LongAfterShortHolds == Changes <= 1 /\ ~HeldAtBoot => (Spec => []LongAfterShort)
<1>1. PressesOK => LongAfterShort
  BY DEF PressesOK
<1>. QED  BY <1>1, PressesInvariant, PTL

\* LongReported: under the same conditions a button held alone for
\* LongDelay is reported as held, although systime_t wraps around.
THEOREM LongReportedHolds == Changes <= 1 /\ ~HeldAtBoot => (Spec => []LongReported)
<1>1. PressesOK => LongReported
  <2>1. SUFFICES ASSUME PressesOK, NEW b \in Buttons, solo[b], age[b] = LongDelay
                 PROVE  "beLongPress" \in told[b]
    BY DEF LongReported
  <2>2. LongDelay \in Int /\ IsLongPress[b] \in BOOLEAN
    BY <2>1, ButtonsAssumption DEF PressesOK, CombosOK, TypeOK
  <2>3. IsLongPress[b]
    BY <2>1, <2>2 DEF PressesOK
  <2>. QED  BY <2>1, <2>3 DEF PressesOK
<1>. QED  BY <1>1, PressesInvariant, PTL

-----------------------------------------------------------------------------
(* UartShell: types.                                                       *)

Chars == [0 .. CmdBufSz - 1 -> Letters \cup {0}]

\* The text in str, and: it ends at place n.
TextOf(str) ==
  LET n == CHOOSE n \in 0 .. CmdBufSz : (n = CmdBufSz \/ str[n] = 0) /\ \A i \in 0 .. n - 1 : str[i] # 0
  IN [i \in 1 .. n |-> str[i - 1]]
Ends(str, n) == (n = CmdBufSz \/ str[n] = 0) /\ \A i \in 0 .. n - 1 : str[i] # 0
Line(str, n) == [i \in 1 .. n |-> str[i - 1]]

LEMMA TextEnds ==
  ASSUME NEW str \in Chars
  PROVE  \E n \in 0 .. CmdBufSz : Ends(str, n) /\ TextOf(str) = Line(str, n)
<1>. DEFINE E == {n \in 0 .. CmdBufSz : n = CmdBufSz \/ str[n] = 0}
<1>1. E \subseteq Nat /\ CmdBufSz \in E
  BY ShellAssumption
<1>2. PICK n \in E : \A y \in E : n <= y
  BY <1>1, Least
<1>3. Ends(str, n)
  <2>1. \A i \in 0 .. n - 1 : i \in 0 .. CmdBufSz /\ ~(n <= i)
    BY <1>1, <1>2, ShellAssumption
  <2>2. \A i \in 0 .. n - 1 : i \notin E
    BY <1>2, <2>1
  <2>. QED  BY <1>2, <2>1, <2>2 DEF Ends
<1>. DEFINE m == CHOOSE k \in 0 .. CmdBufSz : Ends(str, k)
<1>4. m \in 0 .. CmdBufSz /\ Ends(str, m)
  BY <1>2, <1>3
<1>5. TextOf(str) = Line(str, m)
  BY DEF TextOf, Ends, Line
<1>. HIDE DEF m
<1>. QED  BY <1>4, <1>5

LEMMA TextTyped ==
  ASSUME NEW str \in Chars
  PROVE  TextOf(str) \in Seq(Letters)
<1>1. PICK n \in 0 .. CmdBufSz : Ends(str, n) /\ TextOf(str) = Line(str, n)
  BY TextEnds
<1>2. \A i \in 1 .. n : i - 1 \in 0 .. n - 1 /\ i - 1 \in 0 .. CmdBufSz - 1
  BY ShellAssumption
<1>3. \A i \in 1 .. n : str[i - 1] \in Letters
  BY <1>1, <1>2 DEF Ends, Chars
<1>4. n \in Nat
  BY ShellAssumption
<1>. QED  BY <1>1, <1>3, <1>4 DEF Line

LEMMA TextIs ==
  ASSUME NEW str \in Chars, NEW k \in 0 .. CmdBufSz - 1, str[k] = 0,
         \A i \in 0 .. k - 1 : str[i] \in Letters
  PROVE  TextOf(str) = Line(str, k)
<1>1. PICK n \in 0 .. CmdBufSz : Ends(str, n) /\ TextOf(str) = Line(str, n)
  BY TextEnds
<1>2. \A i \in 0 .. k - 1 : str[i] # 0
  BY ShellAssumption
<1>3. n = k
  <2>1. n \in Int /\ k \in Int /\ CmdBufSz \in Int /\ k < CmdBufSz /\ 0 <= k /\ 0 <= n
    BY ShellAssumption
  <2>2. ~(n < k)
    BY <1>1, <1>2, <2>1 DEF Ends
  <2>3. ~(k < n)
    BY <1>1, <2>1 DEF Ends
  <2>. QED  BY <2>1, <2>2, <2>3
<1>. QED  BY <1>1, <1>3

LEMMA PutCharTypes ==
  ASSUME IString \in Chars, Cnt \in 0 .. CmdBufSz - 1, NEW c \in Bytes, PutChar(c)
  PROVE  IString' \in Chars /\ Cnt' \in 0 .. CmdBufSz - 1 /\ Completed' \in BOOLEAN
<1>1. CntBefore \in 0 .. CmdBufSz - 1
  BY ShellAssumption DEF CntBefore
<1>2. \A x \in Letters \cup {0} : [IString EXCEPT ![CntBefore] = x] \in Chars
  BY <1>1 DEF Chars
<1>3. CASE c = "BS" /\ Cnt' = (IF CntBefore > 0 THEN CntBefore - 1 ELSE 0) /\ UNCHANGED IString
  BY <1>1, <1>3, ShellAssumption DEF PutChar, Completes
<1>4. CASE Completes(c) /\ Cnt' = CntBefore /\ Store(0)
  BY <1>1, <1>2, <1>4 DEF PutChar, Store, Completes
<1>5. CASE c \in Letters /\ Room(CntBefore) /\ Cnt' = CntBefore + 1 /\ Store(c)
  <2>1. CntBefore + 1 \in 0 .. CmdBufSz - 1
    BY <1>1, <1>5, ShellAssumption DEF Room
  <2>. QED  BY <1>2, <1>5, <2>1 DEF PutChar, Store, Completes
<1>6. CASE Cnt' = CntBefore /\ UNCHANGED IString
  BY <1>1, <1>6 DEF PutChar, Completes
<1>. QED  BY <1>3, <1>4, <1>5, <1>6 DEF PutChar

LEMMA ShellTypeInit == ShellInit => ShellTypeOK
<1>1. 0 \in 0 .. CmdBufSz - 1 /\ 0 < RxBufSz /\ 0 <= EvtQLen
  BY ShellAssumption
<1>2. \A S : <<>> \in Seq(S) /\ Len(<<>>) = 0
  OBVIOUS
<1>. QED  BY <1>1, <1>2 DEF ShellInit, ShellTypeOK

LEMMA ShellTypeStep ==
  ASSUME ShellTypeOK, [ShellNext]_shellVars
  PROVE  ShellTypeOK'
<1>. USE DEF ShellTypeOK
<1>1. CASE UNCHANGED shellVars
  BY <1>1 DEF shellVars
<1>2. ASSUME NEW b \in Bytes, Arrive(b) PROVE ShellTypeOK'
  <2>1. unread' \in Seq(Bytes) /\ Len(unread') < RxBufSz
    <3>1. CASE Len(unread) + 1 = RxBufSz
      BY <1>2, <3>1, ShellAssumption DEF Arrive
    <3>2. CASE Len(unread) + 1 # RxBufSz
      BY <1>2, <3>2, ShellAssumption DEF Arrive
    <3>. QED  BY <3>1, <3>2
  <2>2. sent' \in Seq(Bytes)
    BY <1>2 DEF Arrive
  <2>. QED  BY <1>2, <2>1, <2>2 DEF Arrive, cmd
<1>3. CASE PollRx
  BY <1>3 DEF PollRx, cmd
<1>4. CASE PollByte
  <2>1. unread # <<>> /\ unread' = Tail(unread) /\ PutChar(Head(unread)) /\ Head(unread) \in Bytes
    BY <1>4 DEF PollByte
  <2>2. unread' \in Seq(Bytes) /\ Len(unread') < RxBufSz
    BY <2>1, ShellAssumption
  <2>3. IString' \in Chars /\ Cnt' \in 0 .. CmdBufSz - 1 /\ Completed' \in BOOLEAN
    BY <2>1, PutCharTypes DEF Chars
  <2>4. RxProcessed' \in BOOLEAN /\ refused' \in BOOLEAN
    BY <1>4 DEF PollByte
  <2>5. EvtQMain' \in Seq({"shell", "other"}) /\ Len(EvtQMain') <= EvtQLen
    <3>1. \/ EvtQMain' = EvtQMain
          \/ Len(EvtQMain) < EvtQLen /\ EvtQMain' = Append(EvtQMain, "shell")
      BY <1>4 DEF PollByte
    <3>2. CASE EvtQMain' = EvtQMain
      BY <3>2
    <3>3. CASE Len(EvtQMain) < EvtQLen /\ EvtQMain' = Append(EvtQMain, "shell")
      BY <3>3, ShellAssumption
    <3>. QED  BY <3>1, <3>2, <3>3
  <2>. QED  BY <1>4, <2>2, <2>3, <2>4, <2>5 DEF PollByte, Chars
<1>5. CASE PollEnd
  BY <1>5 DEF PollEnd, cmd
<1>6. CASE Fetch
  <2>1. Text \in Seq(Letters)
    <3>1. Text = TextOf(IString)
      BY DEF Text, TextOf
    <3>. QED  BY <3>1, TextTyped DEF Chars
  <2>2. EvtQMain' \in Seq({"shell", "other"}) /\ Len(EvtQMain') <= EvtQLen
    BY <1>6, ShellAssumption DEF Fetch
  <2>3. handled' \in Seq(Seq(Letters)) /\ main' \in {"loop", "shell", "handler"}
    <3>1. \/ handled' = Append(handled, Text) /\ main' = "shell"
          \/ handled' = handled /\ main' = "handler"
      BY <1>6 DEF Fetch
    <3>2. Append(handled, Text) \in Seq(Seq(Letters))
      BY <2>1
    <3>. QED  BY <3>1, <3>2
  <2>. QED  BY <1>6, <2>2, <2>3 DEF Fetch, cmd
<1>7. CASE SignalCmdProcessed
  BY <1>7 DEF SignalCmdProcessed, cmd
<1>8. CASE HandlerReturn
  BY <1>8 DEF HandlerReturn, cmd
<1>9. CASE OtherEvent
  BY <1>9, ShellAssumption DEF OtherEvent, cmd
<1>. QED  BY <1>1, <1>2, <1>3, <1>4, <1>5, <1>6, <1>7, <1>8, <1>9 DEF ShellNext, RxStep, MainStep

\* ShellTypeOK: whatever the host sends, the line editor stays inside
\* IString, and what the main loop reads ends inside it.
THEOREM ShellTypeCorrect == ShellSpec => []ShellTypeOK
BY ShellTypeInit, ShellTypeStep, PTL DEF ShellSpec

-----------------------------------------------------------------------------
(* UartShell: the command is left alone.                                   *)

NoShell(q)  == \A i \in 1 .. Len(q) : q[i] # "shell"
OneShell(q) == \A i, j \in 1 .. Len(q) : q[i] = "shell" /\ q[j] = "shell" => i = j
LineEnds(u) == \A i \in 1 .. Len(u) - 1 : u[i] # "CR"

\* The letters of the line are those below Cnt, and Cmd is finished exactly
\* while its command is on its way, at most one command at a time.
CmdOK ==
  /\ ShellTypeOK
  /\ LineEnds(unread)
  /\ rxThread = "poll" /\ ~RxProcessed => unread = <<>>
  /\ ~RxProcessed => Completed
  /\ \A i \in 0 .. Cnt - 1 : IString[i] \in Letters
  /\ Completed => IString[Cnt] = 0
  /\ RxProcessed => main # "shell" /\ NoShell(EvtQMain)
  /\ main = "shell" => NoShell(EvtQMain)
  /\ OneShell(EvtQMain)

LEMMA PendingIs ==
  ASSUME ShellTypeOK
  PROVE  CmdPending <=> main = "shell" \/ ~NoShell(EvtQMain)
BY DEF ShellTypeOK, CmdPending, ToSet, NoShell

LEMMA QueueTail ==
  ASSUME NEW q \in Seq({"shell", "other"}), q # <<>>
  PROVE  /\ NoShell(q) => NoShell(Tail(q))
         /\ OneShell(q) => OneShell(Tail(q))
         /\ OneShell(q) /\ Head(q) = "shell" => NoShell(Tail(q))
<1>1. /\ Len(Tail(q)) = Len(q) - 1 /\ Len(q) \in Nat \ {0} /\ Head(q) = q[1]
      /\ \A i \in 1 .. Len(q) - 1 : Tail(q)[i] = q[i + 1] /\ i + 1 \in 1 .. Len(q) /\ i + 1 # 1 /\ i \in Int
  OBVIOUS
<1>2. 1 \in 1 .. Len(q)
  BY <1>1
<1>3. NoShell(q) => NoShell(Tail(q))
  BY <1>1 DEF NoShell
<1>4. OneShell(q) => OneShell(Tail(q))
  <2>1. SUFFICES ASSUME OneShell(q), NEW i \in 1 .. Len(q) - 1, NEW j \in 1 .. Len(q) - 1,
                        Tail(q)[i] = "shell", Tail(q)[j] = "shell"
                 PROVE  i = j
    BY <1>1 DEF OneShell
  <2>2. i + 1 = j + 1
    BY <1>1, <2>1 DEF OneShell
  <2>. QED  BY <2>2
<1>5. OneShell(q) /\ Head(q) = "shell" => NoShell(Tail(q))
  BY <1>1, <1>2 DEF OneShell, NoShell
<1>. QED  BY <1>3, <1>4, <1>5

LEMMA QueueAppend ==
  ASSUME NEW q \in Seq({"shell", "other"})
  PROVE  /\ NoShell(q) => NoShell(Append(q, "other")) /\ OneShell(Append(q, "shell"))
         /\ OneShell(q) => OneShell(Append(q, "other"))
<1>1. \A e : /\ Len(Append(q, e)) = Len(q) + 1 /\ Len(q) \in Nat
             /\ \A i \in 1 .. Len(q) + 1 : Append(q, e)[i] = IF i \in 1 .. Len(q) THEN q[i] ELSE e
             /\ \A i \in 1 .. Len(q) + 1 : i \in 1 .. Len(q) \/ i = Len(q) + 1
  OBVIOUS
<1>2. NoShell(q) => NoShell(Append(q, "other"))
  BY <1>1 DEF NoShell
<1>3. NoShell(q) => OneShell(Append(q, "shell"))
  BY <1>1 DEF NoShell, OneShell
<1>4. OneShell(q) => OneShell(Append(q, "other"))
  BY <1>1 DEF OneShell
<1>. QED  BY <1>2, <1>3, <1>4

LEMMA PutCharLine ==
  ASSUME IString \in Chars, Cnt \in 0 .. CmdBufSz - 1, NEW c \in Bytes, PutChar(c),
         \A i \in 0 .. Cnt - 1 : IString[i] \in Letters
  PROVE  /\ \A i \in 0 .. Cnt' - 1 : IString'[i] \in Letters
         /\ Completed' = Completes(c) /\ (Completes(c) => IString'[Cnt'] = 0)
<1>1. /\ CntBefore \in 0 .. CmdBufSz - 1 /\ CntBefore \in Int /\ CmdBufSz \in Int
      /\ \A i \in 0 .. CntBefore - 1 : IString[i] \in Letters
  <2>1. CASE Completed
    <3>1. CntBefore = 0 /\ CmdBufSz \in Int /\ 0 \in 0 .. CmdBufSz - 1 /\ 0 .. -1 = {}
      BY <2>1, ShellAssumption DEF CntBefore
    <3>. QED  BY <3>1
  <2>2. CASE ~Completed
    <3>1. CntBefore = Cnt /\ CmdBufSz \in Int
      BY <2>2, ShellAssumption DEF CntBefore
    <3>. QED  BY <3>1
  <2>. QED  BY <2>1, <2>2
<1>2. Completed' = Completes(c) /\ (Completes(c) => c = "CR" /\ c # "BS" /\ c \notin Letters)
  BY ShellAssumption DEF PutChar, Completes
<1>3. \A x : [IString EXCEPT ![CntBefore] = x][CntBefore] = x
  BY <1>1 DEF Chars
<1>4. \A x, i : i \in 0 .. CntBefore - 1 => [IString EXCEPT ![CntBefore] = x][i] = IString[i]
  BY <1>1 DEF Chars
<1>5. CASE c = "BS" /\ Cnt' = (IF CntBefore > 0 THEN CntBefore - 1 ELSE 0) /\ UNCHANGED IString
  <2>1. \A i \in 0 .. Cnt' - 1 : i \in 0 .. CntBefore - 1
    BY <1>1, <1>5
  <2>. QED  BY <1>1, <1>2, <1>5, <2>1
<1>6. CASE Completes(c) /\ Cnt' = CntBefore /\ Store(0)
  BY <1>1, <1>2, <1>3, <1>4, <1>6 DEF Store
<1>7. CASE c \in Letters /\ Room(CntBefore) /\ Cnt' = CntBefore + 1 /\ Store(c)
  <2>1. \A i \in 0 .. Cnt' - 1 : i \in 0 .. CntBefore - 1 \/ i = CntBefore
    BY <1>1, <1>7
  <2>. QED  BY <1>1, <1>2, <1>3, <1>4, <1>7, <2>1 DEF Store
<1>8. CASE ~Completes(c) /\ Cnt' = CntBefore /\ UNCHANGED IString
  BY <1>1, <1>2, <1>8
<1>. QED  BY <1>2, <1>5, <1>6, <1>7, <1>8 DEF PutChar

LEMMA CmdInit == ShellInit => CmdOK
<1>1. SUFFICES ASSUME ShellInit PROVE CmdOK
  OBVIOUS
<1>2. LineEnds(<<>>) /\ NoShell(<<>>) /\ OneShell(<<>>)
  BY DEF LineEnds, NoShell, OneShell
<1>. QED  BY <1>1, <1>2, ShellTypeInit DEF ShellInit, CmdOK

\* The next line is fed to Cmd only after the last one was handled.
LEMMA CmdStep ==
  ASSUME CmdOK, [ShellNext]_shellVars, Paced
  PROVE  CmdOK'
<1>0. ShellTypeOK /\ ShellTypeOK'
  BY ShellTypeStep DEF CmdOK
<1>1. CASE UNCHANGED shellVars
  BY <1>0, <1>1 DEF shellVars, CmdOK
<1>2. ASSUME NEW b \in Bytes, Arrive(b) PROVE CmdOK'
  <2>1. unread' = Append(unread, b) /\ (\A i \in 1 .. Len(unread) : unread[i] # "CR") /\ (rxThread = "poll" => RxProcessed)
    BY <1>0, <1>2 DEF Arrive, LineTaken, ToSet, ShellTypeOK
  <2>2. LineEnds(unread')
    <3>1. Len(unread') - 1 = Len(unread) /\ \A i \in 1 .. Len(unread) : unread'[i] = unread[i]
      BY <1>0, <2>1 DEF ShellTypeOK
    <3>. QED  BY <2>1, <3>1 DEF LineEnds
  <2>. QED  BY <1>0, <1>2, <2>1, <2>2 DEF Arrive, CmdOK, cmd
<1>3. CASE PollRx
  BY <1>0, <1>3 DEF PollRx, CmdOK, cmd
<1>4. CASE PollByte
  <2>. DEFINE c == Head(unread)
  <2>1. /\ rxThread = "poll" /\ rxThread' = "poll" /\ unread # <<>> /\ unread' = Tail(unread) /\ PutChar(c)
        /\ main' = main
    BY <1>4 DEF PollByte
  <2>2. RxProcessed /\ main # "shell" /\ NoShell(EvtQMain)
    BY <2>1 DEF CmdOK
  <2>3. c \in Bytes /\ c = unread[1] /\ Len(unread) \in Nat \ {0} /\ EvtQMain \in Seq({"shell", "other"})
    BY <1>0, <2>1 DEF ShellTypeOK
  <2>4. LineEnds(unread')
    <3>1. \A i \in 1 .. Len(unread') - 1 : unread'[i] = unread[i + 1] /\ i + 1 \in 1 .. Len(unread) - 1
      BY <1>0, <2>1, <2>3 DEF ShellTypeOK
    <3>. QED  BY <3>1 DEF CmdOK, LineEnds
  <2>5. Completes(c) => unread' = <<>>
    <3>1. SUFFICES ASSUME c = "CR" PROVE unread' = <<>>
      BY DEF Completes
    <3>2. \A n \in Nat \ {0} : ~(1 \in 1 .. n - 1) => n = 1
      OBVIOUS
    <3>3. ~(1 \in 1 .. Len(unread) - 1)
      BY <2>3, <3>1 DEF CmdOK, LineEnds
    <3>4. Len(unread) = 1
      BY <2>3, <3>2, <3>3
    <3>5. unread \in Seq(Bytes) /\ Len(Tail(unread)) = 0 /\ Tail(unread) \in Seq(Bytes)
      BY <1>0, <2>1, <3>4 DEF ShellTypeOK
    <3>6. \A s \in Seq(Bytes) : Len(s) = 0 => s = <<>>
      OBVIOUS
    <3>. QED  BY <2>1, <3>5, <3>6
  <2>6. /\ \A i \in 0 .. Cnt' - 1 : IString'[i] \in Letters
        /\ Completed' = Completes(c) /\ (Completes(c) => IString'[Cnt'] = 0)
    BY <1>0, <2>1, <2>3, PutCharLine DEF CmdOK, ShellTypeOK, Chars
  <2>. HIDE DEF c
  <2>7. IF Completes(c) THEN RxProcessed' = FALSE /\ (EvtQMain' = EvtQMain \/ EvtQMain' = Append(EvtQMain, "shell"))
        ELSE RxProcessed' = RxProcessed /\ EvtQMain' = EvtQMain
    BY <1>4 DEF PollByte, c
  <2>8. OneShell(EvtQMain') /\ (RxProcessed' => NoShell(EvtQMain'))
    <3>1. OneShell(EvtQMain) /\ OneShell(Append(EvtQMain, "shell"))
      BY <2>2, <2>3, QueueAppend DEF CmdOK
    <3>. QED  BY <2>2, <2>7, <3>1
  <2>9. ~RxProcessed' => Completed' /\ unread' = <<>>
    BY <2>2, <2>5, <2>6, <2>7
  <2>. QED  BY <1>0, <2>1, <2>2, <2>4, <2>6, <2>8, <2>9 DEF CmdOK
<1>5. CASE PollEnd
  BY <1>0, <1>5 DEF PollEnd, CmdOK, cmd
<1>6. CASE Fetch
  <2>1. /\ EvtQMain # <<>> /\ EvtQMain' = Tail(EvtQMain) /\ EvtQMain \in Seq({"shell", "other"}) /\ main = "loop"
        /\ \/ Head(EvtQMain) = "shell" /\ main' = "shell"
           \/ Head(EvtQMain) = "other" /\ main' = "handler"
    BY <1>0, <1>6 DEF Fetch, ShellTypeOK
  <2>2. OneShell(EvtQMain') /\ (NoShell(EvtQMain) => NoShell(EvtQMain')) /\ (main' = "shell" => NoShell(EvtQMain'))
    BY <2>1, QueueTail DEF CmdOK
  <2>3. NoShell(EvtQMain) => main' # "shell"
    <3>1. Head(EvtQMain) = EvtQMain[1] /\ 1 \in 1 .. Len(EvtQMain)
      BY <2>1
    <3>. QED  BY <2>1, <3>1 DEF NoShell
  <2>. QED  BY <1>0, <1>6, <2>2, <2>3 DEF Fetch, CmdOK, cmd
<1>7. CASE SignalCmdProcessed
  BY <1>0, <1>7 DEF SignalCmdProcessed, CmdOK, cmd
<1>8. CASE HandlerReturn
  BY <1>0, <1>8 DEF HandlerReturn, CmdOK, cmd
<1>9. CASE OtherEvent
  <2>1. EvtQMain' = Append(EvtQMain, "other") /\ EvtQMain \in Seq({"shell", "other"})
    BY <1>0, <1>9 DEF OtherEvent, ShellTypeOK
  <2>2. OneShell(EvtQMain') /\ (NoShell(EvtQMain) => NoShell(EvtQMain'))
    BY <2>1, QueueAppend DEF CmdOK
  <2>. QED  BY <1>0, <1>9, <2>2 DEF OtherEvent, CmdOK, cmd
<1>. QED  BY <1>1, <1>2, <1>3, <1>4, <1>5, <1>6, <1>7, <1>8, <1>9 DEF ShellNext, RxStep, MainStep

LEMMA CmdInvariant == Paced => (ShellSpec => []CmdOK)
<1>. SUFFICES ASSUME Paced PROVE ShellSpec => []CmdOK
  OBVIOUS
<1>. QED  BY CmdInit, CmdStep, PTL DEF ShellSpec

\* CmdLeftAlone: with a host at most one line ahead, no step edits Cmd while
\* its command waits in EvtQMain or is being handled.
THEOREM CmdLeftAloneHolds == Paced => (ShellSpec => CmdLeftAlone)
<1>. SUFFICES ASSUME Paced PROVE ShellSpec => CmdLeftAlone
  OBVIOUS
<1>1. CmdOK /\ [ShellNext]_shellVars => [CmdPending => UNCHANGED cmd]_shellVars
  <2>1. SUFFICES ASSUME CmdOK, ShellNext, CmdPending PROVE UNCHANGED cmd
    BY DEF shellVars, cmd
  <2>2. ~PollByte
    <3>1. ~RxProcessed
      BY <2>1, PendingIs DEF CmdOK
    <3>. QED  BY <2>1, <3>1 DEF CmdOK, PollByte
  <2>. QED
    BY <2>1, <2>2 DEF ShellNext, Arrive, PollRx, RxStep, PollEnd, MainStep, Fetch, SignalCmdProcessed,
       HandlerReturn, OtherEvent
<1>. QED  BY <1>1, CmdInvariant, PTL DEF ShellSpec, CmdLeftAlone

-----------------------------------------------------------------------------
(* UartShell: what the host has typed, byte after byte.                    *)

Lines == [cmds : Seq(Seq(Letters)), line : Seq(Letters)]
Fresh == [cmds |-> <<>>, line |-> <<>>]

LEMMA TypeMakes ==
  ASSUME NEW t \in Lines, NEW b \in Bytes
  PROVE  /\ Type(t, b) \in Lines
         /\ b = "BS" => Type(t, b) = [cmds |-> t.cmds, line |-> IF t.line = <<>> THEN <<>> ELSE Front(t.line)]
         /\ b = "CR" /\ t.line = <<>> => Type(t, b) = t
         /\ b = "CR" /\ t.line # <<>> => Type(t, b) = [cmds |-> Append(t.cmds, t.line), line |-> <<>>]
         /\ b \in Letters => Type(t, b) = [cmds |-> t.cmds,
               line |-> IF Len(t.line) = CmdBufSz - 1 THEN t.line ELSE Append(t.line, b)]
<1>1. "BS" # "CR" /\ "BS" \notin Letters /\ "CR" \notin Letters
  BY ShellAssumption
<1>2. t.cmds \in Seq(Seq(Letters)) /\ t.line \in Seq(Letters) /\ t = [cmds |-> t.cmds, line |-> t.line]
  BY DEF Lines
<1>3. CASE b = "BS"
  <2>1. Type(t, b) = [t EXCEPT !.line = IF t.line = <<>> THEN t.line ELSE Front(t.line)]
    BY <1>1, <1>3 DEF Type
  <2>2. t.line # <<>> => Front(t.line) \in Seq(Letters)
    BY <1>2 DEF Front
  <2>3. Type(t, b) = [cmds |-> t.cmds, line |-> IF t.line = <<>> THEN <<>> ELSE Front(t.line)]
    BY <1>2, <2>1 DEF Lines
  <2>. QED  BY <1>1, <1>2, <1>3, <2>2, <2>3 DEF Lines
<1>4. CASE b = "CR" /\ t.line = <<>>
  <2>1. Type(t, b) = t
    BY <1>1, <1>4 DEF Type
  <2>. QED  BY <1>1, <1>4, <2>1
<1>5. CASE b = "CR" /\ t.line # <<>>
  <2>1. Type(t, b) = [cmds |-> Append(t.cmds, t.line), line |-> <<>>]
    BY <1>1, <1>5 DEF Type
  <2>2. Append(t.cmds, t.line) \in Seq(Seq(Letters)) /\ <<>> \in Seq(Letters)
    BY <1>2
  <2>3. Type(t, b) \in Lines
    BY <2>1, <2>2 DEF Lines
  <2>. QED  BY <1>1, <1>5, <2>1, <2>3
<1>6. CASE b \in Letters
  <2>1. Type(t, b) = [t EXCEPT !.line = IF Len(t.line) = CmdBufSz - 1 THEN t.line ELSE Append(t.line, b)]
    BY <1>1, <1>6 DEF Type
  <2>2. Append(t.line, b) \in Seq(Letters)
    BY <1>2, <1>6
  <2>3. Type(t, b) = [cmds |-> t.cmds, line |-> IF Len(t.line) = CmdBufSz - 1 THEN t.line ELSE Append(t.line, b)]
    BY <1>2, <2>1 DEF Lines
  <2>. QED  BY <1>1, <1>2, <1>6, <2>2, <2>3 DEF Lines
<1>. QED  BY <1>3, <1>4, <1>5, <1>6 DEF Bytes

\* f[k] is what the first k bytes of s have typed.
Typing(f, s) == /\ f \in [0 .. Len(s) -> Lines]
                /\ f[0] = Fresh /\ \A k \in 1 .. Len(s) : f[k] = Type(f[k - 1], s[k])

LEMMA TypingExists ==
  ASSUME NEW s \in Seq(Bytes)
  PROVE  \E f : Typing(f, s) /\ FoldLeft(Type, Fresh, s) = f[Len(s)]
<1>. DEFINE n == Len(s)
            D == SUBSET (1..n)
            T(t, b) == Type(t, b)
            Eqn(h) == h = [x \in D |-> IF x = {} THEN Fresh ELSE T(h[x \ {Max(x)}], s[Max(x)])]
            It == CHOOSE h : Eqn(h)
            G == [x \in Lines \X (Nat \ {0}) |-> IF x[2] \in 1..n THEN T(x[1], s[x[2]]) ELSE x[1]]
<1>1. n \in Nat /\ DOMAIN s = 1..n /\ \A b \in 1..n : s[b] \in Bytes
  OBVIOUS
<1>2. FoldLeft(Type, Fresh, s) = It[1..n]
  BY <1>1 DEF FoldLeft, MapThenFoldSet
<1>3. \A t \in Lines, b \in 1..n : T(t, s[b]) \in Lines
  BY <1>1, TypeMakes
<1>4. \A t \in Lines, k \in Nat \ {0} : G[<<t, k>>] = IF k \in 1..n THEN T(t, s[k]) ELSE t
  OBVIOUS
<1>5. Fresh \in Lines
  <2>1. <<>> \in Seq(Letters) /\ <<>> \in Seq(Seq(Letters))
    OBVIOUS
  <2>. QED  BY <2>1 DEF Fresh, Lines
<1>. HIDE DEF n, T
<1>6. \E h : Eqn(h)
  <2>. HIDE DEF G
  <2>0. KeepsTo(G, Lines)
    BY <1>3, <1>4 DEF KeepsTo
  <2>1. PICK h \in [D -> Lines] : IsFold(h, n, Fresh, G)
    BY <1>1, <1>5, <2>0, FoldExists
  <2>2. ASSUME NEW x \in D
        PROVE  h[x] = IF x = {} THEN Fresh ELSE T(h[x \ {Max(x)}], s[Max(x)])
    <3>1. CASE x = {}
      BY <2>1, <3>1 DEF IsFold
    <3>2. CASE x # {}
      <4>1. Max(x) \in 1..n /\ Max(x) \in Nat \ {0}
        BY <3>2, <1>1, MaxIn
      <4>2. h[x \ {Max(x)}] \in Lines
        BY <2>1
      <4>. QED  BY <1>4, <2>1, <3>2, <4>1, <4>2 DEF IsFold
    <3>. QED  BY <3>1, <3>2
  <2>3. h = [x \in D |-> IF x = {} THEN Fresh ELSE T(h[x \ {Max(x)}], s[Max(x)])]
    BY <2>1, <2>2
  <2>. QED  BY <2>3
<1>7. Eqn(It)
  BY <1>6
<1>8. It[1..0] = Fresh /\ \A k \in 1..n : It[1..k] = T(It[1..(k - 1)], s[k])
  <2>. HIDE DEF It
  <2>1. \A x \in D : It[x] = IF x = {} THEN Fresh ELSE T(It[x \ {Max(x)}], s[Max(x)])
    BY <1>7
  <2>2. 1..0 \in D /\ 1..0 = {}
    OBVIOUS
  <2>3. ASSUME NEW k \in 1..n
        PROVE  It[1..k] = T(It[1..(k - 1)], s[k])
    <3>1. k \in Nat \ {0} /\ 1..k \in D
      BY <1>1
    <3>. QED  BY <2>1, <3>1, MaxOfPrefix
  <2>. QED  BY <2>1, <2>2, <2>3
<1>. DEFINE f == [k \in 0..n |-> It[1..k]]
<1>9. f[0] = Fresh /\ f[n] = FoldLeft(Type, Fresh, s)
  BY <1>1, <1>2, <1>8
<1>10. \A k \in 1..n : f[k] = T(f[k - 1], s[k])
  <2>. HIDE DEF It
  <2>. QED  BY <1>1, <1>8
<1>11. \A k \in 0..n : f[k] \in Lines
  <2>. DEFINE S == {k \in Nat : k \in 0..n => f[k] \in Lines}
  <2>. HIDE DEF f
  <2>1. 0 \in S
    BY <1>5, <1>9
  <2>2. ASSUME NEW k \in Nat, k \in S PROVE k + 1 \in S
    <3>1. CASE k + 1 \in 0..n
      <4>1. k \in 0..n /\ k + 1 \in 1..n /\ (k + 1) - 1 = k
        BY <1>1, <3>1
      <4>2. f[k + 1] = T(f[k], s[k + 1])
        BY <1>10, <4>1
      <4>. QED  BY <1>3, <2>2, <4>1, <4>2
    <3>2. CASE k + 1 \notin 0..n
      BY <3>2
    <3>. QED  BY <3>1, <3>2
  <2>3. \A k \in Nat : k \in S
    <3>. HIDE DEF S
    <3>. QED  BY <2>1, <2>2, SetInduction
  <2>. QED  BY <1>1, <2>3
<1>12. f = [k \in 0..n |-> f[k]]
  OBVIOUS
<1>13. Typing(f, s)
  <2>. HIDE DEF f
  <2>1. f \in [0..n -> Lines]
    BY <1>11, <1>12
  <2>. QED  BY <1>9, <1>10, <2>1 DEF Typing, n, T
<1>14. FoldLeft(Type, Fresh, s) = f[Len(s)]
  BY <1>9 DEF n
<1>. HIDE DEF f
<1>. QED  BY <1>13, <1>14

LEMMA TypingUnique ==
  ASSUME NEW s \in Seq(Bytes), NEW f, NEW g, Typing(f, s), Typing(g, s)
  PROVE  \A k \in 0 .. Len(s) : f[k] = g[k]
<1>. DEFINE S == {k \in Nat : k \in 0 .. Len(s) => f[k] = g[k]}
<1>1. 0 \in S
  BY DEF Typing
<1>2. ASSUME NEW k \in Nat, k \in S PROVE k + 1 \in S
  <2>1. CASE k + 1 \in 0 .. Len(s)
    <3>1. k \in 0 .. Len(s) /\ k + 1 \in 1 .. Len(s) /\ (k + 1) - 1 = k
      BY <2>1
    <3>. QED  BY <1>2, <3>1 DEF Typing
  <2>2. CASE k + 1 \notin 0 .. Len(s)
    BY <2>2
  <2>. QED  BY <2>1, <2>2
<1>3. \A k \in Nat : k \in S
  <2>. HIDE DEF S
  <2>. QED  BY <1>1, <1>2, SetInduction
<1>. QED  BY <1>3

\* Commands that were typed stay typed.
Begins(p, q) == Len(p) <= Len(q) /\ \A i \in 1 .. Len(p) : p[i] = q[i]

LEMMA TypedStays ==
  ASSUME NEW s \in Seq(Bytes), NEW f, Typing(f, s), NEW n \in 0 .. Len(s)
  PROVE  Begins(f[n].cmds, f[Len(s)].cmds)
<1>. DEFINE S == {k \in Nat : n + k \in 0 .. Len(s) => Begins(f[n].cmds, f[n + k].cmds)}
<1>0. \A k \in 0 .. Len(s) : f[k] \in Lines /\ f[k].cmds \in Seq(Seq(Letters))
  BY DEF Typing, Lines
<1>1. 0 \in S
  <2>1. n + 0 = n /\ f[n].cmds \in Seq(Seq(Letters))
    BY <1>0
  <2>. QED  BY <2>1 DEF Begins
<1>2. ASSUME NEW k \in Nat, k \in S PROVE k + 1 \in S
  <2>1. CASE n + (k + 1) \in 0 .. Len(s)
    <3>. DEFINE m == n + k
    <3>1. m \in 0 .. Len(s) /\ m + 1 \in 1 .. Len(s) /\ (m + 1) - 1 = m /\ n + (k + 1) = m + 1
      BY <2>1
    <3>2. Begins(f[n].cmds, f[m].cmds)
      BY <1>2, <3>1
    <3>. HIDE DEF m
    <3>3. f[m] \in Lines /\ s[m + 1] \in Bytes /\ f[m + 1] = Type(f[m], s[m + 1])
      BY <1>0, <3>1 DEF Typing
    <3>4. f[m + 1].cmds = f[m].cmds \/ f[m + 1].cmds = Append(f[m].cmds, f[m].line)
      <4>. DEFINE t == f[m]
                  b == s[m + 1]
      <4>1. t \in Lines /\ b \in Bytes /\ f[m + 1] = Type(t, b)
        BY <3>3
      <4>. HIDE DEF t, b
      <4>2. Type(t, b).cmds = t.cmds \/ Type(t, b).cmds = Append(t.cmds, t.line)
        <5>1. b = "BS" \/ b = "CR" \/ b \in Letters
          BY <4>1 DEF Bytes
        <5>2. CASE b = "BS"
          <6>1. Type(t, b) = [cmds |-> t.cmds, line |-> IF t.line = <<>> THEN <<>> ELSE Front(t.line)]
            BY <4>1, <5>2, TypeMakes
          <6>. QED  BY <6>1
        <5>3. CASE b = "CR" /\ t.line = <<>>
          BY <4>1, <5>3, TypeMakes
        <5>4. CASE b = "CR" /\ t.line # <<>>
          <6>1. Type(t, b) = [cmds |-> Append(t.cmds, t.line), line |-> <<>>]
            BY <4>1, <5>4, TypeMakes
          <6>. QED  BY <6>1
        <5>5. CASE b \in Letters
          <6>1. Type(t, b) = [cmds |-> t.cmds,
                   line |-> IF Len(t.line) = CmdBufSz - 1 THEN t.line ELSE Append(t.line, b)]
            BY <4>1, <5>5, TypeMakes
          <6>. QED  BY <6>1
        <5>. QED  BY <5>1, <5>2, <5>3, <5>4, <5>5
      <4>. QED  BY <4>1, <4>2 DEF t
    <3>5. Begins(f[n].cmds, f[m + 1].cmds)
      <4>1. f[n].cmds \in Seq(Seq(Letters)) /\ f[m].cmds \in Seq(Seq(Letters)) /\ f[m].line \in Seq(Letters)
        BY <1>0, <3>1, <3>3 DEF Lines
      <4>2. CASE f[m + 1].cmds = f[m].cmds
        BY <3>2, <4>2
      <4>3. CASE f[m + 1].cmds = Append(f[m].cmds, f[m].line)
        <5>1. /\ Len(Append(f[m].cmds, f[m].line)) = Len(f[m].cmds) + 1
              /\ \A i \in 1 .. Len(f[m].cmds) : Append(f[m].cmds, f[m].line)[i] = f[m].cmds[i]
          BY <4>1
        <5>2. Len(f[n].cmds) \in Nat /\ Len(f[m].cmds) \in Nat
          BY <4>1
        <5>. QED  BY <3>2, <4>3, <5>1, <5>2 DEF Begins
      <4>. QED  BY <3>4, <4>2, <4>3
    <3>. QED  BY <3>1, <3>5
  <2>2. CASE n + (k + 1) \notin 0 .. Len(s)
    BY <2>2
  <2>. QED  BY <2>1, <2>2
<1>3. \A k \in Nat : k \in S
  <2>. HIDE DEF S
  <2>. QED  BY <1>1, <1>2, SetInduction
<1>4. Len(s) - n \in Nat /\ n + (Len(s) - n) = Len(s) /\ Len(s) \in 0 .. Len(s)
  OBVIOUS
<1>. QED  BY <1>3, <1>4

-----------------------------------------------------------------------------
(* UartShell: the commands handled are the ones typed.                     *)

\* unread is the end of what was sent.
LastOf(u, s) == Len(u) <= Len(s) /\ \A i \in 1 .. Len(u) : u[i] = s[Len(s) - Len(u) + i]

\* Cmd and the commands handled are what t says; a finished command that is
\* not being handled yet is the last one of t.
Shows(t, str, n, done, waits, hdl) ==
  /\ t.line = IF done THEN <<>> ELSE Line(str, n)
  /\ t.cmds = IF waits THEN Append(hdl, TextOf(str)) ELSE hdl
Waits == ~RxProcessed /\ main # "shell"

\* What was taken from the buffer has been typed into Cmd.
TypedOK == /\ CmdOK /\ LastOf(unread, sent)
           /\ \E f : /\ Typing(f, sent)
                     /\ Shows(f[Len(sent) - Len(unread)], IString, Cnt, Completed, Waits, handled)

LEMMA LineProps ==
  ASSUME NEW str, NEW n \in Nat, \A i \in 0 .. n - 1 : str[i] \in Letters
  PROVE  /\ Line(str, n) \in Seq(Letters) /\ Len(Line(str, n)) = n
         /\ Line(str, n) = <<>> <=> n = 0
         /\ n > 0 => Front(Line(str, n)) = Line(str, n - 1)
<1>1. \A i \in 1 .. n : i - 1 \in 0 .. n - 1
  OBVIOUS
<1>2. Line(str, n) \in Seq(Letters) /\ Len(Line(str, n)) = n /\ \A i \in 1 .. n : Line(str, n)[i] = str[i - 1]
  BY <1>1 DEF Line
<1>3. Line(str, n) = <<>> <=> n = 0
  BY <1>2
<1>4. ASSUME n > 0 PROVE Front(Line(str, n)) = Line(str, n - 1)
  <2>1. n - 1 \in Nat /\ Front(Line(str, n)) = SubSeq(Line(str, n), 1, n - 1)
    BY <1>2, <1>4 DEF Front
  <2>2. SubSeq(Line(str, n), 1, n - 1) = [i \in 1 .. n - 1 |-> Line(str, n)[i]]
    BY <1>2, <2>1
  <2>3. \A i \in 1 .. n - 1 : Line(str, n)[i] = str[i - 1]
    BY <1>2
  <2>. QED  BY <2>1, <2>2, <2>3 DEF Line
<1>. QED  BY <1>2, <1>3, <1>4

LEMMA SeqIs ==
  ASSUME NEW S, NEW s \in Seq(S), NEW m \in Nat, Len(s) = m
  PROVE  s = [i \in 1 .. m |-> s[i]]
OBVIOUS

\* The line with one more letter is the buffer with that letter stored.
LEMMA LineStored ==
  ASSUME NEW str \in Chars, NEW n \in 0 .. CmdBufSz - 1, NEW x
  PROVE  /\ Line([str EXCEPT ![n] = x], n) = Line(str, n)
         /\ Line([str EXCEPT ![n] = x], n + 1) = Append(Line(str, n), x)
<1>. DEFINE new == [str EXCEPT ![n] = x]
<1>1. n \in Nat /\ new[n] = x /\ \A i \in 0 .. n - 1 : new[i] = str[i]
  BY ShellAssumption DEF Chars
<1>. HIDE DEF new
<1>2. Line(new, n) = Line(str, n)
  BY <1>1 DEF Line
<1>3. Line(new, n + 1) = Append(Line(str, n), x)
  <2>. DEFINE S == {str[i] : i \in 0 .. n - 1} \cup {x}
              l == Line(str, n)
  <2>1. \A i \in 1 .. n : i - 1 \in 0 .. n - 1 /\ str[i - 1] \in S
    BY <1>1
  <2>2. l \in Seq(S) /\ Len(l) = n /\ \A i \in 1 .. n : l[i] = str[i - 1]
    BY <1>1, <2>1 DEF Line
  <2>. HIDE DEF S, l
  <2>3. x \in S
    BY DEF S
  <2>4. /\ Append(l, x) \in Seq(S) /\ Len(Append(l, x)) = n + 1
        /\ \A i \in 1 .. n + 1 : Append(l, x)[i] = IF i = n + 1 THEN x ELSE l[i]
    BY <1>1, <2>2, <2>3
  <2>5. Append(l, x) = [i \in 1 .. n + 1 |-> Append(l, x)[i]]
    <3>1. n + 1 \in Nat
      BY <1>1
    <3>. DEFINE a == Append(l, x)
    <3>2. a \in Seq(S) /\ Len(a) = n + 1
      BY <2>4
    <3>. HIDE DEF a
    <3>3. a = [i \in 1 .. n + 1 |-> a[i]]
      BY <3>1, <3>2, SeqIs
    <3>. QED  BY <3>3 DEF a
  <2>6. \A i \in 1 .. n + 1 : Append(l, x)[i] = new[i - 1]
    BY <1>1, <2>2, <2>4
  <2>. QED  BY <2>5, <2>6 DEF Line, l
<1>. QED  BY <1>2, <1>3 DEF new

\* PutChar edits Cmd as the host typed.
LEMMA PutCharShows ==
  ASSUME CmdOK, CmdOK', PollByte, NEW t \in Lines,
         Shows(t, IString, Cnt, Completed, Waits, handled)
  PROVE  Shows(Type(t, Head(unread)), IString', Cnt', Completed', Waits', handled')
<1>. DEFINE c == Head(unread)
            n == CntBefore
            r == Type(t, c)
<1>1. /\ IString \in Chars /\ IString' \in Chars /\ Cnt \in 0 .. CmdBufSz - 1 /\ Cnt' \in 0 .. CmdBufSz - 1
      /\ c \in Bytes
  BY DEF CmdOK, ShellTypeOK, Chars, PollByte
<1>2. /\ RxProcessed /\ main # "shell" /\ main' = main /\ handled' = handled /\ PutChar(c)
      /\ RxProcessed' = ~Completes(c)
  BY DEF CmdOK, PollByte
<1>3. t.cmds = handled
  BY <1>2 DEF Shows, Waits
<1>4. /\ n \in 0 .. CmdBufSz - 1 /\ n \in Nat /\ CmdBufSz \in Int
      /\ \A i \in 0 .. n - 1 : IString[i] \in Letters
  <2>1. CASE Completed
    <3>1. n = 0 /\ CmdBufSz \in Int /\ 0 \in 0 .. CmdBufSz - 1 /\ 0 .. -1 = {}
      BY <2>1, ShellAssumption DEF CntBefore
    <3>. QED  BY <3>1
  <2>2. CASE ~Completed
    <3>1. n = Cnt /\ CmdBufSz \in Int /\ n \in Nat
      BY <1>1, <2>2, ShellAssumption DEF CntBefore
    <3>. QED  BY <1>1, <3>1 DEF CmdOK
  <2>. QED  BY <2>1, <2>2
<1>. HIDE DEF n
<1>5. t.line = Line(IString, n)
  <2>1. CASE Completed
    <3>1. t.line = <<>> /\ n = 0
      BY <2>1 DEF Shows, CntBefore, n
    <3>. QED  BY <1>4, <3>1, LineProps
  <2>2. CASE ~Completed
    BY <2>2 DEF Shows, CntBefore, n
  <2>. QED  BY <2>1, <2>2
<1>6. /\ t.line \in Seq(Letters) /\ Len(t.line) = n /\ (t.line = <<>> <=> n = 0)
      /\ (n > 0 => Front(t.line) = Line(IString, n - 1))
  BY <1>4, <1>5, LineProps
<1>7. Completed' = Completes(c) /\ (Completes(c) <=> c = "CR" /\ n # 0)
  BY <1>2 DEF PutChar, Completes, n
<1>8. "BS" # "CR" /\ "BS" \notin Letters /\ "CR" \notin Letters
  BY ShellAssumption
<1>. HIDE DEF c
<1>9. SUFFICES /\ r.line = IF Completed' THEN <<>> ELSE Line(IString', Cnt')
               /\ r.cmds = IF Completes(c) THEN Append(handled, TextOf(IString')) ELSE handled
  BY <1>2 DEF Shows, Waits, c
<1>10. CASE c = "BS"
  <2>1. r = [cmds |-> t.cmds, line |-> IF t.line = <<>> THEN <<>> ELSE Front(t.line)]
    BY <1>1, <1>10, TypeMakes
  <2>2. ~Completes(c) /\ ~Completed'
    BY <1>7, <1>8, <1>10
  <2>3. Cnt' = (IF n > 0 THEN n - 1 ELSE 0) /\ IString' = IString
    BY <1>2, <1>8, <1>10, <2>2 DEF PutChar, n
  <2>4. r.line = Line(IString', Cnt')
    <3>1. CASE n > 0
      BY <1>4, <1>6, <2>1, <2>3, <3>1
    <3>2. CASE n = 0
      <4>1. r.line = <<>> /\ Cnt' = 0 /\ t.line = <<>>
        BY <1>6, <2>1, <2>3, <3>2
      <4>. QED  BY <1>5, <2>3, <3>2, <4>1
    <3>. QED  BY <1>4, <3>1, <3>2
  <2>. QED  BY <1>3, <2>1, <2>2, <2>4
<1>11. CASE c = "CR" /\ n # 0
  <2>1. Completes(c) /\ Completed' /\ t.line # <<>>
    BY <1>6, <1>7, <1>11
  <2>2. r = [cmds |-> Append(t.cmds, t.line), line |-> <<>>]
    BY <1>1, <1>11, <2>1, TypeMakes
  <2>3. Cnt' = n /\ IString' = [IString EXCEPT ![n] = 0]
    BY <1>2, <1>8, <1>11, <2>1 DEF PutChar, Store, n
  <2>4. IString'[Cnt'] = 0 /\ \A i \in 0 .. Cnt' - 1 : IString'[i] \in Letters
    BY <2>1 DEF CmdOK
  <2>5. TextOf(IString') = Line(IString', Cnt')
    BY <1>1, <2>4, TextIs
  <2>6. Line(IString', n) = t.line
    BY <1>1, <1>4, <1>5, <2>3, LineStored
  <2>. QED  BY <1>3, <2>1, <2>2, <2>3, <2>5, <2>6
<1>12. CASE c = "CR" /\ n = 0
  <2>1. ~Completes(c) /\ ~Completed' /\ t.line = <<>>
    BY <1>6, <1>7, <1>12
  <2>2. r = t
    BY <1>1, <1>12, <2>1, TypeMakes
  <2>3. Cnt' = n /\ IString' = IString
    BY <1>2, <1>8, <1>12, <2>1 DEF PutChar, n
  <2>. QED  BY <1>3, <1>5, <2>1, <2>2, <2>3
<1>13. CASE c \in Letters
  <2>1. r = [cmds |-> t.cmds, line |-> IF Len(t.line) = CmdBufSz - 1 THEN t.line ELSE Append(t.line, c)]
    BY <1>1, <1>13, TypeMakes
  <2>2. ~Completes(c) /\ ~Completed' /\ c # "CR" /\ c # "BS"
    BY <1>7, <1>8, <1>13
  <2>3. CASE Room(n)
    <3>1. Cnt' = n + 1 /\ IString' = [IString EXCEPT ![n] = c]
      BY <1>2, <1>13, <2>2, <2>3 DEF PutChar, Store, n
    <3>2. n # CmdBufSz - 1
      BY <1>4, <2>3 DEF Room
    <3>3. Line(IString', Cnt') = Append(t.line, c)
      <4>1. Line([IString EXCEPT ![n] = c], n + 1) = Append(Line(IString, n), c)
        BY <1>1, <1>4, LineStored
      <4>. QED  BY <1>5, <3>1, <4>1
    <3>. QED  BY <1>3, <1>6, <2>1, <2>2, <3>2, <3>3
  <2>4. CASE ~Room(n)
    <3>1. Cnt' = n /\ IString' = IString
      BY <1>2, <1>13, <2>2, <2>4 DEF PutChar, n
    <3>2. n = CmdBufSz - 1
      BY <1>4, <2>4 DEF Room
    <3>. QED  BY <1>3, <1>5, <1>6, <2>1, <2>2, <3>1, <3>2
  <2>. QED  BY <2>3, <2>4
<1>. QED  BY <1>1, <1>10, <1>11, <1>12, <1>13 DEF Bytes

LEMMA TypedInit == ShellInit => TypedOK
<1>1. SUFFICES ASSUME ShellInit PROVE TypedOK
  OBVIOUS
<1>2. sent = <<>> /\ unread = <<>> /\ <<>> \in Seq(Bytes) /\ Len(sent) = 0 /\ Len(unread) = 0
  BY <1>1 DEF ShellInit
<1>3. LastOf(unread, sent)
  BY <1>2 DEF LastOf
<1>4. PICK f : Typing(f, sent)
  BY <1>2, TypingExists
<1>5. f[0] = Fresh
  BY <1>4 DEF Typing
<1>6. Shows(f[0], IString, Cnt, Completed, Waits, handled)
  <2>1. Line(IString, 0) = <<>>
    BY DEF Line
  <2>. QED  BY <1>1, <1>5, <2>1 DEF Shows, Fresh, ShellInit, Waits
<1>. QED  BY <1>1, <1>2, <1>3, <1>4, <1>6, CmdInit DEF TypedOK

\* One more byte is typed when it is sent.
LEMMA TypingAppend ==
  ASSUME NEW s \in Seq(Bytes), NEW b \in Bytes, NEW f, Typing(f, s)
  PROVE  \E g : Typing(g, Append(s, b)) /\ \A k \in 0 .. Len(s) : g[k] = f[k]
<1>. DEFINE n == Len(s)
            a == Append(s, b)
            g == [k \in 0 .. n + 1 |-> IF k = n + 1 THEN Type(f[n], b) ELSE f[k]]
<1>1. n \in Nat /\ Len(a) = n + 1 /\ \A k \in 1 .. n + 1 : a[k] = IF k = n + 1 THEN b ELSE s[k]
  OBVIOUS
<1>2. f \in [0 .. n -> Lines] /\ f[0] = Fresh /\ \A k \in 1 .. n : f[k] = Type(f[k - 1], s[k])
  BY DEF Typing
<1>. HIDE DEF n, a
<1>3. Type(f[n], b) \in Lines
  BY <1>1, <1>2, TypeMakes
<1>4. \A k \in 0 .. n : g[k] = f[k]
  BY <1>1
<1>5. g[n + 1] = Type(f[n], b)
  BY <1>1
<1>6. g \in [0 .. n + 1 -> Lines]
  BY <1>1, <1>2, <1>3
<1>. HIDE DEF g
<1>7. ASSUME NEW k \in 1 .. n + 1 PROVE g[k] = Type(g[k - 1], a[k])
  <2>1. CASE k = n + 1
    <3>1. k - 1 = n /\ n \in 0 .. n
      BY <1>1, <2>1
    <3>. QED  BY <1>1, <1>4, <1>5, <2>1, <3>1
  <2>2. CASE k # n + 1
    <3>1. k \in 1 .. n /\ k \in 0 .. n /\ k - 1 \in 0 .. n
      BY <1>1, <2>2
    <3>. QED  BY <1>1, <1>2, <1>4, <2>2, <3>1
  <2>. QED  BY <2>1, <2>2
<1>8. 0 \in 0 .. n
  BY <1>1
<1>9. Typing(g, a)
  BY <1>1, <1>2, <1>4, <1>6, <1>7, <1>8 DEF Typing
<1>. QED  BY <1>4, <1>9 DEF a, n

LEMMA TypedStep ==
  ASSUME TypedOK, [ShellNext]_shellVars, Paced
  PROVE  TypedOK'
<1>1. CmdOK /\ CmdOK' /\ ShellTypeOK /\ LastOf(unread, sent)
  BY CmdStep DEF TypedOK, CmdOK
<1>2. PICK f : Typing(f, sent) /\ Shows(f[Len(sent) - Len(unread)], IString, Cnt, Completed, Waits, handled)
  BY DEF TypedOK
<1>3. /\ sent \in Seq(Bytes) /\ unread \in Seq(Bytes) /\ Len(sent) \in Nat /\ Len(unread) \in Nat
      /\ Len(unread) <= Len(sent)
  BY <1>1 DEF ShellTypeOK, LastOf
<1>. DEFINE n == Len(sent) - Len(unread)
<1>4. n \in 0 .. Len(sent)
  BY <1>3
<1>5. SUFFICES /\ LastOf(unread', sent')
               /\ \E g : /\ Typing(g, sent')
                         /\ Shows(g[Len(sent') - Len(unread')], IString', Cnt', Completed', Waits', handled')
  BY <1>1 DEF TypedOK
<1>6. ASSUME UNCHANGED <<sent, unread>>, Shows(f[n], IString', Cnt', Completed', Waits', handled')
      PROVE  /\ LastOf(unread', sent')
             /\ \E g : /\ Typing(g, sent')
                       /\ Shows(g[Len(sent') - Len(unread')], IString', Cnt', Completed', Waits', handled')
  BY <1>1, <1>2, <1>6
<1>7. CASE UNCHANGED shellVars
  BY <1>2, <1>6, <1>7 DEF shellVars, Waits
<1>8. ASSUME NEW b \in Bytes, Arrive(b)
      PROVE  /\ LastOf(unread', sent')
             /\ \E g : /\ Typing(g, sent')
                       /\ Shows(g[Len(sent') - Len(unread')], IString', Cnt', Completed', Waits', handled')
  <2>1. /\ sent' = Append(sent, b) /\ unread' = Append(unread, b)
        /\ UNCHANGED <<IString, Cnt, Completed, RxProcessed, main, handled>>
    BY <1>3, <1>8 DEF Arrive, cmd
  <2>2. /\ Len(sent') = Len(sent) + 1 /\ Len(unread') = Len(unread) + 1
        /\ \A i \in 1 .. Len(sent) + 1 : sent'[i] = IF i = Len(sent) + 1 THEN b ELSE sent[i]
        /\ \A i \in 1 .. Len(unread) + 1 : unread'[i] = IF i = Len(unread) + 1 THEN b ELSE unread[i]
    BY <1>3, <2>1
  <2>3. LastOf(unread', sent')
    <3>1. SUFFICES ASSUME NEW i \in 1 .. Len(unread) + 1
                   PROVE  unread'[i] = sent'[Len(sent') - Len(unread') + i]
      BY <1>3, <2>2 DEF LastOf
    <3>2. Len(sent') - Len(unread') + i = n + i /\ n + i \in 1 .. Len(sent) + 1
      BY <1>3, <2>2
    <3>3. CASE i = Len(unread) + 1
      BY <1>3, <2>2, <3>2, <3>3
    <3>4. CASE i # Len(unread) + 1
      <4>1. i \in 1 .. Len(unread) /\ n + i # Len(sent) + 1
        BY <1>3, <3>4
      <4>2. unread[i] = sent[n + i]
        BY <1>1, <4>1 DEF LastOf
      <4>. QED  BY <2>2, <3>2, <4>1, <4>2
    <3>. QED  BY <3>3, <3>4
  <2>4. PICK g : Typing(g, sent') /\ \A k \in 0 .. Len(sent) : g[k] = f[k]
    BY <1>2, <1>3, <2>1, TypingAppend
  <2>5. Len(sent') - Len(unread') = n
    BY <1>3, <2>2
  <2>6. Waits' = Waits
    BY <2>1 DEF Waits
  <2>7. Shows(g[n], IString', Cnt', Completed', Waits', handled')
    BY <1>2, <1>4, <2>1, <2>4, <2>6
  <2>. QED  BY <2>3, <2>4, <2>5, <2>7
<1>9. CASE PollRx
  BY <1>2, <1>6, <1>9 DEF PollRx, cmd, Waits
<1>10. CASE PollByte
  <2>1. unread # <<>> /\ unread' = Tail(unread) /\ sent' = sent
    BY <1>10 DEF PollByte
  <2>2. /\ Len(unread') = Len(unread) - 1 /\ Len(unread) >= 1 /\ Head(unread) = unread[1] /\ Head(unread) \in Bytes
        /\ \A i \in 1 .. Len(unread) - 1 : unread'[i] = unread[i + 1]
    BY <1>3, <2>1
  <2>3. LastOf(unread', sent')
    <3>1. SUFFICES ASSUME NEW i \in 1 .. Len(unread) - 1
                   PROVE  unread[i + 1] = sent[Len(sent) - (Len(unread) - 1) + i]
      BY <1>3, <2>1, <2>2 DEF LastOf
    <3>2. i + 1 \in 1 .. Len(unread) /\ Len(sent) - (Len(unread) - 1) + i = n + (i + 1)
      BY <1>3
    <3>. QED  BY <1>1, <3>2 DEF LastOf
  <2>4. n + 1 \in 1 .. Len(sent) /\ (n + 1) - 1 = n /\ Len(sent') - Len(unread') = n + 1
    BY <1>3, <2>1, <2>2
  <2>5. sent[n + 1] = Head(unread)
    <3>1. 1 \in 1 .. Len(unread)
      BY <1>3, <2>2
    <3>. QED  BY <1>1, <2>2, <3>1 DEF LastOf
  <2>6. f[n + 1] = Type(f[n], Head(unread)) /\ f[n] \in Lines
    BY <1>2, <1>4, <2>4, <2>5 DEF Typing
  <2>7. Shows(f[n + 1], IString', Cnt', Completed', Waits', handled')
    BY <1>1, <1>2, <1>10, <2>6, PutCharShows
  <2>. QED  BY <1>2, <2>1, <2>3, <2>4, <2>7
<1>11. CASE PollEnd
  BY <1>2, <1>6, <1>11 DEF PollEnd, cmd, Waits
<1>12. CASE Fetch
  <2>1. UNCHANGED <<sent, unread, IString, Cnt, Completed, RxProcessed>> /\ main = "loop" /\ EvtQMain # <<>>
    BY <1>12 DEF Fetch, cmd
  <2>2. CASE Head(EvtQMain) = "shell" /\ main' = "shell" /\ handled' = Append(handled, Text)
    <3>1. ~RxProcessed
      <4>1. Head(EvtQMain) = EvtQMain[1] /\ 1 \in 1 .. Len(EvtQMain)
        BY <1>1, <2>1 DEF ShellTypeOK
      <4>. QED  BY <1>1, <2>2, <4>1 DEF CmdOK, NoShell
    <3>2. Waits /\ ~Waits' /\ Text = TextOf(IString)
      BY <2>1, <2>2, <3>1 DEF Waits, Text, TextOf
    <3>3. Shows(f[n], IString', Cnt', Completed', Waits', handled')
      BY <1>2, <2>1, <2>2, <3>2 DEF Shows
    <3>. QED  BY <1>6, <2>1, <3>3
  <2>3. CASE main' = "handler" /\ handled' = handled
    <3>1. Waits' = Waits
      BY <2>1, <2>3 DEF Waits
    <3>. QED  BY <1>2, <1>6, <2>1, <2>3, <3>1
  <2>. QED  BY <1>12, <2>2, <2>3 DEF Fetch
<1>13. CASE SignalCmdProcessed
  <2>1. ~Waits /\ ~Waits'
    BY <1>13 DEF SignalCmdProcessed, Waits
  <2>2. Shows(f[n], IString', Cnt', Completed', Waits', handled')
    BY <1>2, <1>13, <2>1 DEF SignalCmdProcessed, cmd, Shows
  <2>. QED  BY <1>6, <1>13, <2>2 DEF SignalCmdProcessed
<1>14. CASE HandlerReturn
  <2>1. Waits' = Waits
    BY <1>14 DEF HandlerReturn, Waits
  <2>. QED  BY <1>2, <1>6, <1>14, <2>1 DEF HandlerReturn, cmd
<1>15. CASE OtherEvent
  BY <1>2, <1>6, <1>15 DEF OtherEvent, cmd, Waits
<1>. QED  BY <1>7, <1>8, <1>9, <1>10, <1>11, <1>12, <1>13, <1>14, <1>15 DEF ShellNext, RxStep, MainStep

LEMMA TypedInvariant == Paced => (ShellSpec => []TypedOK)
<1>. SUFFICES ASSUME Paced PROVE ShellSpec => []TypedOK
  OBVIOUS
<1>. QED  BY TypedInit, TypedStep, PTL DEF ShellSpec

LEMMA PrefixIs ==
  ASSUME NEW p \in Seq(Seq(Letters)), NEW q \in Seq(Seq(Letters)), Begins(p, q)
  PROVE  IsPrefix(p, q)
<1>. DEFINE m == Len(p)
<1>1. m \in Nat /\ m <= Len(q) /\ Len(q) \in Nat /\ \A i \in 1 .. m : p[i] = q[i]
  BY DEF Begins
<1>2. SubSeq(p, 1, m) = SubSeq(q, 1, m)
  <2>1. SubSeq(p, 1, m) = [i \in 1 .. m |-> p[i]] /\ SubSeq(q, 1, m) = [i \in 1 .. m |-> q[i]]
    BY <1>1
  <2>. QED  BY <1>1, <2>1
<1>. QED  BY <1>1, <1>2 DEF IsPrefix

\* HandledAsTyped: with a host at most one line ahead, the commands handled
\* are the first of those it typed, in order and letter for letter, for
\* every buffer size, queue length and input.
THEOREM HandledAsTypedHolds == Paced => (ShellSpec => []HandledAsTyped)
<1>1. TypedOK => HandledAsTyped
  <2>1. SUFFICES ASSUME TypedOK PROVE IsPrefix(handled, Typed.cmds)
    BY DEF HandledAsTyped
  <2>. DEFINE n == Len(sent) - Len(unread)
  <2>2. PICK f : Typing(f, sent) /\ Shows(f[n], IString, Cnt, Completed, Waits, handled)
    BY <2>1 DEF TypedOK
  <2>3. /\ sent \in Seq(Bytes) /\ n \in 0 .. Len(sent) /\ Len(sent) \in 0 .. Len(sent)
        /\ handled \in Seq(Seq(Letters)) /\ IString \in Chars
    BY <2>1 DEF TypedOK, CmdOK, ShellTypeOK, LastOf, Chars
  <2>. HIDE DEF n
  <2>4. PICK g : Typing(g, sent) /\ FoldLeft(Type, Fresh, sent) = g[Len(sent)]
    BY <2>3, TypingExists
  <2>5. Typed = f[Len(sent)]
    <3>1. Typed = FoldLeft(Type, Fresh, sent)
      BY DEF Typed, Fresh
    <3>2. f[Len(sent)] = g[Len(sent)]
      BY <2>2, <2>3, <2>4, TypingUnique
    <3>. QED  BY <2>4, <3>1, <3>2
  <2>6. f[n].cmds \in Seq(Seq(Letters)) /\ Typed.cmds \in Seq(Seq(Letters))
    BY <2>2, <2>3, <2>5 DEF Typing, Lines
  <2>7. Begins(f[n].cmds, Typed.cmds)
    BY <2>2, <2>3, <2>5, TypedStays
  <2>8. f[n].cmds = handled \/ f[n].cmds = Append(handled, TextOf(IString))
    BY <2>2 DEF Shows
  <2>9. Begins(handled, Typed.cmds)
    <3>1. TextOf(IString) \in Seq(Letters) /\ Len(handled) \in Nat
      BY <2>3, TextTyped
    <3>2. /\ Len(Append(handled, TextOf(IString))) = Len(handled) + 1
          /\ \A i \in 1 .. Len(handled) : Append(handled, TextOf(IString))[i] = handled[i]
      BY <2>3, <3>1
    <3>3. Len(f[n].cmds) \in Nat /\ Len(Typed.cmds) \in Nat
      BY <2>6
    <3>. QED  BY <2>7, <2>8, <3>1, <3>2, <3>3 DEF Begins
  <2>. QED  BY <2>3, <2>6, <2>9, PrefixIs
<1>. QED  BY <1>1, TypedInvariant, PTL
=============================================================================
