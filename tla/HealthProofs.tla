---------------------------- MODULE HealthProofs ----------------------------
(***************************************************************************)
(* Proofs about Health for any health, damage, times and number of         *)
(* restarts.  The invariant says what RAM, EEPROM, LED and beacon will be  *)
(* when the effects that the running handler has still to make are made,   *)
(* and what is already true in case a restart comes first.                 *)
(***************************************************************************)
EXTENDS Health, TLAPS

Colors == {"black", "health", "white", "red"}
Living == {"alive", "god", "mortal", "god_ready", "simple"}

\* Transitions that handlers take, and the states they leave on the way.
Leaving(h, g, a) ==
  \/ h = "top" /\ g \in Saved /\ a = "top"
  \/ h = "god" /\ g = "god_ready" /\ a \in {"god", "alive"}
  \/ h = "mortal" /\ g = "dead" /\ a \in {"god_ready", "simple", "mortal", "alive", "global"}
  \/ h = "dead" /\ g = "simple" /\ a \in {"dead", "global"}
  \/ h = "alive" /\ g = "simple" /\ a \in {"god", "god_ready", "simple", "mortal", "alive"}
  \/ h = "simple" /\ g = "god_ready" /\ a \in {"simple", "mortal"}
  \/ h = "god_ready" /\ g = "god" /\ a \in {"god_ready", "mortal", "alive"}

MachineOK ==
  \/ phase = "rest" /\ handler = "none" /\ goal = "none" /\ active \in Saved \cup {"top"}
  \/ phase = "leave" /\ Leaving(handler, goal, active)
  \/ phase = "enter" /\ goal \in Saved /\ active \in Ancestors[goal]

\* Effects, and the lists of them that handlers make.
FieldSave(e) == \E f \in Fields, v \in Nat : e = <<"save", f, v>>
StateSave(e) == \E s \in Saved : e = <<"save", "health_state", s>>
RamCount(e)  == \E v \in Nat : e = <<"ram", "count", v>>
LedEffect(e) == \E c \in Colors : e = <<"led", c>>
BeaconEffect(e) == \E b \in BOOLEAN : e = <<"beacon", b>>
Effects == {<<"save", f, v>> : f \in Fields, v \in Nat} \cup {<<"save", "health_state", s>> : s \in Saved}
           \cup {<<"ram", "count", v>> : v \in Nat} \cup {<<"led", c>> : c \in Colors}
           \cup {<<"beacon", b>> : b \in BOOLEAN}

\* White is a god's, and on the way from god to god_ready.
WhiteOK(a, g) == (a = "god" /\ g # "simple") \/ (a \in {"alive", "mortal"} /\ g = "god_ready")
LedOK(c, a, ph, g) == /\ a = "top" => c = "black"
                      /\ a \in Living => c \in {"health", "white"}
                      /\ a = "dead" /\ ph # "leave" => c = "red"
                      /\ c = "white" => WhiteOK(a, g)
\* The LED l has the colour that fits the place, for health h.
LedFits(l, h, a, ph, g) == \E c \in Colors : l = ColorOf(c, h) /\ LedOK(c, a, ph, g)
BeaconOK(b, a) == (a \in Living => b = TRUE) /\ (a = "dead" => b = FALSE)

\* What one effect may be, at a place of the machine and w minutes of waiting.
EffectOK(e, a, ph, g, w) ==
  /\ e[1] = "led" => LedOK(e[2], a, ph, g)
  /\ e[1] = "beacon" => BeaconOK(e[2], a)
  /\ e[1] = "save" /\ e[2] = "god_pause" => e[3] + w >= GOD_PAUSE_M
  /\ e[1] = "save" /\ e[2] = "health_state" => e[3] = a /\ a = g /\ ph = "enter"

Shown(e) == e[1] \in {"led", "beacon"}
SavesHealth(e) == e[1] = "save" /\ e[2] = "health"

\* One effect on the LED and one on the beacon at most, and no new health
\* that the LED does not show next.
ListOK(t, a, ph, g, w) ==
  /\ t \in Seq(Effects)
  /\ \A n \in 1..Len(t) : EffectOK(t[n], a, ph, g, w)
  /\ \A n, p \in 1..Len(t) : t[n][1] = t[p][1] /\ Shown(t[n]) => n = p
  /\ \A n \in 1..Len(t) : SavesHealth(t[n]) => n + 1 \in 1..Len(t) /\ t[n + 1][1] = "led"

NoLed(t)    == \A n \in 1..Len(t) : t[n][1] # "led"
NoBeacon(t) == \A n \in 1..Len(t) : t[n][1] # "beacon"
NoState(t)  == \A n \in 1..Len(t) : ~(t[n][1] = "save" /\ t[n][2] = "health_state")
NoPause(t)  == \A n \in 1..Len(t) : ~(t[n][1] = "save" /\ t[n][2] = "god_pause")

Types == /\ ee \in [Fields \cup {"health_state"} -> Nat \cup Saved]
         /\ me \in [Fields -> Nat] /\ \A f \in Fields : ee[f] \in Nat
         /\ ee["health_state"] \in Saved /\ waited \in Nat /\ waited <= GOD_PAUSE_M

\* What the player is seen as once the effects are made.
Seen == /\ NoLed(todo) => LedFits(led, me["health"], active, phase, goal)
        /\ NoBeacon(todo) => BeaconOK(beacon, active)

\* What a restart would come back to.
Started == ~(phase = "rest" /\ active = "top")
Kept == /\ ee["health_state"] \in may
        /\ phase # "rest" => goal \in may
        /\ active \in Saved /\ NoState(todo) => ee["health_state"] = active
        /\ Started => ee["health"] = me["health"] /\ ee["god_pause"] = me["god_pause"]

\* A pause not yet waited for is in the EEPROM; while it is not, the EEPROM
\* holds the god's state and the machine is in it, enters it or leaves it.
Paid == ee["god_pause"] + waited >= GOD_PAUSE_M
AsGod == \/ active = "god"
         \/ active = "alive" /\ phase = "leave" /\ ~NoPause(todo)
         \/ active \in {"top", "global", "alive"} /\ handler = "top" /\ goal = "god"
         \/ active = "top" /\ phase = "rest"
PauseKept == /\ Paid \/ (ee["health_state"] = "god" /\ AsGod)
             /\ handler = "god_ready" /\ goal = "god" => waited >= GOD_PAUSE_M

IInv == MachineOK /\ Types /\ ListOK(todo, active, phase, goal, waited) /\ Seen /\ Kept /\ PauseKept

-----------------------------------------------------------------------------
(* Lists of effects.                                                       *)

LEMMA EffectKinds ==
  ASSUME NEW e \in Effects
  PROVE  FieldSave(e) \/ StateSave(e) \/ RamCount(e) \/ LedEffect(e) \/ BeaconEffect(e)
BY DEF Effects, FieldSave, StateSave, RamCount, LedEffect, BeaconEffect

LEMMA EffectMembers ==
  /\ \A f \in Fields, v \in Nat : Save(f, v) \in Effects
  /\ \A s \in Saved : SaveState(s) \in Effects
  /\ \A v \in Nat : <<"ram", "count", v>> \in Effects
  /\ \A c \in Colors : SetColor(c) \in Effects
  /\ \A b \in BOOLEAN : Beacon(b) \in Effects
BY DEF Effects, Save, SaveState, SetColor, Beacon

LEMMA EffectParts ==
  /\ \A f, v : Save(f, v)[1] = "save" /\ Save(f, v)[2] = f /\ Save(f, v)[3] = v
  /\ \A s : SaveState(s)[1] = "save" /\ SaveState(s)[2] = "health_state" /\ SaveState(s)[3] = s
  /\ \A c : SetColor(c)[1] = "led" /\ SetColor(c)[2] = c
  /\ \A b : Beacon(b)[1] = "beacon" /\ Beacon(b)[2] = b
  /\ \A v : <<"ram", "count", v>>[1] = "ram" /\ <<"ram", "count", v>>[2] = "count"
BY DEF Save, SaveState, SetColor, Beacon

LEMMA OtherSaves ==
  /\ \A v : ~SavesHealth(Save("count", v)) /\ ~SavesHealth(Save("god_pause", v))
  /\ \A s : ~SavesHealth(SaveState(s))
  /\ \A v : ~SavesHealth(<<"ram", "count", v>>)
BY EffectParts DEF SavesHealth

\* The LED goes on fitting if its colour does.
LEMMA LedGoesOn ==
  ASSUME NEW l, NEW h, NEW a, NEW ph, NEW g, NEW b, NEW qh, NEW k, LedFits(l, h, a, ph, g),
         \A c \in Colors : LedOK(c, a, ph, g) => LedOK(c, b, qh, k)
  PROVE  LedFits(l, h, b, qh, k)
BY DEF LedFits

LEMMA Lists ==
  ASSUME NEW S, NEW a \in S, NEW b \in S, NEW c \in S, NEW d \in S
  PROVE  /\ <<>> \in Seq(S) /\ Len(<<>>) = 0
         /\ <<a>> \in Seq(S) /\ Len(<<a>>) = 1 /\ <<a>>[1] = a
         /\ <<a, b>> \in Seq(S) /\ Len(<<a, b>>) = 2 /\ <<a, b>>[1] = a /\ <<a, b>>[2] = b
         /\ <<a, b, c>> \in Seq(S) /\ Len(<<a, b, c>>) = 3
         /\ <<a, b, c>>[1] = a /\ <<a, b, c>>[2] = b /\ <<a, b, c>>[3] = c
         /\ <<a, b, c, d>> \in Seq(S) /\ Len(<<a, b, c, d>>) = 4
         /\ <<a, b, c, d>>[1] = a /\ <<a, b, c, d>>[2] = b /\ <<a, b, c, d>>[3] = c /\ <<a, b, c, d>>[4] = d
OBVIOUS

LEMMA Numbers ==
  /\ 1..0 = {} /\ 1..1 = {1} /\ 1..2 = {1, 2} /\ 1..3 = {1, 2, 3} /\ 1..4 = {1, 2, 3, 4}
OBVIOUS

LEMMA EmptyList ==
  ASSUME NEW a, NEW ph, NEW g, NEW w
  PROVE  /\ ListOK(<<>>, a, ph, g, w)
         /\ NoLed(<<>>) /\ NoBeacon(<<>>) /\ NoState(<<>>) /\ NoPause(<<>>)
<1>1. <<>> \in Seq(Effects) /\ 1..Len(<<>>) = {}
  OBVIOUS
<1>. QED  BY <1>1 DEF ListOK, NoLed, NoBeacon, NoState, NoPause

LEMMA OneEffect ==
  ASSUME NEW a, NEW ph, NEW g, NEW w, NEW e \in Effects, EffectOK(e, a, ph, g, w),
         ~SavesHealth(e)
  PROVE  ListOK(<<e>>, a, ph, g, w)
<1>1. <<e>> \in Seq(Effects) /\ 1..Len(<<e>>) = {1} /\ <<e>>[1] = e
  BY Lists, Numbers
<1>. QED  BY <1>1 DEF ListOK

LEMMA TwoEffects ==
  ASSUME NEW a, NEW ph, NEW g, NEW w, NEW e \in Effects, EffectOK(e, a, ph, g, w),
         NEW f \in Effects, EffectOK(f, a, ph, g, w), ~Shown(e) \/ e[1] # f[1],
         SavesHealth(e) => f[1] = "led", ~SavesHealth(f)
  PROVE  ListOK(<<e, f>>, a, ph, g, w)
<1>. DEFINE t == <<e, f>>
<1>1. t \in Seq(Effects) /\ 1..Len(t) = {1, 2} /\ t[1] = e /\ t[2] = f
  BY Lists, Numbers
<1>. HIDE DEF t
<1>2. t \in Seq(Effects) /\ \A n \in 1..Len(t) : EffectOK(t[n], a, ph, g, w)
  BY <1>1
<1>3. \A n, p \in 1..Len(t) : t[n][1] = t[p][1] /\ Shown(t[n]) => n = p
  BY <1>1 DEF Shown
<1>4. \A n \in 1..Len(t) : SavesHealth(t[n]) => n + 1 \in 1..Len(t) /\ t[n + 1][1] = "led"
  BY <1>1
<1>5. ListOK(t, a, ph, g, w)
  BY <1>2, <1>3, <1>4 DEF ListOK
<1>. QED  BY <1>5 DEF t

LEMMA ThreeEffects ==
  ASSUME NEW a, NEW ph, NEW g, NEW w, NEW e \in Effects, EffectOK(e, a, ph, g, w),
         NEW f \in Effects, EffectOK(f, a, ph, g, w), NEW h \in Effects, EffectOK(h, a, ph, g, w),
         ~Shown(f), ~Shown(h), ~SavesHealth(e), ~SavesHealth(f), ~SavesHealth(h)
  PROVE  ListOK(<<e, f, h>>, a, ph, g, w)
<1>. DEFINE t == <<e, f, h>>
<1>1. t \in Seq(Effects) /\ 1..Len(t) = {1, 2, 3} /\ t[1] = e /\ t[2] = f /\ t[3] = h
  BY Lists, Numbers
<1>. HIDE DEF t
<1>2. t \in Seq(Effects) /\ \A n \in 1..Len(t) : EffectOK(t[n], a, ph, g, w)
  BY <1>1
<1>3. \A n, p \in 1..Len(t) : t[n][1] = t[p][1] /\ Shown(t[n]) => n = p
  BY <1>1 DEF Shown
<1>4. \A n \in 1..Len(t) : SavesHealth(t[n]) => n + 1 \in 1..Len(t) /\ t[n + 1][1] = "led"
  BY <1>1
<1>5. ListOK(t, a, ph, g, w)
  BY <1>2, <1>3, <1>4 DEF ListOK
<1>. QED  BY <1>5 DEF t

LEMMA FourEffects ==
  ASSUME NEW a, NEW ph, NEW g, NEW w, NEW e \in Effects, EffectOK(e, a, ph, g, w),
         NEW f \in Effects, EffectOK(f, a, ph, g, w), NEW h \in Effects, EffectOK(h, a, ph, g, w),
         NEW i \in Effects, EffectOK(i, a, ph, g, w), ~Shown(f), ~Shown(h), e[1] # i[1],
         ~SavesHealth(e), ~SavesHealth(f), ~SavesHealth(h), ~SavesHealth(i)
  PROVE  ListOK(<<e, f, h, i>>, a, ph, g, w)
<1>. DEFINE t == <<e, f, h, i>>
<1>1. t \in Seq(Effects) /\ 1..Len(t) = {1, 2, 3, 4} /\ t[1] = e /\ t[2] = f /\ t[3] = h /\ t[4] = i
  BY Lists, Numbers
<1>. HIDE DEF t
<1>2. t \in Seq(Effects) /\ \A n \in 1..Len(t) : EffectOK(t[n], a, ph, g, w)
  BY <1>1
<1>3. \A n, p \in 1..Len(t) : t[n][1] = t[p][1] /\ Shown(t[n]) => n = p
  BY <1>1 DEF Shown
<1>4. \A n \in 1..Len(t) : SavesHealth(t[n]) => n + 1 \in 1..Len(t) /\ t[n + 1][1] = "led"
  BY <1>1
<1>5. ListOK(t, a, ph, g, w)
  BY <1>2, <1>3, <1>4 DEF ListOK
<1>. QED  BY <1>5 DEF t

\* What is left of a list when its first effect has been made.
LEMMA FirstMade ==
  ASSUME NEW t, NEW a, NEW ph, NEW g, NEW w, ListOK(t, a, ph, g, w), t # <<>>
  PROVE  /\ Head(t) \in Effects /\ EffectOK(Head(t), a, ph, g, w) /\ ListOK(Tail(t), a, ph, g, w)
         /\ IF Head(t)[1] = "led" THEN NoLed(Tail(t)) ELSE NoLed(Tail(t)) => NoLed(t)
         /\ IF Head(t)[1] = "beacon" THEN NoBeacon(Tail(t)) ELSE NoBeacon(Tail(t)) => NoBeacon(t)
         /\ NoState(Tail(t)) => NoState(t) \/ (Head(t)[1] = "save" /\ Head(t)[2] = "health_state")
         /\ NoPause(Tail(t)) => NoPause(t) \/ (Head(t)[1] = "save" /\ Head(t)[2] = "god_pause")
         /\ SavesHealth(Head(t)) => ~NoLed(Tail(t))
<1>. DEFINE q == Tail(t)
            e == Head(t)
<1>1. /\ t \in Seq(Effects) /\ \A n \in 1..Len(t) : EffectOK(t[n], a, ph, g, w)
      /\ \A n, p \in 1..Len(t) : t[n][1] = t[p][1] /\ Shown(t[n]) => n = p
      /\ \A n \in 1..Len(t) : SavesHealth(t[n]) => n + 1 \in 1..Len(t) /\ t[n + 1][1] = "led"
  BY DEF ListOK
<1>2. /\ q \in Seq(Effects) /\ Len(q) = Len(t) - 1 /\ Len(t) \in Nat /\ Len(t) > 0
      /\ \A n \in 1..(Len(t) - 1) : q[n] = t[n + 1]
      /\ e = t[1] /\ e \in Effects
  BY <1>1
<1>. HIDE DEF q, e
<1>3. \A n \in 1..Len(q) : n + 1 \in 1..Len(t) /\ q[n] = t[n + 1] /\ n + 1 # 1
  BY <1>2
<1>4. 1 \in 1..Len(t) /\ \A n \in 1..Len(t) : n = 1 \/ \E p \in 1..Len(q) : t[n] = q[p]
  <2>1. \A n \in 1..Len(t) : n # 1 => n - 1 \in 1..Len(q) /\ q[n - 1] = t[n]
    BY <1>2
  <2>. QED  BY <1>2, <2>1
<1>5. EffectOK(e, a, ph, g, w)
  BY <1>1, <1>2, <1>4
<1>6. ListOK(q, a, ph, g, w)
  <2>1. \A n \in 1..Len(q) : EffectOK(q[n], a, ph, g, w)
    BY <1>1, <1>3
  <2>2. ASSUME NEW n \in 1..Len(q), NEW p \in 1..Len(q), q[n][1] = q[p][1], Shown(q[n])
        PROVE  n = p
    <3>1. n + 1 = p + 1
      BY <1>1, <1>3, <2>2
    <3>. QED  BY <3>1, <1>2
  <2>3. ASSUME NEW n \in 1..Len(q), SavesHealth(q[n])
        PROVE  n + 1 \in 1..Len(q) /\ q[n + 1][1] = "led"
    <3>1. (n + 1) + 1 \in 1..Len(t) /\ t[(n + 1) + 1][1] = "led"
      BY <1>1, <1>3, <2>3
    <3>2. n + 1 \in 1..Len(q)
      BY <3>1, <1>2
    <3>. QED  BY <3>1, <3>2, <1>3
  <2>. QED  BY <1>2, <2>1, <2>2, <2>3 DEF ListOK
<1>7. /\ e[1] = "led" => NoLed(q)
      /\ e[1] = "beacon" => NoBeacon(q)
  <2>1. ASSUME NEW n \in 1..Len(q), q[n][1] = e[1] PROVE ~Shown(e)
    BY <1>1, <1>2, <1>3, <1>4, <2>1 DEF Shown
  <2>. QED  BY <2>1 DEF NoLed, NoBeacon, Shown
<1>8. /\ e[1] # "led" /\ NoLed(q) => NoLed(t)
      /\ e[1] # "beacon" /\ NoBeacon(q) => NoBeacon(t)
      /\ NoState(q) => NoState(t) \/ (e[1] = "save" /\ e[2] = "health_state")
      /\ NoPause(q) => NoPause(t) \/ (e[1] = "save" /\ e[2] = "god_pause")
  BY <1>2, <1>4 DEF NoLed, NoBeacon, NoState, NoPause
<1>9. SavesHealth(e) => ~NoLed(q)
  <2>1. SavesHealth(e) => 2 \in 1..Len(t) /\ t[2][1] = "led"
    BY <1>1, <1>2, <1>4
  <2>2. 2 \in 1..Len(t) => 1 \in 1..Len(q) /\ q[1] = t[2]
    BY <1>2
  <2>. QED  BY <2>1, <2>2 DEF NoLed
<1>. QED  BY <1>2, <1>5, <1>6, <1>7, <1>8, <1>9 DEF e, q

-----------------------------------------------------------------------------
(* Effects.                                                                *)

\* The machine stands still while effects are made.
LEMMA EffectInv == ASSUME IInv, Effect PROVE IInv'
<1>. DEFINE e == Head(todo)
<1>1. /\ todo # <<>> /\ todo' = Tail(todo)
      /\ active' = active /\ phase' = phase /\ handler' = handler /\ goal' = goal
      /\ may' = may /\ waited' = waited
  BY DEF Effect, machine
<1>2. /\ e \in Effects /\ EffectOK(e, active, phase, goal, waited)
      /\ ListOK(todo', active, phase, goal, waited)
      /\ IF e[1] = "led" THEN NoLed(todo') ELSE NoLed(todo') => NoLed(todo)
      /\ IF e[1] = "beacon" THEN NoBeacon(todo') ELSE NoBeacon(todo') => NoBeacon(todo)
      /\ NoState(todo') => NoState(todo) \/ (e[1] = "save" /\ e[2] = "health_state")
      /\ NoPause(todo') => NoPause(todo) \/ (e[1] = "save" /\ e[2] = "god_pause")
      /\ SavesHealth(e) => ~NoLed(todo')
  BY <1>1, FirstMade DEF IInv
<1>3. (CASE e[1] = "save" -> /\ ee' = [ee EXCEPT ![e[2]] = e[3]]
                             /\ me' = IF e[2] \in Fields THEN [me EXCEPT ![e[2]] = e[3]] ELSE me
                             /\ UNCHANGED <<led, beacon>>
        [] e[1] = "ram" -> me' = [me EXCEPT ![e[2]] = e[3]] /\ UNCHANGED <<ee, led, beacon>>
        [] e[1] = "led" -> led' = ColorOf(e[2], me["health"]) /\ UNCHANGED <<ee, me, beacon>>
        [] e[1] = "beacon" -> beacon' = e[2] /\ UNCHANGED <<ee, me, led>>)
  BY DEF Effect
<1>. HIDE DEF e
<1>4. MachineOK' /\ ListOK(todo, active, phase, goal, waited)'
  BY <1>1, <1>2 DEF IInv, MachineOK
<1>5. Types /\ Seen /\ Kept /\ PauseKept /\ MachineOK
  BY DEF IInv
<1>6. CASE FieldSave(e)
  <2>1. PICK f \in Fields, v \in Nat : e = <<"save", f, v>>
    BY <1>6 DEF FieldSave
  <2>2. e[1] = "save" /\ e[2] = f /\ e[3] = v /\ f # "health_state"
    BY <2>1 DEF Fields
  <2>3. ee' = [ee EXCEPT ![f] = v] /\ me' = [me EXCEPT ![f] = v] /\ led' = led /\ beacon' = beacon
    BY <1>3, <2>2
  <2>4. Types' /\ ee'["health_state"] = ee["health_state"]
    BY <1>1, <1>5, <2>2, <2>3 DEF Types
  <2>5. /\ ee'["god_pause"] = IF f = "god_pause" THEN v ELSE ee["god_pause"]
        /\ ee'["health"] = IF f = "health" THEN v ELSE ee["health"]
        /\ me'["god_pause"] = IF f = "god_pause" THEN v ELSE me["god_pause"]
        /\ me'["health"] = IF f = "health" THEN v ELSE me["health"]
    BY <1>5, <2>2, <2>3 DEF Types, Fields
  <2>6. Seen'
    <3>1. f = "health" => ~NoLed(todo')
      BY <1>2, <2>2 DEF SavesHealth
    <3>. QED  BY <1>1, <1>2, <1>5, <2>2, <2>3, <2>5, <3>1 DEF Seen
  <2>7. Kept'
    BY <1>1, <1>2, <1>5, <2>2, <2>4, <2>5 DEF Kept, Started
  <2>8. PauseKept'
    <3>1. f = "god_pause" => v + waited >= GOD_PAUSE_M
      BY <1>2, <2>2 DEF EffectOK
    <3>2. Paid' \/ (ee'["health_state"] = "god" /\ AsGod')
      BY <1>1, <1>2, <1>5, <2>2, <2>4, <2>5, <3>1 DEF PauseKept, Paid, AsGod
    <3>. QED  BY <1>1, <1>5, <3>2 DEF PauseKept
  <2>. QED  BY <1>4, <2>4, <2>6, <2>7, <2>8 DEF IInv
<1>7. CASE StateSave(e)
  <2>1. PICK s \in Saved : e = <<"save", "health_state", s>>
    BY <1>7 DEF StateSave
  <2>2. e[1] = "save" /\ e[2] = "health_state" /\ e[3] = s /\ "health_state" \notin Fields
    BY <2>1 DEF Fields
  <2>3. ee' = [ee EXCEPT !["health_state"] = s] /\ me' = me /\ led' = led /\ beacon' = beacon
    BY <1>3, <2>2
  <2>4. /\ Types' /\ ee'["health_state"] = s
        /\ ee'["god_pause"] = ee["god_pause"] /\ ee'["health"] = ee["health"]
    BY <1>1, <1>5, <2>2, <2>3 DEF Types, Fields
  <2>5. s = active /\ active = goal /\ phase = "enter"
    BY <1>2, <2>2 DEF EffectOK
  <2>6. Seen'
    BY <1>1, <1>2, <1>5, <2>2, <2>3 DEF Seen
  <2>7. Kept'
    BY <1>1, <1>5, <2>3, <2>4, <2>5 DEF Kept, Started
  <2>8. PauseKept'
    BY <1>1, <1>5, <2>4, <2>5 DEF PauseKept, Paid, AsGod
  <2>. QED  BY <1>4, <2>4, <2>6, <2>7, <2>8 DEF IInv
<1>8. CASE RamCount(e)
  <2>1. PICK v \in Nat : e = <<"ram", "count", v>>
    BY <1>8 DEF RamCount
  <2>2. e[1] = "ram" /\ e[2] = "count" /\ e[3] = v
    BY <2>1
  <2>3. me' = [me EXCEPT !["count"] = v] /\ ee' = ee /\ led' = led /\ beacon' = beacon
    BY <1>3, <2>2
  <2>4. Types' /\ me'["god_pause"] = me["god_pause"] /\ me'["health"] = me["health"]
    BY <1>1, <1>5, <2>3 DEF Types, Fields
  <2>5. Seen' /\ Kept' /\ PauseKept'
    BY <1>1, <1>2, <1>5, <2>2, <2>3, <2>4 DEF Seen, Kept, Started, PauseKept, Paid, AsGod
  <2>. QED  BY <1>4, <2>4, <2>5 DEF IInv
<1>9. CASE LedEffect(e)
  <2>1. PICK c \in Colors : e = <<"led", c>>
    BY <1>9 DEF LedEffect
  <2>2. e[1] = "led" /\ e[2] = c
    BY <2>1
  <2>3. led' = ColorOf(c, me["health"]) /\ ee' = ee /\ me' = me /\ beacon' = beacon
    BY <1>3, <2>2
  <2>4. Seen'
    <3>1. LedFits(led', me["health"], active, phase, goal)
      BY <1>2, <2>2, <2>3 DEF EffectOK, LedFits
    <3>. QED  BY <1>1, <1>2, <1>5, <2>2, <2>3, <3>1 DEF Seen
  <2>5. Types' /\ Kept' /\ PauseKept'
    BY <1>1, <1>2, <1>5, <2>2, <2>3 DEF Types, Kept, Started, PauseKept, Paid, AsGod
  <2>. QED  BY <1>4, <2>4, <2>5 DEF IInv
<1>10. CASE BeaconEffect(e)
  <2>1. PICK b \in BOOLEAN : e = <<"beacon", b>>
    BY <1>10 DEF BeaconEffect
  <2>2. e[1] = "beacon" /\ e[2] = b
    BY <2>1
  <2>3. beacon' = e[2] /\ ee' = ee /\ me' = me /\ led' = led
    BY <1>3, <2>2
  <2>4. Seen'
    BY <1>1, <1>2, <1>5, <2>2, <2>3 DEF Seen, EffectOK
  <2>5. Types' /\ Kept' /\ PauseKept'
    BY <1>1, <1>2, <1>5, <2>2, <2>3 DEF Types, Kept, Started, PauseKept, Paid, AsGod
  <2>. QED  BY <1>4, <2>4, <2>5 DEF IInv
<1>. QED  BY <1>2, <1>6, <1>7, <1>8, <1>9, <1>10, EffectKinds

-----------------------------------------------------------------------------
(* Signals.                                                                *)

\* Between two events the machine is in a state, and that is saved.
LEMMA RestFacts ==
  ASSUME IInv, AtRest
  PROVE  /\ phase = "rest" /\ handler = "none" /\ goal = "none" /\ todo = <<>>
         /\ active \in Saved /\ active \in {"simple", "god_ready", "god", "dead"}
         /\ ee["health_state"] = active /\ LedFits(led, me["health"], active, "rest", "none") /\ BeaconOK(beacon, active)
         /\ ee["health"] = me["health"] /\ ee["god_pause"] = me["god_pause"]
         /\ Paid \/ active = "god"
         /\ waited \in Nat /\ waited <= GOD_PAUSE_M
         /\ \A f \in Fields : me[f] \in Nat /\ ee[f] \in Nat
<1>1. phase = "rest" /\ todo = <<>> /\ active # "top"
  BY DEF AtRest
<1>2. handler = "none" /\ goal = "none" /\ active \in Saved
  BY <1>1 DEF IInv, MachineOK, Leaving
<1>3. NoLed(todo) /\ NoBeacon(todo) /\ NoState(todo) /\ NoPause(todo)
  BY <1>1, EmptyList
<1>4. LedFits(led, me["health"], active, "rest", "none") /\ BeaconOK(beacon, active)
  BY <1>1, <1>2, <1>3 DEF IInv, Seen
<1>5. /\ ee["health_state"] = active
      /\ ee["health"] = me["health"] /\ ee["god_pause"] = me["god_pause"]
  BY <1>1, <1>2, <1>3 DEF IInv, Kept, Started
<1>6. Paid \/ active = "god"
  BY <1>1, <1>2 DEF IInv, PauseKept, AsGod
<1>7. waited \in Nat /\ waited <= GOD_PAUSE_M /\ \A f \in Fields : me[f] \in Nat /\ ee[f] \in Nat
  BY DEF IInv, Types
<1>. QED  BY <1>1, <1>2, <1>4, <1>5, <1>6, <1>7 DEF Saved

LEMMA StayKeeps ==
  ASSUME IInv, AtRest, UNCHANGED <<active, phase, handler, goal, may, me, ee, led, beacon>>,
         waited' \in Nat, waited' >= waited, waited' <= GOD_PAUSE_M,
         ListOK(todo', active, "rest", "none", waited')
  PROVE  IInv'
<1>1. /\ phase = "rest" /\ handler = "none" /\ goal = "none" /\ active \in Saved
      /\ active # "top" /\ ee["health_state"] = active
      /\ LedFits(led, me["health"], active, "rest", "none") /\ BeaconOK(beacon, active)
      /\ Paid \/ active = "god"
      /\ ee["god_pause"] \in Nat /\ waited \in Nat
  BY RestFacts DEF Saved, Fields
<1>2. /\ active' = active /\ phase' = phase /\ handler' = handler /\ goal' = goal /\ may' = may
      /\ me' = me /\ ee' = ee /\ led' = led /\ beacon' = beacon
  OBVIOUS
<1>3. MachineOK' /\ Types' /\ Seen' /\ ListOK(todo, active, phase, goal, waited)'
  BY <1>1, <1>2 DEF IInv, MachineOK, Types, Seen
<1>4. Kept'
  BY <1>1, <1>2 DEF IInv, Kept, Started
<1>5. GOD_PAUSE_M \in Nat
  BY HealthAssumption
<1>6. PauseKept'
  BY <1>1, <1>2, <1>5 DEF PauseKept, Paid, AsGod
<1>. QED  BY <1>3, <1>4, <1>6 DEF IInv

LEMMA TranKeeps ==
  ASSUME IInv, AtRest, NEW h, NEW g, Leaving(h, g, active),
         phase' = "leave", handler' = h, goal' = g, active' = active, may' = may \cup {g},
         UNCHANGED <<me, ee, led, beacon>>,
         waited' \in Nat, waited' >= waited, waited' <= GOD_PAUSE_M,
         ListOK(todo', active, "leave", g, waited'),
         h = "god_ready" /\ g = "god" => waited' >= GOD_PAUSE_M,
         active = "god" /\ g = "simple" => ~NoLed(todo')
  PROVE  IInv'
<1>1. /\ phase = "rest" /\ active \in Saved /\ active # "top" /\ ee["health_state"] = active
      /\ LedFits(led, me["health"], active, "rest", "none") /\ BeaconOK(beacon, active)
      /\ ee["health"] = me["health"] /\ ee["god_pause"] = me["god_pause"]
      /\ Paid \/ active = "god"
      /\ ee["god_pause"] \in Nat /\ waited \in Nat /\ GOD_PAUSE_M \in Nat
  BY RestFacts, HealthAssumption DEF Saved, Fields
<1>2. me' = me /\ ee' = ee /\ led' = led /\ beacon' = beacon
  OBVIOUS
<1>3. MachineOK' /\ Types' /\ ListOK(todo, active, phase, goal, waited)'
  BY <1>1, <1>2 DEF IInv, MachineOK, Types
<1>4. Seen'
  <2>1. NoLed(todo') => LedFits(led, me["health"], active, "leave", g)
    <3>1. NoLed(todo') => \A c \in Colors : LedOK(c, active, "rest", "none") => LedOK(c, active, "leave", g)
      BY <1>1 DEF LedOK, WhiteOK, Living
    <3>. QED  BY <1>1, <3>1, LedGoesOn
  <2>. QED  BY <1>1, <1>2, <2>1 DEF Seen
<1>5. Kept'
  BY <1>1, <1>2 DEF IInv, Kept, Started
<1>6. PauseKept'
  BY <1>1, <1>2 DEF PauseKept, Paid, AsGod
<1>. QED  BY <1>3, <1>4, <1>5, <1>6 DEF IInv

\* The effects of the signals.
LEMMA SignalEffects ==
  ASSUME NEW a, NEW ph, NEW g, NEW w \in Nat
  PROVE  /\ \A v \in Nat : EffectOK(Save("count", v), a, ph, g, w) /\ EffectOK(Save("health", v), a, ph, g, w)
         /\ \A v \in Nat : EffectOK(<<"ram", "count", v>>, a, ph, g, w)
         /\ \A v \in Nat : v + w >= GOD_PAUSE_M => EffectOK(Save("god_pause", v), a, ph, g, w)
         /\ a \in Living \/ (ph = "leave" /\ a # "top") => EffectOK(SetColor("health"), a, ph, g, w)
BY EffectParts DEF EffectOK, LedOK, Living

LEMMA HealEffects ==
  ASSUME NEW a, NEW ph, NEW g, NEW w \in Nat, NEW v \in Nat,
         a \in Living \/ (ph = "leave" /\ a # "top")
  PROVE  /\ ListOK(<<Save("health", v), SetColor("health")>>, a, ph, g, w)
         /\ ~NoLed(<<Save("health", v), SetColor("health")>>)
<1>. DEFINE e == Save("health", v)
            f == SetColor("health")
<1>1. /\ e \in Effects /\ f \in Effects /\ EffectOK(e, a, ph, g, w) /\ EffectOK(f, a, ph, g, w)
      /\ e[1] = "save" /\ f[1] = "led" /\ ~SavesHealth(f)
  <2>1. "health" \in Fields /\ "health" \in Colors
    BY DEF Fields, Colors
  <2>2. e \in Effects /\ f \in Effects
    BY <2>1, EffectMembers
  <2>3. EffectOK(e, a, ph, g, w) /\ EffectOK(f, a, ph, g, w)
    BY SignalEffects
  <2>4. e[1] = "save" /\ f[1] = "led" /\ ~SavesHealth(f)
    BY EffectParts DEF SavesHealth
  <2>. QED  BY <2>2, <2>3, <2>4
<1>. HIDE DEF e, f
<1>2. ListOK(<<e, f>>, a, ph, g, w)
  BY <1>1, TwoEffects DEF Shown
<1>3. ~NoLed(<<e, f>>)
  <2>1. 1..Len(<<e, f>>) = {1, 2} /\ <<e, f>>[2] = f
    BY <1>1, Lists, Numbers
  <2>. QED  BY <1>1, <2>1 DEF NoLed
<1>. QED  BY <1>2, <1>3 DEF e, f

\* Minutes waited only grow while signals are dispatched.
LEMMA Minutes ==
  ASSUME IInv, AtRest, NEW sig, Dispatch(sig)
  PROVE  /\ waited' \in Nat /\ waited' >= waited /\ waited' <= GOD_PAUSE_M
         /\ sig = "TIME_TICK_1M" /\ active = "god_ready" =>
              waited' = IF waited < GOD_PAUSE_M THEN waited + 1 ELSE waited
         /\ sig = "PILL_GOD" /\ active = "simple" => waited' = GOD_PAUSE_M
<1>1. waited \in Nat /\ waited <= GOD_PAUSE_M /\ GOD_PAUSE_M \in Nat
  BY RestFacts, HealthAssumption
<1>2. waited' = CASE sig = "PILL_GOD" /\ active = "simple" -> GOD_PAUSE_M
                  [] sig = "TIME_TICK_1M" /\ active = "god_ready" /\ waited < GOD_PAUSE_M -> waited + 1
                  [] OTHER -> waited
  BY DEF Dispatch
<1>. QED  BY <1>1, <1>2

\* The seconds and the minutes.
LEMMA TimeKeeps ==
  ASSUME IInv, AtRest, UNCHANGED <<me, ee, led, beacon>>,
         waited' \in Nat, waited' >= waited, waited' <= GOD_PAUSE_M
  PROVE  /\ active = "god" /\ TickGod => IInv'
         /\ /\ active = "god_ready" /\ TickMinute
            /\ waited' = IF waited < GOD_PAUSE_M THEN waited + 1 ELSE waited
            => IInv'
<1>1. /\ phase = "rest" /\ handler = "none" /\ goal = "none"
      /\ me["count"] \in Nat /\ me["god_pause"] \in Nat /\ ee["god_pause"] = me["god_pause"]
      /\ waited \in Nat /\ GOD_PAUSE_M \in Nat /\ (Paid \/ active = "god")
  BY RestFacts, HealthAssumption DEF Fields
<1>2. ASSUME active = "god", TickGod PROVE IInv'
  <2>1. CASE me["count"] >= GOD_THRESHOLD_S
    <3>1. Tran("god", "god_ready", <<>>)
      BY <1>2, <2>1 DEF TickGod
    <3>2. ListOK(todo', active, "leave", "god_ready", waited')
      BY <3>1, EmptyList DEF Tran
    <3>. QED  BY <1>2, <3>1, <3>2, TranKeeps DEF Tran, Leaving
  <2>2. CASE ~(me["count"] >= GOD_THRESHOLD_S)
    <3>. DEFINE v == me["count"] + 1
    <3>1. v \in Nat
      BY <1>1
    <3>2. \/ Stay(<<Save("count", v)>>)
          \/ Stay(<< <<"ram", "count", v>> >>)
      BY <1>2, <2>2 DEF TickGod
    <3>. HIDE DEF v
    <3>3. ListOK(todo', active, "rest", "none", waited')
      <4>1. /\ Save("count", v) \in Effects /\ <<"ram", "count", v>> \in Effects
            /\ EffectOK(Save("count", v), active, "rest", "none", waited')
            /\ EffectOK(<<"ram", "count", v>>, active, "rest", "none", waited')
        <5>1. "count" \in Fields
          BY DEF Fields
        <5>. QED  BY <3>1, <5>1, EffectMembers, SignalEffects
      <4>. QED  BY <3>2, <4>1, OneEffect, OtherSaves DEF Stay
    <3>. QED  BY <3>2, <3>3, StayKeeps DEF Stay, machine
  <2>. QED  BY <2>1, <2>2
<1>3. ASSUME active = "god_ready", TickMinute,
             waited' = IF waited < GOD_PAUSE_M THEN waited + 1 ELSE waited
      PROVE  IInv'
  <2>1. CASE me["god_pause"] > 0
    <3>. DEFINE v == me["god_pause"] - 1
    <3>1. v \in Nat /\ v + waited' >= GOD_PAUSE_M
      BY <1>1, <1>3, <2>1 DEF Paid
    <3>2. Stay(<<Save("god_pause", v)>>)
      BY <1>3, <2>1 DEF TickMinute
    <3>. HIDE DEF v
    <3>3. ListOK(todo', active, "rest", "none", waited')
      <4>1. Save("god_pause", v) \in Effects /\ EffectOK(Save("god_pause", v), active, "rest", "none", waited')
        <5>1. "god_pause" \in Fields
          BY DEF Fields
        <5>. QED  BY <3>1, <5>1, EffectMembers, SignalEffects
      <4>. QED  BY <3>2, <4>1, OneEffect, OtherSaves DEF Stay
    <3>. QED  BY <3>2, <3>3, StayKeeps DEF Stay, machine
  <2>2. CASE ~(me["god_pause"] > 0)
    <3>1. Stay(<<>>)
      BY <1>3, <2>2 DEF TickMinute
    <3>2. ListOK(todo', active, "rest", "none", waited')
      BY <3>1, EmptyList DEF Stay
    <3>. QED  BY <3>1, <3>2, StayKeeps DEF Stay, machine
  <2>. QED  BY <2>1, <2>2
<1>. QED  BY <1>2, <1>3

\* Radiation and pills.
LEMMA PillsKeep ==
  ASSUME IInv, AtRest, UNCHANGED <<me, ee, led, beacon>>,
         waited' \in Nat, waited' >= waited, waited' <= GOD_PAUSE_M
  PROVE  /\ active \in {"simple", "god_ready"} /\ Radiation => IInv'
         /\ PillHeal => IInv'
         /\ PillReset => IInv'
         /\ active = "simple" /\ waited' = GOD_PAUSE_M /\ PillGod => IInv'
<1>1. /\ phase = "rest" /\ handler = "none" /\ goal = "none"
      /\ active \in {"simple", "god_ready", "god", "dead"}
      /\ me["health"] \in Nat /\ DEFAULT_HP \in Nat /\ DEFAULT_DAMAGE \in Nat /\ GOD_PAUSE_M \in Nat
  BY RestFacts, HealthAssumption DEF Fields
<1>2. ASSUME active \in {"simple", "god_ready"}, Radiation PROVE IInv'
  <2>1. CASE me["health"] <= DEFAULT_DAMAGE
    <3>1. Tran("mortal", "dead", <<>>)
      BY <1>2, <2>1 DEF Radiation
    <3>2. ListOK(todo', active, "leave", "dead", waited')
      BY <3>1, EmptyList DEF Tran
    <3>. QED  BY <1>2, <3>1, <3>2, TranKeeps DEF Tran, Leaving
  <2>2. CASE ~(me["health"] <= DEFAULT_DAMAGE)
    <3>. DEFINE v == me["health"] - DEFAULT_DAMAGE
    <3>1. v \in Nat
      BY <1>1, <2>2
    <3>2. Stay(<<Save("health", v), SetColor("health")>>)
      BY <1>2, <2>2 DEF Radiation
    <3>. HIDE DEF v
    <3>3. active \in Living
      BY <1>2 DEF Living
    <3>4. ListOK(todo', active, "rest", "none", waited')
      BY <3>1, <3>2, <3>3, HealEffects DEF Stay
    <3>. QED  BY <3>2, <3>4, StayKeeps DEF Stay, machine
  <2>. QED  BY <2>1, <2>2
<1>. DEFINE heal == <<Save("health", DEFAULT_HP), SetColor("health")>>
<1>3. ASSUME In("alive"), Stay(heal) PROVE IInv'
  <2>1. active \in Living
    BY <1>1, <1>3 DEF In, Ancestors, Living
  <2>2. ListOK(todo', active, "rest", "none", waited')
    BY <1>1, <1>3, <2>1, HealEffects DEF Stay
  <2>. QED  BY <1>3, <2>2, StayKeeps DEF Stay, machine
<1>4. ASSUME NEW h \in {"alive", "dead"}, In(h), Tran(h, "simple", heal) PROVE IInv'
  <2>1. Leaving(h, "simple", active)
    BY <1>1, <1>4 DEF In, Ancestors, Leaving
  <2>2. ListOK(heal, active, "leave", "simple", waited') /\ ~NoLed(heal)
    BY <1>1, HealEffects
  <2>. QED  BY <1>4, <2>1, <2>2, TranKeeps DEF Tran
<1>5. PillHeal => IInv'
  BY <1>3, <1>4 DEF PillHeal
<1>6. PillReset => IInv'
  BY <1>4 DEF PillReset
<1>7. ASSUME active = "simple", waited' = GOD_PAUSE_M, PillGod PROVE IInv'
  <2>1. Save("god_pause", 0) \in Effects /\ EffectOK(Save("god_pause", 0), active, "leave", "god_ready", waited')
    <3>1. "god_pause" \in Fields /\ 0 \in Nat /\ 0 + waited' >= GOD_PAUSE_M
      BY <1>1, <1>7 DEF Fields
    <3>. QED  BY <3>1, EffectMembers, SignalEffects
  <2>2. ListOK(todo', active, "leave", "god_ready", waited')
    BY <1>7, <2>1, OneEffect, OtherSaves DEF PillGod, Tran
  <2>3. Leaving("simple", "god_ready", active)
    BY <1>7 DEF Leaving
  <2>. QED  BY <1>7, <2>2, <2>3, TranKeeps DEF PillGod, Tran
<1>. QED  BY <1>2, <1>5, <1>6, <1>7

\* The buttons, and a signal that no state handles.
LEMMA ButtonsKeep ==
  ASSUME IInv, AtRest, UNCHANGED <<me, ee, led, beacon>>,
         waited' \in Nat, waited' >= waited, waited' <= GOD_PAUSE_M
  PROVE  /\ active = "god_ready" /\ GodButton => IInv'
         /\ active \in {"simple", "god_ready"} /\ Tran("mortal", "dead", <<>>) => IInv'
         /\ Stay(<<>>) => IInv'
<1>1. /\ phase = "rest" /\ handler = "none" /\ goal = "none"
      /\ ee["god_pause"] = me["god_pause"] /\ (Paid \/ active = "god")
      /\ waited \in Nat /\ GOD_PAUSE_M \in Nat
  BY RestFacts, HealthAssumption
<1>2. Stay(<<>>) => IInv'
  BY EmptyList, StayKeeps DEF Stay, machine
<1>3. ASSUME active \in {"simple", "god_ready"}, Tran("mortal", "dead", <<>>) PROVE IInv'
  <2>1. ListOK(todo', active, "leave", "dead", waited')
    BY <1>3, EmptyList DEF Tran
  <2>. QED  BY <1>3, <2>1, TranKeeps DEF Tran, Leaving
<1>4. ASSUME active = "god_ready", GodButton PROVE IInv'
  <2>1. CASE me["god_pause"] = 0
    <3>1. Tran("god_ready", "god", <<>>)
      BY <1>4, <2>1 DEF GodButton
    <3>2. waited' >= GOD_PAUSE_M
      BY <1>1, <1>4, <2>1 DEF Paid
    <3>3. ListOK(todo', active, "leave", "god", waited')
      BY <3>1, EmptyList DEF Tran
    <3>. QED  BY <1>4, <3>1, <3>2, <3>3, TranKeeps DEF Tran, Leaving
  <2>2. CASE me["god_pause"] # 0
    <3>1. Stay(<<Flash>>)
      BY <1>4, <2>2 DEF GodButton
    <3>2. Flash \in Effects /\ EffectOK(Flash, active, "rest", "none", waited') /\ ~SavesHealth(Flash)
      <4>1. "health" \in Colors /\ active \in Living
        BY <1>4 DEF Colors, Living
      <4>. QED  BY <4>1, EffectMembers, EffectParts, SignalEffects DEF Flash, SavesHealth
    <3>3. ListOK(todo', active, "rest", "none", waited')
      BY <3>1, <3>2, OneEffect DEF Stay
    <3>. QED  BY <3>1, <3>3, StayKeeps DEF Stay, machine
  <2>. QED  BY <2>1, <2>2
<1>. QED  BY <1>2, <1>3, <1>4

LEMMA DispatchInv == ASSUME IInv, AtRest, NEW sig, Dispatch(sig) PROVE IInv'
<1>1. UNCHANGED <<me, ee, led, beacon>>
  BY DEF Dispatch
<1>2. active \in {"simple", "god_ready", "god", "dead"}
  BY RestFacts
<1>3. /\ In("god") <=> active = "god"
      /\ In("god_ready") <=> active = "god_ready"
      /\ In("simple") <=> active = "simple"
      /\ In("mortal") <=> active \in {"simple", "god_ready"}
  BY <1>2 DEF In, Ancestors
<1>4. \/ sig = "TIME_TICK_1S" /\ In("god") /\ TickGod
      \/ sig = "TIME_TICK_1M" /\ In("god_ready") /\ TickMinute
      \/ sig = "RAD_RECEIVED" /\ In("mortal") /\ Radiation
      \/ PillHeal
      \/ PillReset
      \/ sig = "PILL_GOD" /\ In("simple") /\ PillGod
      \/ sig = "GOD_BUTTON_LONGPRESS" /\ In("god_ready") /\ GodButton
      \/ sig = "DEAD_BUTTON_LONGPRESS" /\ In("mortal") /\ Tran("mortal", "dead", <<>>)
      \/ Stay(<<>>)
  BY DEF Dispatch
<1>. QED  BY <1>1, <1>3, <1>4, Minutes, TimeKeeps, PillsKeep, ButtonsKeep

\* IInv says nothing of the inbox.
LEMMA SignalInv == ASSUME IInv, Input \/ EverySecond \/ NextSignal PROVE IInv'
<1>1. AtRest /\ \E sig : Dispatch(sig)
  BY DEF Input, EverySecond, NextSignal
<1>. QED  BY <1>1, DispatchInv

-----------------------------------------------------------------------------
(* Transitions.                                                            *)

\* A state that must be left has its parent left or kept next.
LEMMA LeavingGoesOn ==
  ASSUME phase = "leave", Leaving(handler, goal, active), SM!MustLeave
  PROVE  /\ Leaving(handler, goal, Parent[active])
         /\ Parent[active] \notin Saved
         /\ Parent[active] \in Living => active \in Living
         /\ active = "god" => Parent[active] = "alive" /\ (goal = "god_ready" \/ goal = "simple")
         /\ WhiteOK(active, goal) => WhiteOK(Parent[active], goal)
         /\ handler # "top" /\ Parent[active] # "top"
<1>1. \/ handler \in Ancestors[active] /\ handler # active
      \/ active \notin Ancestors[goal]
      \/ active = handler /\ active = goal
  BY DEF SM!MustLeave
<1>2. CASE handler = "top" /\ goal \in Saved /\ active = "top"
  BY <1>1, <1>2 DEF Ancestors, Saved
<1>3. CASE handler = "god" /\ goal = "god_ready" /\ active \in {"god", "alive"}
  <2>1. active = "god"
    BY <1>1, <1>3 DEF Ancestors
  <2>. QED  BY <1>3, <2>1 DEF Parent, Leaving, Saved, Living, WhiteOK
<1>4. CASE handler = "mortal" /\ goal = "dead" /\ active \in {"god_ready", "simple", "mortal", "alive", "global"}
  <2>1. active # "global"
    BY <1>1, <1>4 DEF Ancestors
  <2>. QED  BY <1>4, <2>1 DEF Parent, Leaving, Saved, Living, WhiteOK
<1>5. CASE handler = "dead" /\ goal = "simple" /\ active \in {"dead", "global"}
  <2>1. active = "dead"
    BY <1>1, <1>5 DEF Ancestors
  <2>. QED  BY <1>5, <2>1 DEF Parent, Leaving, Saved, Living, WhiteOK
<1>6. CASE handler = "alive" /\ goal = "simple" /\ active \in {"god", "god_ready", "simple", "mortal", "alive"}
  <2>1. active # "alive"
    BY <1>1, <1>6 DEF Ancestors
  <2>. QED  BY <1>6, <2>1 DEF Parent, Leaving, Saved, Living, WhiteOK
<1>7. CASE handler = "simple" /\ goal = "god_ready" /\ active \in {"simple", "mortal"}
  <2>1. active = "simple"
    BY <1>1, <1>7 DEF Ancestors
  <2>. QED  BY <1>7, <2>1 DEF Parent, Leaving, Saved, Living, WhiteOK
<1>8. CASE handler = "god_ready" /\ goal = "god" /\ active \in {"god_ready", "mortal", "alive"}
  <2>1. active # "alive"
    BY <1>1, <1>8 DEF Ancestors
  <2>. QED  BY <1>8, <2>1 DEF Parent, Leaving, Saved, Living, WhiteOK
<1>. QED  BY <1>2, <1>3, <1>4, <1>5, <1>6, <1>7, <1>8 DEF Leaving

\* When no more is left, the machine is above its goal.
LEMMA LeftAbove ==
  ASSUME phase = "leave", Leaving(handler, goal, active), ~SM!MustLeave
  PROVE  goal \in Saved /\ active \in Ancestors[goal] /\ active \notin Saved
<1>1. /\ active \in Ancestors[goal]
      /\ ~(active = handler /\ active = goal)
      /\ ~(handler \in Ancestors[active] /\ handler # active)
  BY DEF SM!MustLeave
<1>2. goal \in Saved
  BY DEF Leaving, Saved
<1>3. active \notin Saved
  BY <1>1 DEF Leaving, Saved, Ancestors
<1>. QED  BY <1>1, <1>2, <1>3

LEMMA LeaveInv == ASSUME IInv, Leave PROVE IInv'
<1>1. /\ todo = <<>> /\ phase = "leave" /\ SM!MustLeave
      /\ active' = Parent[active] /\ phase' = phase /\ handler' = handler /\ goal' = goal
      /\ todo' = ExitEffects(active) /\ waited' = IF active = "god" THEN 0 ELSE waited
      /\ me' = me /\ ee' = ee /\ led' = led /\ beacon' = beacon /\ may' = may
  BY DEF Leave, SM!Leave
<1>2. Leaving(handler, goal, active)
  BY <1>1 DEF IInv, MachineOK
<1>3. /\ Leaving(handler, goal, active')
      /\ active' \notin Saved
      /\ active' \in Living => active \in Living
      /\ active = "god" => active' = "alive" /\ (goal = "god_ready" \/ goal = "simple")
      /\ WhiteOK(active, goal) => WhiteOK(active', goal)
      /\ handler # "top" /\ active' # "top"
  BY <1>1, <1>2, LeavingGoesOn
<1>4. NoLed(todo) /\ NoBeacon(todo) /\ NoState(todo) /\ NoPause(todo) /\ GOD_PAUSE_M \in Nat
  BY <1>1, EmptyList, HealthAssumption
<1>5. Types /\ Seen /\ Kept /\ PauseKept
  BY DEF IInv
<1>6. MachineOK' /\ Types'
  <2>1. waited' \in Nat /\ waited' <= GOD_PAUSE_M
    BY <1>1, <1>4, <1>5 DEF Types
  <2>. QED  BY <1>1, <1>3, <1>5, <2>1 DEF MachineOK, Types
<1>7. Seen'
  <2>1. LedFits(led, me["health"], active', phase, goal)
    <3>1. \A c \in Colors : LedOK(c, active, phase, goal) => LedOK(c, active', phase, goal)
      BY <1>1, <1>3 DEF LedOK, Saved
    <3>. QED  BY <1>4, <1>5, <3>1, LedGoesOn DEF Seen
  <2>2. BeaconOK(beacon, active')
    BY <1>1, <1>3, <1>4, <1>5 DEF Seen, BeaconOK, Saved
  <2>. QED  BY <1>1, <2>1, <2>2 DEF Seen
<1>8. Kept'
  BY <1>1, <1>3, <1>4, <1>5 DEF Kept, Started
<1>9. CASE active = "god"
  <2>. DEFINE e == Save("god_pause", GOD_PAUSE_M)
  <2>1. todo' = <<e>> /\ waited' = 0 /\ active' = "alive"
    BY <1>1, <1>3, <1>9 DEF ExitEffects
  <2>2. /\ e \in Effects /\ EffectOK(e, active', phase, goal, waited')
        /\ e[1] = "save" /\ e[2] = "god_pause" /\ ~SavesHealth(e)
    <3>1. "god_pause" \in Fields /\ GOD_PAUSE_M \in Nat /\ GOD_PAUSE_M + 0 >= GOD_PAUSE_M /\ 0 \in Nat
      BY <1>4 DEF Fields
    <3>2. e \in Effects
      BY <3>1, EffectMembers
    <3>3. EffectOK(e, active', phase, goal, 0)
      BY <3>1, SignalEffects
    <3>4. e[1] = "save" /\ e[2] = "god_pause" /\ ~SavesHealth(e)
      BY EffectParts, OtherSaves
    <3>. QED  BY <2>1, <3>2, <3>3, <3>4
  <2>. HIDE DEF e
  <2>3. ListOK(todo', active', phase', goal', waited')
    BY <1>1, <2>1, <2>2, OneEffect
  <2>4. ~NoPause(todo')
    <3>1. 1..Len(<<e>>) = {1} /\ <<e>>[1] = e
      BY <2>2, Lists, Numbers
    <3>. QED  BY <2>1, <2>2, <3>1 DEF NoPause
  <2>5. ee["health_state"] = "god"
    BY <1>4, <1>5, <1>9 DEF Kept, Saved
  <2>6. ~(handler = "god_ready" /\ goal = "god")
    BY <1>2, <1>9 DEF Leaving
  <2>7. PauseKept'
    BY <1>1, <2>1, <2>4, <2>5, <2>6 DEF PauseKept, AsGod
  <2>. QED  BY <1>6, <1>7, <1>8, <2>3, <2>7 DEF IInv
<1>10. CASE active # "god"
  <2>1. todo' = <<>> /\ waited' = waited
    BY <1>1, <1>10 DEF ExitEffects
  <2>2. ListOK(todo', active', phase', goal', waited')
    BY <2>1, EmptyList
  <2>3. Paid
    BY <1>1, <1>3, <1>4, <1>5, <1>10 DEF PauseKept, AsGod
  <2>4. PauseKept'
    BY <1>1, <1>5, <2>1, <2>3 DEF PauseKept, Paid
  <2>. QED  BY <1>6, <1>7, <1>8, <2>2, <2>4 DEF IInv
<1>. QED  BY <1>9, <1>10

LEMMA TurnInv == ASSUME IInv, Turn PROVE IInv'
<1>1. /\ todo = <<>> /\ phase = "leave" /\ ~SM!MustLeave /\ phase' = "enter"
      /\ active' = active /\ handler' = handler /\ goal' = goal
      /\ todo' = todo /\ waited' = waited
      /\ me' = me /\ ee' = ee /\ led' = led /\ beacon' = beacon /\ may' = may
  BY DEF Turn, SM!LeftAll
<1>2. goal \in Saved /\ active \in Ancestors[goal] /\ active \notin Saved
  BY <1>1, LeftAbove DEF IInv, MachineOK
<1>3. Types /\ Seen /\ Kept /\ PauseKept
  BY DEF IInv
<1>4. MachineOK' /\ Types' /\ ListOK(todo, active, phase, goal, waited)'
  BY <1>1, <1>2, <1>3, EmptyList DEF MachineOK, Types
<1>5. Seen'
  <2>1. \A c \in Colors : LedOK(c, active, phase, goal) => LedOK(c, active, "enter", goal)
    BY <1>2 DEF LedOK, Saved
  <2>2. NoLed(todo') => LedFits(led, me["health"], active, "enter", goal)
    BY <1>1, <1>3, <2>1, LedGoesOn DEF Seen
  <2>. QED  BY <1>1, <1>3, <2>2 DEF Seen
<1>6. Kept'
  BY <1>1, <1>2, <1>3 DEF Kept, Started
<1>7. PauseKept'
  BY <1>1, <1>3, EmptyList DEF PauseKept, Paid, AsGod
<1>. QED  BY <1>4, <1>5, <1>6, <1>7 DEF IInv

LEMMA ArriveInv == ASSUME IInv, Arrive PROVE IInv'
<1>1. /\ todo = <<>> /\ phase = "enter" /\ active = goal
      /\ active' = active /\ phase' = "rest" /\ handler' = "none" /\ goal' = "none"
      /\ todo' = todo /\ waited' = waited /\ may' = {active}
      /\ me' = me /\ ee' = ee /\ led' = led /\ beacon' = beacon
  BY DEF Arrive, SM!Arrive
<1>2. active \in Saved
  BY <1>1 DEF IInv, MachineOK
<1>3. Types /\ Seen /\ Kept /\ PauseKept
  BY DEF IInv
<1>4. MachineOK' /\ Types' /\ ListOK(todo, active, phase, goal, waited)'
  BY <1>1, <1>2, <1>3, EmptyList DEF MachineOK, Types
<1>5. Seen'
  <2>1. \A c \in Colors : LedOK(c, active, phase, goal) => LedOK(c, active, "rest", "none")
    BY <1>1, <1>2 DEF LedOK, WhiteOK, Saved
  <2>2. NoLed(todo') => LedFits(led, me["health"], active, "rest", "none")
    BY <1>1, <1>3, <2>1, LedGoesOn DEF Seen
  <2>. QED  BY <1>1, <1>3, <2>2 DEF Seen
<1>6. Kept'
  BY <1>1, <1>2, <1>3, EmptyList DEF Kept, Started
<1>7. PauseKept'
  BY <1>1, <1>2, <1>3 DEF PauseKept, Paid, AsGod, Saved
<1>. QED  BY <1>4, <1>5, <1>6, <1>7 DEF IInv

\* Health_ctor and QMsm_init go to the state that the EEPROM holds.
LEMMA OnStartedInv == ASSUME IInv, OnStarted PROVE IInv'
<1>1. /\ active = "top" /\ phase = "rest" /\ me' = [f \in Fields |-> ee[f]]
      /\ active' = active /\ phase' = "leave" /\ handler' = "top" /\ goal' = ee["health_state"]
      /\ todo' = todo /\ waited' = waited /\ may' = may
      /\ ee' = ee /\ led' = led /\ beacon' = beacon
  BY DEF OnStarted, StartState
<1>2. Types /\ Seen /\ Kept /\ PauseKept /\ ListOK(todo, active, phase, goal, waited)
  BY DEF IInv
<1>3. MachineOK' /\ Types'
  BY <1>1, <1>2 DEF MachineOK, Types, Leaving
<1>4. ListOK(todo, active, phase, goal, waited)'
  <2>1. /\ todo \in Seq(Effects)
        /\ \A n \in 1..Len(todo) : EffectOK(todo[n], active, phase, goal, waited)
        /\ \A n, p \in 1..Len(todo) : todo[n][1] = todo[p][1] /\ Shown(todo[n]) => n = p
        /\ \A n \in 1..Len(todo) : SavesHealth(todo[n]) => /\ n + 1 \in 1..Len(todo)
                                                           /\ todo[n + 1][1] = "led"
    BY <1>2 DEF ListOK
  <2>2. \A e : EffectOK(e, active, phase, goal, waited) => EffectOK(e, active', phase', goal', waited')
    BY <1>1 DEF EffectOK, LedOK, BeaconOK, WhiteOK
  <2>3. \A n \in 1..Len(todo) : EffectOK(todo[n], active', phase', goal', waited')
    BY <2>1, <2>2
  <2>. QED  BY <1>1, <2>1, <2>3 DEF ListOK
<1>5. Seen'
  <2>1. NoLed(todo') => LedFits(led, me'["health"], "top", "leave", goal')
    <3>1. NoLed(todo') => led = kBlack
      BY <1>1, <1>2 DEF Seen, LedFits, LedOK, ColorOf
    <3>2. "black" \in Colors /\ LedOK("black", "top", "leave", goal') /\ kBlack = ColorOf("black", me'["health"])
      BY DEF Colors, LedOK, Living, ColorOf
    <3>. QED  BY <3>1, <3>2 DEF LedFits
  <2>. QED  BY <1>1, <1>2, <2>1 DEF Seen, BeaconOK
<1>6. Kept'
  <2>1. me'["health"] = ee["health"] /\ me'["god_pause"] = ee["god_pause"]
    BY <1>1 DEF Fields
  <2>. QED  BY <1>1, <1>2, <2>1 DEF Kept, Started, Saved
<1>7. PauseKept'
  BY <1>1, <1>2 DEF PauseKept, Paid, AsGod
<1>. QED  BY <1>3, <1>4, <1>5, <1>6, <1>7 DEF IInv

LEMMA DarkAtFirst ==
  ASSUME NEW h
  PROVE  LedFits(kBlack, h, "top", "rest", "none")
<1>1. "black" \in Colors /\ LedOK("black", "top", "rest", "none") /\ kBlack = ColorOf("black", h)
  BY DEF Colors, LedOK, Living, ColorOf
<1>. QED  BY <1>1 DEF LedFits

LEMMA RestartInv == ASSUME IInv, Restart PROVE IInv'
<1>1. /\ active' = "top" /\ phase' = "rest" /\ handler' = "none" /\ goal' = "none"
      /\ todo' = <<>> /\ led' = kBlack /\ beacon' = FALSE
      /\ me' = me /\ ee' = ee /\ may' = may /\ waited' = waited
  BY DEF Restart, Fresh
<1>2. Types /\ Kept /\ PauseKept
  BY DEF IInv
<1>3. MachineOK' /\ Types' /\ ListOK(todo, active, phase, goal, waited)'
  BY <1>1, <1>2, EmptyList DEF MachineOK, Types
<1>4. Seen'
  BY <1>1, DarkAtFirst DEF Seen, BeaconOK, Living
<1>5. Kept' /\ PauseKept'
  BY <1>1, <1>2 DEF Kept, Started, PauseKept, Paid, AsGod, Saved
<1>. QED  BY <1>3, <1>4, <1>5 DEF IInv

\* On the way to a saved state no other saved state is entered.
LEMMA Steps ==
  ASSUME NEW g \in Saved, NEW s \in States, s \in Ancestors[g]
  PROVE  s \in Saved => s = g
BY DEF Saved, States, Ancestors

\* What the entry of a state on the way to g does.
LEMMA EntryLists ==
  ASSUME NEW g \in Saved, NEW s \in States, s \in Ancestors[g], NEW w \in Nat
  PROVE  /\ ListOK(EntryEffects(s), s, "enter", g, w)
         /\ s \in Saved => ~NoState(EntryEffects(s))
         /\ NoLed(EntryEffects(s)) => s \in {"global", "mortal", "simple"}
         /\ NoBeacon(EntryEffects(s)) => s \notin {"alive", "dead"}
<1>0. s \in Saved => s = g
  BY Steps
<1>1. s \in {"alive", "god", "god_ready", "simple", "dead"} \cup {"global", "mortal"}
  BY DEF States
<1>2. /\ "count" \in Fields /\ 0 \in Nat /\ TRUE \in BOOLEAN /\ FALSE \in BOOLEAN
      /\ "health" \in Colors /\ "white" \in Colors /\ "red" \in Colors
  BY DEF Fields, Colors
<1>3. /\ Save("count", 0) \in Effects /\ EffectOK(Save("count", 0), s, "enter", g, w)
      /\ ~Shown(Save("count", 0)) /\ ~SavesHealth(Save("count", 0))
  BY <1>2, EffectMembers, EffectParts, SignalEffects, OtherSaves DEF Shown
<1>4. s \in Saved => /\ SaveState(s) \in Effects /\ EffectOK(SaveState(s), s, "enter", g, w)
                     /\ ~Shown(SaveState(s)) /\ ~SavesHealth(SaveState(s))
  BY <1>0, EffectMembers, EffectParts, OtherSaves DEF EffectOK, Shown
<1>5. /\ \A c : SetColor(c)[1] = "led" /\ Shown(SetColor(c)) /\ ~SavesHealth(SetColor(c))
      /\ \A b : Beacon(b)[1] = "beacon" /\ Shown(Beacon(b)) /\ ~SavesHealth(Beacon(b))
      /\ SaveState(s)[1] = "save" /\ SaveState(s)[2] = "health_state"
  BY EffectParts DEF Shown, SavesHealth
<1>6. CASE s = "alive"
  <2>. DEFINE e == Beacon(TRUE)
              f == SetColor("health")
  <2>1. EntryEffects(s) = <<e, f>>
    BY <1>6 DEF EntryEffects
  <2>2. /\ e \in Effects /\ f \in Effects /\ e[1] = "beacon" /\ f[1] = "led"
        /\ ~SavesHealth(e) /\ ~SavesHealth(f)
    BY <1>2, <1>5, EffectMembers
  <2>3. EffectOK(e, s, "enter", g, w) /\ EffectOK(f, s, "enter", g, w)
    BY <1>6, EffectParts DEF EffectOK, LedOK, BeaconOK, Living
  <2>. HIDE DEF e, f
  <2>4. ListOK(<<e, f>>, s, "enter", g, w)
    BY <2>2, <2>3, TwoEffects
  <2>5. 1..Len(<<e, f>>) = {1, 2} /\ <<e, f>>[1] = e /\ <<e, f>>[2] = f
    BY <2>2, Lists, Numbers
  <2>6. ~NoLed(<<e, f>>) /\ ~NoBeacon(<<e, f>>)
    BY <2>2, <2>5 DEF NoLed, NoBeacon
  <2>. QED  BY <1>6, <2>1, <2>4, <2>6 DEF Saved
<1>7. CASE s = "god"
  <2>. DEFINE e == SetColor("white")
              f == Save("count", 0)
              h == SaveState(s)
  <2>1. EntryEffects(s) = <<e, f, h>> /\ s = g
    BY <1>0, <1>7 DEF EntryEffects, Saved
  <2>2. /\ e \in Effects /\ f \in Effects /\ h \in Effects /\ e[1] = "led" /\ ~Shown(f) /\ ~Shown(h)
        /\ ~SavesHealth(e) /\ ~SavesHealth(f) /\ ~SavesHealth(h)
        /\ h[1] = "save" /\ h[2] = "health_state"
    BY <1>2, <1>3, <1>4, <1>5, <1>7, EffectMembers DEF Saved
  <2>3. EffectOK(f, s, "enter", g, w) /\ EffectOK(h, s, "enter", g, w)
    BY <1>3, <1>4, <1>7 DEF Saved
  <2>4. EffectOK(e, s, "enter", g, w)
    BY <1>7, <2>1, EffectParts DEF EffectOK, LedOK, WhiteOK, Living
  <2>. HIDE DEF e, f, h
  <2>5. ListOK(<<e, f, h>>, s, "enter", g, w)
    BY <2>2, <2>3, <2>4, ThreeEffects
  <2>6. 1..Len(<<e, f, h>>) = {1, 2, 3} /\ <<e, f, h>>[1] = e /\ <<e, f, h>>[3] = h
    BY <2>2, Lists, Numbers
  <2>7. ~NoLed(<<e, f, h>>) /\ ~NoState(<<e, f, h>>)
    BY <2>2, <2>6 DEF NoLed, NoState
  <2>. QED  BY <1>7, <2>1, <2>5, <2>7
<1>8. CASE s = "god_ready"
  <2>. DEFINE e == SetColor("health")
              f == SaveState(s)
  <2>1. EntryEffects(s) = <<e, f>>
    BY <1>8 DEF EntryEffects, Flash
  <2>2. /\ e \in Effects /\ f \in Effects /\ e[1] = "led" /\ f[1] = "save" /\ f[2] = "health_state"
        /\ ~SavesHealth(e) /\ ~SavesHealth(f)
    BY <1>2, <1>4, <1>5, <1>8, EffectMembers DEF Saved
  <2>3. EffectOK(f, s, "enter", g, w)
    BY <1>4, <1>8 DEF Saved
  <2>4. EffectOK(e, s, "enter", g, w)
    BY <1>8, EffectParts DEF EffectOK, LedOK, Living
  <2>. HIDE DEF e, f
  <2>5. ListOK(<<e, f>>, s, "enter", g, w)
    BY <2>2, <2>3, <2>4, TwoEffects
  <2>6. 1..Len(<<e, f>>) = {1, 2} /\ <<e, f>>[1] = e /\ <<e, f>>[2] = f
    BY <2>2, Lists, Numbers
  <2>7. ~NoLed(<<e, f>>) /\ ~NoState(<<e, f>>)
    BY <2>2, <2>6 DEF NoLed, NoState
  <2>. QED  BY <1>8, <2>1, <2>5, <2>7
<1>9. CASE s = "simple"
  <2>. DEFINE e == SaveState(s)
  <2>1. EntryEffects(s) = <<e>>
    BY <1>9 DEF EntryEffects
  <2>2. /\ e \in Effects /\ EffectOK(e, s, "enter", g, w) /\ e[1] = "save" /\ e[2] = "health_state"
        /\ ~SavesHealth(e)
    BY <1>4, <1>5, <1>9 DEF Saved
  <2>. HIDE DEF e
  <2>3. ListOK(<<e>>, s, "enter", g, w)
    BY <2>2, OneEffect
  <2>4. 1..Len(<<e>>) = {1} /\ <<e>>[1] = e
    BY <2>2, Lists, Numbers
  <2>5. ~NoState(<<e>>)
    BY <2>2, <2>4 DEF NoState
  <2>. QED  BY <1>9, <2>1, <2>3, <2>5
<1>10. CASE s = "dead"
  <2>. DEFINE e == SetColor("red")
              f == Save("count", 0)
              h == SaveState(s)
              i == Beacon(FALSE)
  <2>1. EntryEffects(s) = <<e, f, h, i>>
    BY <1>10 DEF EntryEffects
  <2>2. /\ e \in Effects /\ f \in Effects /\ h \in Effects /\ i \in Effects
        /\ e[1] = "led" /\ i[1] = "beacon" /\ ~Shown(f) /\ ~Shown(h)
        /\ ~SavesHealth(e) /\ ~SavesHealth(f) /\ ~SavesHealth(h) /\ ~SavesHealth(i)
        /\ h[1] = "save" /\ h[2] = "health_state"
    BY <1>2, <1>3, <1>4, <1>5, <1>10, EffectMembers DEF Saved
  <2>3. EffectOK(f, s, "enter", g, w) /\ EffectOK(h, s, "enter", g, w)
    BY <1>3, <1>4, <1>10 DEF Saved
  <2>4. EffectOK(e, s, "enter", g, w) /\ EffectOK(i, s, "enter", g, w)
    BY <1>10, EffectParts DEF EffectOK, LedOK, BeaconOK, Living
  <2>. HIDE DEF e, f, h, i
  <2>5. ListOK(<<e, f, h, i>>, s, "enter", g, w)
    BY <2>2, <2>3, <2>4, FourEffects
  <2>6. /\ 1..Len(<<e, f, h, i>>) = {1, 2, 3, 4}
        /\ <<e, f, h, i>>[1] = e /\ <<e, f, h, i>>[3] = h /\ <<e, f, h, i>>[4] = i
    BY <2>2, Lists, Numbers
  <2>7. ~NoLed(<<e, f, h, i>>) /\ ~NoState(<<e, f, h, i>>) /\ ~NoBeacon(<<e, f, h, i>>)
    BY <2>2, <2>6 DEF NoLed, NoState, NoBeacon
  <2>. QED  BY <1>10, <2>1, <2>5, <2>7
<1>11. CASE s \in {"global", "mortal"}
  <2>1. EntryEffects(s) = <<>>
    BY <1>11 DEF EntryEffects
  <2>. QED  BY <1>11, <2>1, EmptyList DEF Saved
<1>. QED  BY <1>1, <1>6, <1>7, <1>8, <1>9, <1>10, <1>11

LEMMA EnterInv == ASSUME IInv, Enter PROVE IInv'
<1>1. /\ phase = "enter" \/ (phase = "leave" /\ ~SM!MustLeave)
      /\ todo = <<>> /\ active # goal /\ phase' = "enter" /\ handler' = handler /\ goal' = goal
      /\ active' \in States /\ active' \in Ancestors[goal] /\ Parent[active'] = active
      /\ todo' = EntryEffects(active') /\ waited' = waited /\ may' = may
      /\ me' = me /\ ee' = ee /\ led' = led /\ beacon' = beacon
  BY DEF Enter, SM!Enter
<1>2. goal \in Saved /\ active \in Ancestors[goal]
  BY <1>1, LeftAbove DEF IInv, MachineOK
<1>3. Types /\ Seen /\ Kept /\ PauseKept /\ waited \in Nat
  BY DEF IInv, Types
<1>4. NoLed(todo) /\ NoBeacon(todo) /\ NoState(todo) /\ NoPause(todo)
  BY <1>1, EmptyList
<1>. DEFINE s == active'
<1>5. /\ ListOK(todo', s, "enter", goal, waited')
      /\ s \in Saved => ~NoState(todo')
      /\ NoLed(todo') => s \in {"global", "mortal", "simple"}
      /\ NoBeacon(todo') => s \notin {"alive", "dead"}
      /\ s \in Saved => s = goal
  BY <1>1, <1>2, <1>3, EntryLists, Steps
<1>6. MachineOK' /\ Types' /\ ListOK(todo, active, phase, goal, waited)'
  BY <1>1, <1>2, <1>3, <1>5 DEF MachineOK, Types
<1>7. Seen'
  <2>1. /\ s = "mortal" => active = "alive"
        /\ s = "simple" => active = "mortal" /\ goal = "simple"
        /\ s = "global" => active = "top"
        /\ s \in Living /\ s # "alive" => active \in Living
    BY <1>1, <1>5 DEF Parent, Living, States, Saved
  <2>2. NoLed(todo') => LedFits(led, me["health"], s, "enter", goal)
    <3>1. NoLed(todo') => \A c \in Colors : LedOK(c, active, phase, goal) => LedOK(c, s, "enter", goal)
      BY <1>5, <2>1 DEF LedOK, WhiteOK, Living
    <3>. QED  BY <1>3, <1>4, <3>1, LedGoesOn DEF Seen
  <2>3. NoBeacon(todo') => BeaconOK(beacon, s)
    BY <1>3, <1>4, <1>5, <2>1 DEF Seen, BeaconOK
  <2>. QED  BY <1>1, <2>2, <2>3 DEF Seen
<1>8. Kept'
  BY <1>1, <1>3, <1>5 DEF Kept, Started
<1>9. PauseKept'
  <2>1. AsGod => active \in {"top", "global", "alive"} /\ handler = "top" /\ goal = "god"
    BY <1>1, <1>2, <1>4 DEF AsGod, Ancestors, Saved
  <2>2. AsGod => s \in {"global", "alive", "god"} /\ handler = "top" /\ goal = "god"
    BY <1>1, <2>1 DEF Ancestors, States
  <2>. QED  BY <1>1, <1>3, <2>2 DEF PauseKept, Paid, AsGod
<1>. QED  BY <1>6, <1>7, <1>8, <1>9 DEF IInv

-----------------------------------------------------------------------------
(* The theorems.                                                           *)

LEMMA InitInv == Init => IInv
<1>. SUFFICES ASSUME Init PROVE IInv
  OBVIOUS
<1>1. /\ active = "top" /\ phase = "rest" /\ handler = "none" /\ goal = "none"
      /\ todo = <<>> /\ led = kBlack /\ beacon = FALSE /\ me = [f \in Fields |-> 0]
      /\ ee = [god_pause |-> 0, count |-> 0, health |-> 0, health_state |-> "simple"]
      /\ may = {"simple"} /\ waited = GOD_PAUSE_M /\ GOD_PAUSE_M \in Nat
  BY HealthAssumption DEF Init
<1>2. MachineOK /\ ListOK(todo, active, phase, goal, waited)
  BY <1>1, EmptyList DEF MachineOK
<1>3. Types
  <2>1. ee \in [Fields \cup {"health_state"} -> Nat \cup Saved]
    BY <1>1 DEF Fields, Saved
  <2>2. me \in [Fields -> Nat] /\ \A f \in Fields : ee[f] \in Nat
    BY <1>1 DEF Fields
  <2>. QED  BY <1>1, <2>1, <2>2 DEF Types, Saved
<1>4. Seen
  BY <1>1, DarkAtFirst DEF Seen, BeaconOK, Living
<1>5. Kept /\ PauseKept
  BY <1>1 DEF Kept, Started, PauseKept, Paid, AsGod, Saved
<1>. QED  BY <1>2, <1>3, <1>4, <1>5 DEF IInv

LEMMA StepInv == IInv /\ [Next]_vars => IInv'
<1>. SUFFICES ASSUME IInv, [Next]_vars PROVE IInv'
  OBVIOUS
<1>1. CASE UNCHANGED vars
  <2>1. /\ active' = active /\ phase' = phase /\ handler' = handler /\ goal' = goal
        /\ todo' = todo /\ me' = me /\ ee' = ee /\ led' = led /\ beacon' = beacon
        /\ may' = may /\ waited' = waited
    BY <1>1 DEF vars, machine
  <2>. QED  BY <2>1 DEF IInv, MachineOK, Types, Seen, Kept, Started, PauseKept, Paid, AsGod
<1>2. CASE Effect
  BY <1>2, EffectInv
<1>3. CASE Leave
  BY <1>3, LeaveInv
<1>4. CASE Turn
  BY <1>4, TurnInv
<1>5. CASE Enter
  BY <1>5, EnterInv
<1>6. CASE Arrive
  BY <1>6, ArriveInv
<1>7. CASE OnStarted
  BY <1>7, OnStartedInv
<1>8. CASE Input \/ EverySecond \/ NextSignal
  BY <1>8, SignalInv
<1>9. CASE Restart
  BY <1>9, RestartInv
<1>. QED  BY <1>1, <1>2, <1>3, <1>4, <1>5, <1>6, <1>7, <1>8, <1>9 DEF Next, Handling

\* For every health, damage, length of time and number of restarts: what the
\* EEPROM and RAM hold, and what the effects still to be made will make them,
\* fits the place the machine is at.
THEOREM Invariance == Spec => []IInv
BY InitInv, StepInv, PTL DEF Spec

\* The state that a restart at any moment comes back to is the one before the
\* event being handled or the one that the event leads to, and between events
\* the EEPROM holds the player's health and pause.
THEOREM RestartsResume == Spec => []RestartResumes
<1>1. IInv => RestartResumes
  <2>1. IInv => StartState \in may
    BY DEF IInv, Kept, StartState
  <2>2. IInv /\ AtRest => ee["health"] = me["health"] /\ ee["god_pause"] = me["god_pause"]
    BY RestFacts
  <2>. QED  BY <2>1, <2>2 DEF RestartResumes
<1>. QED  BY <1>1, Invariance, PTL

\* Between events, after any restarts and pills, the beacon is sent exactly by
\* who is not dead, the dead are red, and the living have the colour of the
\* health they have at that moment, or are gods and white.
THEOREM OthersSee == Spec => []SeenAsItIs
<1>1. IInv /\ AtRest => active \in {"simple", "god_ready", "god", "dead"}
                        /\ LedFits(led, me["health"], active, "rest", "none") /\ BeaconOK(beacon, active)
  BY RestFacts
<1>2. ASSUME IInv, AtRest
      PROVE  /\ beacon <=> active # "dead"
             /\ active = "dead" => led = kRed
             /\ active # "dead" => \/ led = GetHealthColor(me["health"])
                                   \/ active = "god" /\ led = kWhite
  <2>1. beacon <=> active # "dead"
    BY <1>1, <1>2 DEF BeaconOK, Living
  <2>2. PICK c \in Colors : led = ColorOf(c, me["health"]) /\ LedOK(c, active, "rest", "none")
    BY <1>1, <1>2 DEF LedFits
  <2>3. active = "dead" => c = "red"
    BY <2>2 DEF LedOK
  <2>4. active # "dead" => c = "health" \/ (c = "white" /\ active = "god")
    BY <1>1, <1>2, <2>2 DEF LedOK, WhiteOK, Living
  <2>. QED  BY <2>1, <2>2, <2>3, <2>4 DEF ColorOf
<1>3. IInv => SeenAsItIs
  BY <1>2 DEF SeenAsItIs
<1>. QED  BY <1>3, Invariance, PTL

\* No step makes the button lead to god before the pause was waited for or
\* paid with a god pill, however often the device restarted meanwhile.
THEOREM GodsWait == Spec => NoEarlyGod
<1>1. ASSUME IInv, [Next]_vars
      PROVE  [goal' = "god" /\ handler' = "god_ready" => waited >= GOD_PAUSE_M]_vars
  <2>. SUFFICES ASSUME Next, goal' = "god", handler' = "god_ready"
                PROVE  waited >= GOD_PAUSE_M
    BY <1>1
  <2>1. /\ handler = "god_ready" /\ goal = "god" => waited >= GOD_PAUSE_M
        /\ GOD_PAUSE_M \in Nat
    BY <1>1, HealthAssumption DEF IInv, PauseKept
  <2>2. CASE Effect \/ Leave \/ Turn \/ Enter \/ Arrive
    <3>1. handler = "god_ready" /\ goal = "god"
      BY <2>2 DEF Effect, Leave, Turn, Enter, Arrive, machine, SM!Leave, SM!LeftAll, SM!Enter, SM!Arrive
    <3>. QED  BY <2>1, <3>1
  <2>3. CASE OnStarted \/ Restart
    BY <2>3 DEF OnStarted, Restart, Fresh
  <2>4. CASE Input \/ EverySecond \/ NextSignal
    <3>1. AtRest
      BY <2>4 DEF Input, EverySecond, NextSignal
    <3>2. PICK sig : Dispatch(sig)
      BY <2>4 DEF Input, EverySecond, NextSignal
    <3>3. handler = "none" /\ (Paid \/ active = "god") /\ ee["god_pause"] = me["god_pause"]
          /\ waited \in Nat
      BY <1>1, <3>1, RestFacts
    <3>4. In("god_ready") /\ GodButton /\ me["god_pause"] = 0
      BY <3>2, <3>3 DEF Dispatch, TickGod, TickMinute, Radiation, PillHeal, PillReset, PillGod,
                        GodButton, Stay, Tran, machine
    <3>5. active # "god"
      BY <3>4 DEF In, Ancestors
    <3>. QED  BY <2>1, <3>3, <3>4, <3>5 DEF Paid
  <2>. QED  BY <2>2, <2>3, <2>4 DEF Next, Handling
<1>. QED  BY <1>1, Invariance, PTL DEF Spec, NoEarlyGod
=============================================================================
