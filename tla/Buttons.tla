------------------------------ MODULE Buttons ------------------------------
(***************************************************************************)
(* From the pins of the buttons to OnButtonPressed: SensorsThread polls    *)
(* the pins and finds the edges (embedded/kl_lib/SimpleSensors.cpp),       *)
(* ProcessButtons makes events of them (embedded/kl_lib/buttons.cpp, with  *)
(* the settings of buttons.h: short presses, long presses and long         *)
(* combos).  A poll is one step; between two polls any time may pass,      *)
(* because the thread has only the main loop's priority.                   *)
(***************************************************************************)
EXTENDS Integers, Sequences, FiniteSets, SequencesExt

CONSTANTS N,           \* BUTTONS_CNT
          LongDelay,   \* BTN_LONGPRESS_DELAY_MS, in units of time
          Wrap,        \* range of systime_t, in units of time
          MaxGap,      \* bound: time between two polls
          Changes,     \* how many pins may change between two polls
          HeldAtBoot   \* may a button be down when the device starts?

ASSUME ButtonsAssumption ==
  /\ N \in Nat \ {0} /\ LongDelay \in Nat \ {0}
  /\ MaxGap \in Nat \ {0} /\ Wrap \in Nat /\ LongDelay + MaxGap < Wrap
  /\ Changes \in 0 .. N /\ HeldAtBoot \in BOOLEAN

VARIABLES States,                  \* PinSnsState_t of each pin
          IsLongPress, LongPressTimer,
          IsCombo, LongComboTimer, IsLongCombo,
          now,                     \* system time, modulo Wrap
          age, solo, told          \* history of each button's present hold

vars == <<States, IsLongPress, LongPressTimer, IsCombo, LongComboTimer,
          IsLongCombo, now, age, solo, told>>

Buttons == 1 .. N
Down(st, b) == st[b] \in {"pssHi", "pssRising"}
Pressed(st) == {b \in Buttons : Down(st, b)}

(* The static variables are zero, and the pins have not been read yet.     *)
Init ==
  /\ States = [b \in Buttons |-> "pssNone"]
  /\ IsLongPress = [b \in Buttons |-> FALSE] /\ LongPressTimer = 0
  /\ IsCombo = FALSE /\ LongComboTimer = 0 /\ IsLongCombo = FALSE
  /\ now = 0
  /\ age = [b \in Buttons |-> 0]
  /\ solo = [b \in Buttons |-> FALSE] /\ told = [b \in Buttons |-> {}]

-----------------------------------------------------------------------------
(* The edges.  A pin that is high in the first poll has no edge.           *)
EdgeMissed(old, isHi) ==      \* mutant: none after a falling edge
  IF isHi THEN IF old = "pssLo" THEN "pssRising" ELSE "pssHi"
          ELSE IF old \in {"pssHi", "pssRising"} THEN "pssFalling" ELSE "pssLo"
Edge(old, isHi) ==
  IF isHi THEN IF old \in {"pssLo", "pssFalling"} THEN "pssRising" ELSE "pssHi"
          ELSE IF old \in {"pssHi", "pssRising"} THEN "pssFalling" ELSE "pssLo"

(* ProcessButtons runs through the buttons in their order and changes its  *)
(* static variables, here the fields of p; "out" are the events it sends   *)
(* and "done" says that it returned early.                                 *)
Send(p, type, b) == [p EXCEPT !.out = @ \cup {<<type, b>>}]
Elapsed(since, t) == (t - since) % Wrap

\* mutant: IsLongPress[i] is not reset
PressKeepsLong(p, st, b, t) ==
  IF Pressed(st) # {b}
  THEN [p EXCEPT !.IsCombo = TRUE, !.LongComboTimer = t]
  ELSE [Send(p, "beShortPress", b) EXCEPT !.IsCombo = FALSE, !.LongPressTimer = t]

\* mutant: LongPressTimer is not restarted
PressKeepsTimer(p, st, b, t) ==
  LET q == [p EXCEPT !.IsLongPress[b] = FALSE]
  IN IF Pressed(st) # {b}
     THEN [q EXCEPT !.IsCombo = TRUE, !.LongComboTimer = t]
     ELSE [Send(q, "beShortPress", b) EXCEPT !.IsCombo = FALSE]

Press(p, st, b, t) ==
  LET q == [p EXCEPT !.IsLongPress[b] = FALSE]
  IN IF Pressed(st) # {b}
     THEN [q EXCEPT !.IsCombo = TRUE, !.LongComboTimer = t]
     ELSE [Send(q, "beShortPress", b) EXCEPT !.IsCombo = FALSE, !.LongPressTimer = t]

\* mutant: IsCombo stays when the last button is released
ReleaseKeepsCombo(p, st) == IF p.IsCombo THEN [p EXCEPT !.done = TRUE] ELSE p

Release(p, st) ==
  LET held == \E b \in Buttons : st[b] = "pssHi"
  IN IF p.IsCombo
     THEN [p EXCEPT !.IsCombo = held, !.IsLongCombo = held /\ @, !.done = TRUE]
     ELSE p

Hold(p, b, t) ==
  IF ~p.IsLongPress[b] /\ ~p.IsCombo /\ Elapsed(p.LongPressTimer, t) >= LongDelay
  THEN [Send(p, "beLongPress", b) EXCEPT !.IsLongPress[b] = TRUE]
  ELSE IF p.IsCombo /\ ~p.IsLongCombo /\ Elapsed(p.LongComboTimer, t) >= LongDelay
       THEN [Send(p, "beLongCombo", b) EXCEPT !.IsLongCombo = TRUE]
       ELSE p

ProcessButtons(p0, st, t) ==
  FoldLeft(LAMBDA p, b : CASE p.done \/ st[b] = "pssLo" -> p
                           [] ~p.done /\ st[b] = "pssRising"  -> Press(p, st, b, t)
                           [] ~p.done /\ st[b] = "pssFalling" -> Release(p, st)
                           [] ~p.done /\ st[b] = "pssHi"      -> Hold(p, b, t),
           p0, [b \in Buttons |-> b])

-----------------------------------------------------------------------------
Tick(t, gap) == (t + gap) % Wrap

(* What happened in the present hold of each button: its length, whether   *)
(* no other button was down meanwhile, and the events sent for it.         *)
Remember(st, gap, out) ==
  /\ age'  = [b \in Buttons |->
                IF Down(st, b) /\ Down(States, b)
                THEN IF age[b] + gap < LongDelay THEN age[b] + gap ELSE LongDelay
                ELSE 0]
  /\ solo' = [b \in Buttons |->
                /\ Pressed(st) = {b}
                /\ Down(States, b) => solo[b]]
  /\ told' = [b \in Buttons |->
                IF ~Down(st, b) THEN {}
                ELSE (IF Down(States, b) THEN told[b] ELSE {})
                       \cup {type \in {"beShortPress", "beLongPress"} : <<type, b>> \in out}]

(* One turn of SensorsThread.                                              *)
Poll(isHi, gap) ==
  LET st == [b \in Buttons |-> Edge(States[b], b \in isHi)]
      t  == Tick(now, gap)
      p  == ProcessButtons([IsLongPress |-> IsLongPress, LongPressTimer |-> LongPressTimer,
                            IsCombo |-> IsCombo, LongComboTimer |-> LongComboTimer,
                            IsLongCombo |-> IsLongCombo, out |-> {}, done |-> FALSE],
                           st, t)
  IN /\ now' = t
     /\ States' = st
     /\ IsLongPress' = p.IsLongPress /\ LongPressTimer' = p.LongPressTimer
     /\ IsCombo' = p.IsCombo /\ LongComboTimer' = p.LongComboTimer
     /\ IsLongCombo' = p.IsLongCombo
     /\ Remember(st, gap, p.out)

(* What the pins may do between two polls.                                 *)
PinsMayBe(isHi) ==
  IF \E b \in Buttons : States[b] = "pssNone"
  THEN ~HeldAtBoot => isHi = {}
  ELSE Cardinality(SymDiff(isHi, Pressed(States))) <= Changes

Next == \E isHi \in SUBSET Buttons, gap \in 1 .. MaxGap : PinsMayBe(isHi) /\ Poll(isHi, gap)
Spec == Init /\ [][Next]_vars

-----------------------------------------------------------------------------
Time == 0 .. Wrap - 1

TypeOK ==
  /\ States \in [Buttons -> {"pssNone", "pssLo", "pssHi", "pssRising", "pssFalling"}]
  /\ IsLongPress \in [Buttons -> BOOLEAN]
  /\ {IsCombo, IsLongCombo} \subseteq BOOLEAN
  /\ {now, LongPressTimer, LongComboTimer} \subseteq Time
  /\ age \in [Buttons -> 0 .. LongDelay]
  /\ solo \in [Buttons -> BOOLEAN]
  /\ told \in [Buttons -> SUBSET {"beShortPress", "beLongPress"}]

(* A button that is down, and was alone since it went down, has been       *)
(* reported: by the poll that found it, however short the release before.  *)
PressReported == \A b \in Buttons : solo[b] => "beShortPress" \in told[b]

(* "In case of a long press, there will be 2 calls: immediately when       *)
(* button was pressed with long_press = false, second later with true"     *)
(* (api/behavior.h).                                                       *)
LongAfterShort ==
  \A b \in Buttons :
    "beLongPress" \in told[b] => "beShortPress" \in told[b] /\ age[b] = LongDelay

(* A button held long enough with no other down is reported as held.       *)
LongReported ==
  \A b \in Buttons : solo[b] /\ age[b] = LongDelay => "beLongPress" \in told[b]

(* With the last button up the combo is over, so the next press counts as  *)
(* a single one and the next combo can become long.                        *)
ComboEnds == Pressed(States) = {} => ~IsCombo /\ ~IsLongCombo
=============================================================================
