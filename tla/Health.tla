---- MODULE Health ----
(***************************************************************************)
(* The player's health of projects/Mariy_El_sm: the state machine of       *)
(* health.cpp over Statechart, its variables of sm_data.cpp, and the words *)
(* of the EEPROM it comes back with after a restart.  A handler's effects  *)
(* happen one by one and the device can restart before any of them.        *)
(* Times, health and damage are numbers of any scale; what the behaviour   *)
(* only tells (vibro, logs) is left out; the LED's colour is not.          *)
(***************************************************************************)
EXTENDS Naturals, Sequences

CONSTANTS DEFAULT_HP, DEFAULT_DAMAGE,
          GOD_THRESHOLD_S,      \* seconds as god
          GOD_PAUSE_M,          \* minutes before the next time
          HEALTH_SAVE_PAUSE,    \* count is saved when divisible by it
          MaxRestarts           \* bound

ASSUME HealthAssumption ==
  /\ {DEFAULT_HP, DEFAULT_DAMAGE, GOD_THRESHOLD_S, GOD_PAUSE_M, HEALTH_SAVE_PAUSE} \subseteq Nat \ {0}
  /\ MaxRestarts \in Nat

VARIABLES active, phase, handler, goal, \* the machine, see Statechart
          todo,         \* effects the running handler has still to make
          inbox,        \* signals EverySecond has still to dispatch
          me,        \* Health_Variables in RAM: god_pause, count, health
          ee,           \* EepromMap: the same and health_state
          led, beacon,  \* what others see of the player
          restarts,
          may,          \* history: states a restart may come back to
          waited        \* history: minutes since god was left, GOD_PAUSE_M if paid for

machine == <<active, phase, handler, goal>>
vars == <<machine, todo, inbox, me, ee, led, beacon, restarts, may, waited>>

States == {"global", "alive", "god", "mortal", "god_ready", "simple", "dead"}
Parent == [global |-> "top", alive |-> "global", god |-> "alive", mortal |-> "alive",
           god_ready |-> "mortal", simple |-> "mortal", dead |-> "global"]
Ancestors ==
  [top |-> {"top"}, global |-> {"global", "top"}, alive |-> {"alive", "global", "top"},
   god |-> {"god", "alive", "global", "top"}, mortal |-> {"mortal", "alive", "global", "top"},
   god_ready |-> {"god_ready", "mortal", "alive", "global", "top"},
   simple |-> {"simple", "mortal", "alive", "global", "top"}, dead |-> {"dead", "global", "top"}]
SM == INSTANCE Statechart WITH Top <- "top", NoState <- "none"

(* Health_ctor's switch; the erased EEPROM's 0 is SIMPLE *)
Saved == {"simple", "god_ready", "god", "dead"}
StartState == ee.health_state

Fields == {"god_pause", "count", "health"}
----
(* Effects: a RAM variable and its word of the EEPROM, the state's word, the
   LED and the radio's beacon packet. *)
Save(f, v)   == <<"save", f, v>>
SaveState(s) == <<"save", "health_state", s>>
SetColor(c)  == <<"led", c>>
Beacon(b)    == <<"beacon", b>>

(* The LED's colours, as <<red, green, blue>> *)
kBlack == <<0, 0, 0>>
kRed   == <<255, 0, 0>>
kWhite == <<255, 255, 255>>
GetHealthColor(health) == <<255 - (255 * health) \div DEFAULT_HP, (255 * health) \div DEFAULT_HP, 0>>

(* A handler takes the colour of the health when it sets it. *)
ColorOf(c, health) == CASE c = "health" -> GetHealthColor(health)
                        [] c = "white" -> kWhite
                        [] c = "red" -> kRed
                        [] OTHER -> kBlack

(* Flash(kWhite, GetHealthColor()): white for half a second, then the other *)
Flash == SetColor("health")

EntryEffects(s) ==
  CASE s = "alive"     -> <<Beacon(TRUE), SetColor("health")>>
    [] s = "god"       -> <<SetColor("white"), Save("count", 0), SaveState("god")>>
    [] s = "god_ready" -> <<Flash, SaveState("god_ready")>>
    [] s = "simple"    -> <<SaveState("simple")>>
    [] s = "dead"      -> <<SetColor("red"), Save("count", 0), SaveState("dead"), Beacon(FALSE)>>
    [] OTHER           -> <<>>

(* mutant: ReSetGodPause keeps the new pause in RAM, to be saved by the next
   DecrementGodPause *)
ExitEffectsRam(s) == IF s = "god" THEN <<<<"ram", "god_pause", GOD_PAUSE_M>>>> ELSE <<>>

ExitEffects(s) == IF s = "god" THEN <<Save("god_pause", GOD_PAUSE_M)>> ELSE <<>>

(* One effect of the running handler *)
Effect ==
  /\ todo # <<>> /\ todo' = Tail(todo)
  /\ LET e == Head(todo)
     IN CASE e[1] = "save" -> /\ ee' = [ee EXCEPT ![e[2]] = e[3]]
                              /\ me' = IF e[2] \in Fields THEN [me EXCEPT ![e[2]] = e[3]] ELSE me
                              /\ UNCHANGED <<led, beacon>>
          [] e[1] = "ram" -> me' = [me EXCEPT ![e[2]] = e[3]] /\ UNCHANGED <<ee, led, beacon>>
          [] e[1] = "led" -> led' = ColorOf(e[2], me.health) /\ UNCHANGED <<ee, me, beacon>>
          [] e[1] = "beacon" -> beacon' = e[2] /\ UNCHANGED <<ee, me, led>>
  /\ UNCHANGED <<machine, inbox, restarts, may, waited>>

(* The transition goes on when the last handler called has returned. *)
Leave == /\ todo = <<>> /\ SM!Leave /\ todo' = ExitEffects(active)
         /\ waited' = IF active = "god" THEN 0 ELSE waited
         /\ UNCHANGED <<inbox, me, ee, led, beacon, restarts, may>>

Turn == /\ todo = <<>> /\ SM!LeftAll
        /\ UNCHANGED <<todo, inbox, me, ee, led, beacon, restarts, may, waited>>

Enter == /\ todo = <<>> /\ SM!Enter /\ todo' = EntryEffects(active')
         /\ UNCHANGED <<inbox, me, ee, led, beacon, restarts, may, waited>>

Arrive == /\ todo = <<>> /\ SM!Arrive /\ may' = {active}
          /\ UNCHANGED <<todo, inbox, me, ee, led, beacon, restarts, waited>>
----
(* What a state's handler does with a signal: effects, and stay or Q_TRAN. *)
Stay(effects) == todo' = effects /\ UNCHANGED <<machine, may>>
Tran(h, to, effects) ==
  /\ phase' = "leave" /\ handler' = h /\ goal' = to /\ UNCHANGED active
  /\ todo' = effects /\ may' = may \cup {to}

In(s) == s \in Ancestors[active]

(* mutant: the count starts again whenever it is saved *)
TickGodWraps == IF me.count >= GOD_THRESHOLD_S THEN Tran("god", "god_ready", <<>>)
                ELSE Stay(<<Save("count", (me.count + 1) % HEALTH_SAVE_PAUSE)>>)

(* TIME_TICK_1S_SIG in Health_god, with IncrementCount *)
TickGod == IF me.count >= GOD_THRESHOLD_S THEN Tran("god", "god_ready", <<>>)
           ELSE LET count == me.count + 1
                IN Stay(<<IF count % HEALTH_SAVE_PAUSE = 0 THEN Save("count", count)
                                                            ELSE <<"ram", "count", count>> >>)

(* TIME_TICK_1M_SIG in Health_god_ready *)
TickMinute == IF me.god_pause > 0 THEN Stay(<<Save("god_pause", me.god_pause - 1)>>)
              ELSE Stay(<<>>)

(* RAD_RECEIVED_SIG in Health_mortal, with DecreaseHealth *)
Radiation == IF me.health <= DEFAULT_DAMAGE THEN Tran("mortal", "dead", <<>>)
             ELSE Stay(<<Save("health", me.health - DEFAULT_DAMAGE), SetColor("health")>>)

(* mutant: SetColor is called before ResetHealth *)
PillHealShowsFirst == LET heal == <<SetColor("health"), Save("health", DEFAULT_HP)>>
                      IN \/ In("alive") /\ Stay(heal)
                         \/ In("dead") /\ Tran("dead", "simple", heal)

(* PILL_HEAL_SIG in Health_alive and Health_dead *)
PillHeal == LET heal == <<Save("health", DEFAULT_HP), SetColor("health")>>
            IN \/ In("alive") /\ Stay(heal)
               \/ In("dead") /\ Tran("dead", "simple", heal)

PillReset == \E h \in {"alive", "dead"} :
               In(h) /\ Tran(h, "simple", <<Save("health", DEFAULT_HP), SetColor("health")>>)

PillGod == Tran("simple", "god_ready", <<Save("god_pause", 0)>>)

GodButton == IF me.god_pause = 0 THEN Tran("god_ready", "god", <<>>)
             ELSE Stay(<<Flash>>)

(* QMsm_dispatch of one signal: the innermost state that handles it, or none *)
Dispatch(sig) ==
  /\ waited' = CASE sig = "PILL_GOD" /\ active = "simple" -> GOD_PAUSE_M
                 [] sig = "TIME_TICK_1M" /\ active = "god_ready" /\ waited < GOD_PAUSE_M -> waited + 1
                 [] OTHER -> waited
  /\ CASE sig = "TIME_TICK_1S" /\ In("god")              -> TickGod
       [] sig = "TIME_TICK_1M" /\ In("god_ready")        -> TickMinute
       [] sig = "RAD_RECEIVED" /\ In("mortal")           -> Radiation
       [] sig = "PILL_HEAL" /\ (In("alive") \/ In("dead"))  -> PillHeal
       [] sig = "PILL_RESET" /\ (In("alive") \/ In("dead")) -> PillReset
       [] sig = "PILL_GOD" /\ In("simple")               -> PillGod
       [] sig = "GOD_BUTTON_LONGPRESS" /\ In("god_ready")   -> GodButton
       [] sig = "DEAD_BUTTON_LONGPRESS" /\ In("mortal")     -> Tran("mortal", "dead", <<>>)
       [] OTHER -> Stay(<<>>)
  /\ UNCHANGED <<me, ee, led, beacon, restarts>>

AtRest == phase = "rest" /\ todo = <<>> /\ active # "top"

(* OnButtonPressed and OnPillConnected; an id that is no pill's is ignored *)
Input == /\ AtRest /\ inbox = <<>> /\ UNCHANGED inbox
         /\ \E sig \in {"GOD_BUTTON_LONGPRESS", "DEAD_BUTTON_LONGPRESS", "PILL_HEAL",
                        "PILL_RESET", "PILL_GOD"} : Dispatch(sig)

(* EverySecond dispatches the second, every sixtieth time the minute, and the
   radiation if enough of it was received. *)
EverySecond == /\ AtRest /\ inbox = <<>>
               /\ \E m \in {<<>>, <<"TIME_TICK_1M">>}, r \in {<<>>, <<"RAD_RECEIVED">>} : inbox' = m \o r
               /\ Dispatch("TIME_TICK_1S")

NextSignal == /\ AtRest /\ inbox # <<>>
              /\ inbox' = Tail(inbox) /\ Dispatch(Head(inbox))
----
(* What a restart finds: RAM lost, the LED off, no beacon packet, and the
   machine before QMsm_init. *)
Fresh == /\ active' = "top" /\ phase' = "rest" /\ handler' = "none" /\ goal' = "none"
         /\ todo' = <<>> /\ inbox' = <<>> /\ led' = kBlack /\ beacon' = FALSE

Restart == /\ restarts < MaxRestarts /\ restarts' = restarts + 1
           /\ Fresh /\ UNCHANGED <<me, ee, may, waited>>

(* mutant: the diagram's constructor, in which DEAD starts as god *)
OnStartedAsGod == /\ active = "top" /\ phase = "rest"
                  /\ me' = [f \in Fields |-> ee[f]]
                  /\ phase' = "leave" /\ handler' = "top"
                  /\ goal' = IF StartState = "dead" THEN "god" ELSE StartState
                  /\ may' = may
                  /\ UNCHANGED <<active, todo, inbox, ee, led, beacon, restarts, waited>>

(* OnStarted: Health_ctor loads the variables, QMsm_init enters the state. *)
OnStarted == /\ active = "top" /\ phase = "rest"
             /\ me' = [f \in Fields |-> ee[f]]
             /\ phase' = "leave" /\ handler' = "top" /\ goal' = StartState
             /\ UNCHANGED <<active, todo, inbox, ee, led, beacon, restarts, may, waited>>

Init == /\ active = "top" /\ phase = "rest" /\ handler = "none" /\ goal = "none"
        /\ todo = <<>> /\ inbox = <<>> /\ led = kBlack /\ beacon = FALSE /\ restarts = 0
        /\ me = [f \in Fields |-> 0]
        /\ ee = [god_pause |-> 0, count |-> 0, health |-> 0, health_state |-> "simple"]
        /\ may = {"simple"} /\ waited = GOD_PAUSE_M

Handling == Effect \/ Leave \/ Turn \/ Enter \/ Arrive \/ NextSignal \/ OnStarted
Next == Handling \/ Input \/ EverySecond \/ Restart

(* Handlers run to their end, and the one-second event keeps its place in
   EvtQMain's order whatever other events arrive. *)
Spec == Init /\ [][Next]_vars /\ WF_vars(Handling) /\ SF_vars(EverySecond)

----
(* Whatever moment a restart strikes, the device comes back in the state it
   was in before the event it was handling or in the one that event led to,
   and with the health and the pause that the player had, when nothing was
   being handled, before it. *)
RestartResumes == /\ StartState \in may
                  /\ AtRest => ee.health = me.health /\ ee.god_pause = me.god_pause

(* Between two events, across restarts and whatever pills were used, the
   living, and only they, send the beacon that opens paths; the dead are red;
   the living have the colour of the health they have now, or, as gods, white.
   (A god who uses a heal pill takes the colour of his health.  That colour is
   the red of the dead where 255 * health < DEFAULT_HP: an erased EEPROM's 0.) *)
SeenAsItIs == AtRest => /\ beacon <=> active # "dead"
                        /\ active = "dead" => led = kRed
                        /\ active # "dead" => \/ led = GetHealthColor(me.health)
                                              \/ active = "god" /\ led = kWhite

(* The button makes a player a god only when GOD_PAUSE_M minutes have been
   waited since the last time ended, or a god pill was used, even if the
   device restarted on the way. *)
NoEarlyGod == [][goal' = "god" /\ handler' = "god_ready" => waited >= GOD_PAUSE_M]_vars

(* Nobody stays a god for ever. *)
GodEnds == active = "god" ~> active # "god"
====
