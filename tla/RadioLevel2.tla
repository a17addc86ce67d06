---------------------------- MODULE RadioLevel2 ----------------------------
(***************************************************************************)
(* The many-to-many radio (embedded/Radio/radio_lvl2.h): Lockets share a   *)
(* channel by time.  A cycle has a slot per ID; each Locket transmits in   *)
(* its own slot of every cycle and listens in the other slots of cycle 0;  *)
(* who hears a packet takes over the sender's time unless its own source   *)
(* of time has a lower ID.  Slot timers and ends of packets are interrupts *)
(* that queue messages for the level 2 thread of their Locket.             *)
(*                                                                         *)
(* The model goes slot by slot.  Tick is the timer interrupt of all        *)
(* Lockets (the slots of two of them may be shifted against each other by  *)
(* less than a slot, which is left out); the threads then do what was      *)
(* queued, in any order; EndOfSlot delivers what is on the air.  A thread  *)
(* has the highest priority and empties its queue before the next slot.    *)
(* Left out: the transmission power, and what becomes of a packet behind   *)
(* AddReceivedPacket (two queues to the main loop, as in RadioLevel1).     *)
(***************************************************************************)
EXTENDS Naturals, Sequences, FiniteSets

CONSTANTS Lockets,                  \* the IDs of the Lockets in range
          ID_MAX, RCYCLE_CNT, SCYCLES_TO_KEEP_TIMESRC,
          QLen,                     \* places of incoming_message_queue_
          Packets,                  \* what the behaviours give to Transmit
          Beacon, None,             \* a beacon's payload; no payload
          MaxBoots,                 \* bounds: starts, and, together, packets
          MaxEvents                 \* lost or garbled and calls of behaviours

RSLOT_CNT == ID_MAX + 1

ASSUME SlotsAssumption == Lockets \subseteq 0..ID_MAX /\ ID_MAX \in Nat /\ RCYCLE_CNT \in Nat \ {0}
ASSUME BoundsAssumption == {SCYCLES_TO_KEEP_TIMESRC, QLen, MaxBoots, MaxEvents} \subseteq Nat
ASSUME PayloadAssumption == Beacon # None /\ {Beacon, None} \cap Packets = {}

VARIABLES
    dev,      \* every Locket's radio
    on,       \* Lockets that have started
    open,     \* the current slot: timers have fired, packets are on the air
    given,    \* history: packets given to Transmit, and by whom
    heard,    \* history: <<r, p>> when r has received p
    clean,    \* history: packets whose way nothing has disturbed
    boots, faults, calls   \* counters for the bounds

vars == <<dev, on, open, given, heard, clean, boots, faults, calls>>

Payloads == Packets \cup {Beacon, None}
FullRadioPacket == [ID : Lockets, cycle : 0..RCYCLE_CNT - 1, src : Lockets, payload : Payloads]
ASSUME NoneAssumption == None \notin Lockets \cup FullRadioPacket
Message == [type : {"TryToReceive", "TryToTransmit", "TryToSleep", "PacketReceived",
                    "SetBeacon", "ClearBeacon", "TransmitOnce"},
            packet : Payloads]
Device ==
    [slot : 0..ID_MAX, cycle : 0..RCYCLE_CNT - 1,        \* RadioTime_t
     src : Lockets, timeout : 0..SCYCLES_TO_KEEP_TIMESRC,
     state : {"Idle", "Rx", "Tx"},
     once : Packets \cup {None}, repeats : 0..RCYCLE_CNT + 1, beacon : {Beacon, None},
     queue : Seq(Message),
     chip : {"idle", "rx", "tx"}, callback : BOOLEAN,    \* cc1101_t
     air : FullRadioPacket \cup {None}]                  \* what it transmits

TypeOK ==
    /\ \A l \in Lockets : dev[l] \in Device /\ Len(dev[l].queue) <= QLen
    /\ on \subseteq Lockets /\ open \in BOOLEAN
    /\ given \in [Packets -> Lockets \cup {None}]
    /\ heard \subseteq Lockets \X Packets /\ clean \subseteq Packets
    /\ boots \in 0..MaxBoots /\ {faults, calls} \subseteq Nat /\ faults + calls <= MaxEvents

Booted(l) ==
    [slot |-> 0, cycle |-> 0, src |-> l, timeout |-> 0, state |-> "Idle",
     once |-> None, repeats |-> 0, beacon |-> None, queue |-> <<>>,
     chip |-> "idle", callback |-> FALSE, air |-> None]

Init ==
    /\ dev = [l \in Lockets |-> Booted(l)]
    /\ on = {} /\ open = FALSE
    /\ given = [p \in Packets |-> None] /\ heard = {} /\ clean = {}
    /\ boots = 0 /\ faults = 0 /\ calls = 0

----------------------------------------------------------------------------
(* The interrupts' side: what they do to a device d.                       *)

SendNowOrExit(d, type, p) ==
    IF Len(d.queue) < QLen
    THEN [d EXCEPT !.queue = Append(@, [type |-> type, packet |-> p])] ELSE d

ScheduleTransmission(d) == SendNowOrExit(d, "TryToTransmit", None)
ScheduleReception(d) == IF d.state # "Rx" THEN SendNowOrExit(d, "TryToReceive", None) ELSE d
ScheduleSleep(d) == IF d.state # "Idle" THEN SendNowOrExit(d, "TryToSleep", None) ELSE d

NewSupercycle(d, id) ==
    LET s == ScheduleReception([d EXCEPT !.slot = 0, !.cycle = 0])
    IN IF d.timeout >= SCYCLES_TO_KEEP_TIMESRC THEN [s EXCEPT !.src = id]
                                               ELSE [s EXCEPT !.timeout = @ + 1]

\* mutant: the wrap comes a slot late
IncTimeSlotLate(d, id) ==
    IF d.slot + 1 <= RSLOT_CNT THEN [d EXCEPT !.slot = @ + 1] ELSE NewSupercycle(d, id)

IncTimeSlot(d, id) ==
    CASE d.slot + 1 < RSLOT_CNT -> [d EXCEPT !.slot = @ + 1]
      [] d.slot + 1 >= RSLOT_CNT /\ d.cycle + 1 < RCYCLE_CNT -> [d EXCEPT !.slot = 0, !.cycle = @ + 1]
      [] OTHER -> NewSupercycle(d, id)

IOnTimerI(d, id) ==
    LET t == IncTimeSlot(d, id)
    IN CASE t.slot = id -> ScheduleTransmission(t)
         [] t.slot # id /\ t.cycle = 0 -> ScheduleReception(t)
         [] OTHER -> ScheduleSleep(t)

\* mutants: the next slot instead of the sender's; the cycle forgotten
AdjustINext(d, m) ==
    IF m.src <= d.src
    THEN [d EXCEPT !.cycle = m.cycle, !.slot = (m.ID + 1) % RSLOT_CNT, !.src = m.src, !.timeout = 0] ELSE d
AdjustISlotOnly(d, m) ==
    IF m.src <= d.src
    THEN [d EXCEPT !.slot = m.ID, !.src = m.src, !.timeout = 0] ELSE d

AdjustI(d, m) ==
    IF m.src <= d.src
    THEN [d EXCEPT !.cycle = m.cycle, !.slot = m.ID, !.src = m.src, !.timeout = 0] ELSE d

\* The end-of-packet interrupt of a listener: the callback, if one is set,
\* reads the packet; a bad checksum leaves all but the callback alone.
RxIrq(d, m, good) ==
    LET adjusted == IF good THEN AdjustI(d, m) ELSE d
        noticed == IF good /\ m.payload # None
                   THEN SendNowOrExit(adjusted, "PacketReceived", None) ELSE adjusted
    IN [noticed EXCEPT !.callback = FALSE, !.chip = "idle"]

\* The transmitter's: without a callback the thread is resumed.
TxIrq(d) == [d EXCEPT !.chip = "idle", !.callback = FALSE,
                      !.air = IF d.callback THEN @ ELSE None]

----------------------------------------------------------------------------
(* The thread's side: ProcessEvent for each type of message.               *)

AirPacket(d, l) ==
    [ID |-> l, cycle |-> d.cycle, src |-> d.src,
     payload |-> IF d.once # None THEN d.once ELSE d.beacon]

\* mutant: the receiver's callback stays set while the thread waits
TransmitOneOfKeeps(d, l) ==
    [d EXCEPT !.state = "Tx", !.chip = "tx", !.air = AirPacket(d, l)]

TransmitOneOf(d, l) ==
    LET last == d.once # None /\ d.repeats = 1
    IN [d EXCEPT !.state = "Tx", !.chip = "tx", !.callback = FALSE,
                 !.repeats = IF d.once # None THEN @ - 1 ELSE @,
                 !.once = IF last THEN None ELSE @,
                 !.air = AirPacket(d, l)]

\* mutant: a cycle too few
AcceptOnceShort(d, p) == [d EXCEPT !.once = p, !.repeats = RCYCLE_CNT - 1]
AcceptOnce(d, p) == [d EXCEPT !.once = p, !.repeats = RCYCLE_CNT + 1]

Handled(d, l, m) ==
    CASE m.type = "TryToTransmit"  -> TransmitOneOf(d, l)
      [] m.type = "TryToReceive"   -> [d EXCEPT !.state = "Rx", !.chip = "rx", !.callback = TRUE]
      [] m.type = "TryToSleep"     -> [d EXCEPT !.state = "Idle", !.chip = "idle"]
      [] m.type = "PacketReceived" -> [d EXCEPT !.state = "Idle"]
      [] m.type = "SetBeacon"      -> [d EXCEPT !.beacon = m.packet]
      [] m.type = "ClearBeacon"    -> [d EXCEPT !.beacon = None]
      [] m.type = "TransmitOnce"   -> AcceptOnce(d, m.packet)

InStep(l, m) == dev[l].slot = dev[m].slot /\ dev[l].cycle = dev[m].cycle
AllInStep == on = Lockets /\ \A l, m \in on : InStep(l, m)

\* Fetch takes the first message.
Fetched(d) == [d EXCEPT !.queue = Tail(@)]

ProcessEvent(l) ==
    /\ l \in on /\ dev[l].queue # <<>> /\ dev[l].air = None
    /\ LET m == Head(dev[l].queue)
       IN /\ dev' = [dev EXCEPT ![l] = Handled(Fetched(@), l, m)]
          /\ clean' = CASE m.type = "TransmitOnce" ->
                              {p \in clean : given[p] # l} \cup
                              {p \in {m.packet} : AllInStep /\ \A k \in on : k < l => dev[k].beacon # None}
                        [] m.type = "ClearBeacon" -> {}
                        [] OTHER -> clean
    /\ UNCHANGED <<on, open, given, heard, boots, faults, calls>>

----------------------------------------------------------------------------
(* Time and air.                                                           *)

Drained == \A l \in on : dev[l].queue = <<>>

Tick ==
    /\ ~open /\ Drained
    /\ open' = TRUE
    /\ dev' = [l \in Lockets |-> IF l \in on THEN IOnTimerI(dev[l], l) ELSE dev[l]]
    /\ UNCHANGED <<on, given, heard, clean, boots, faults, calls>>

Senders == {l \in on : dev[l].air # None}
Listeners == {l \in on : dev[l].chip = "rx"}
Ready == \A l \in on : dev[l].queue = <<>> \/ dev[l].air # None

\* A lone packet is heard unless the air fails; of several at once nothing
\* good arrives.
Outcomes ==
    {o \in [Listeners -> {"heard", "nothing", "bad"}] :
        \A r \in Listeners : /\ o[r] = "heard" => Cardinality(Senders) = 1
                             /\ o[r] = "bad" => Senders # {}}
Faults(o) == IF Cardinality(Senders) # 1 THEN 0
             ELSE Cardinality({r \in Listeners : o[r] # "heard"})

EndOfSlot ==
    /\ open /\ Ready
    /\ open' = FALSE
    /\ \E o \in Outcomes :
         LET packet == dev[CHOOSE l \in Senders : TRUE].air
             hearers == {r \in Listeners : o[r] = "heard"}
         IN /\ faults + Faults(o) + calls <= MaxEvents
            /\ faults' = faults + Faults(o)
            /\ dev' = [l \in Lockets |->
                         CASE l \in Senders -> TxIrq(dev[l])
                           [] l \in Listeners /\ o[l] # "nothing" ->
                                RxIrq(dev[l], packet, o[l] = "heard")
                           [] OTHER -> dev[l]]
            /\ heard' = heard \cup {<<r, packet.payload>> : r \in
                                      {h \in hearers : packet.payload \in Packets}}
            /\ clean' = IF Faults(o) = 0 THEN clean ELSE {}
    /\ UNCHANGED <<on, given, boots, calls>>

----------------------------------------------------------------------------
(* The main loop's calls, and power.                                       *)

\* Init of a Locket that is switched on or restarted; if CC.Init fails it goes
\* without timer and thread, which nobody looks at (behavior_runner.h:106).
Boot(l) ==
    /\ ~open /\ boots < MaxBoots
    /\ boots' = boots + 1
    /\ dev' = [dev EXCEPT ![l] = Booted(l)]
    /\ on' \in {on \cup {l}, on \ {l}} /\ clean' = {}
    /\ UNCHANGED <<open, given, heard, faults, calls>>

Send(l, type, p) ==
    /\ l \in on /\ calls + faults < MaxEvents
    /\ calls' = calls + 1
    /\ dev' = [dev EXCEPT ![l] = SendNowOrExit(@, type, p)]
    /\ UNCHANGED <<on, open, heard, clean, boots, faults>>

TransmitOnce(l, p) ==
    /\ given[p] = None
    /\ given' = [given EXCEPT ![p] = l]
    /\ Send(l, "TransmitOnce", p)

SetBeaconPacketTo(l) == dev[l].beacon = None /\ Send(l, "SetBeacon", Beacon) /\ UNCHANGED given
ClearBeaconPacket(l) == dev[l].beacon # None /\ Send(l, "ClearBeacon", None) /\ UNCHANGED given

MainCall(l) ==
    \/ \E p \in Packets : TransmitOnce(l, p)
    \/ SetBeaconPacketTo(l)
    \/ ClearBeaconPacket(l)

Radio == Tick \/ EndOfSlot \/ \E l \in Lockets : ProcessEvent(l)
Next == Radio \/ \E l \in Lockets : Boot(l) \/ MainCall(l)
Spec == Init /\ [][Next]_vars
FairSpec == Spec /\ WF_vars(Tick) /\ WF_vars(EndOfSlot)
                 /\ \A l \in Lockets : WF_vars(ProcessEvent(l))

----------------------------------------------------------------------------
(* Properties.                                                             *)

\* While the chip transmits no receiver's callback is set: the interrupt at the
\* end of the packet resumes the thread that waits in Transmit, and does not
\* read the FIFO in its place (cc1101.cpp, IIrqHandler).
TxEndWakesThread == \A l \in on : dev[l].chip = "tx" => ~dev[l].callback

\* Once all Lockets count the same slot and cycle, nothing but a restart parts
\* them: taking over the time of who was heard changes nothing (AdjustI
\* against IOnTimerI).
StaysInStep == [][AllInStep /\ boots' = boots => AllInStep']_vars

Finished(p) == dev[given[p]].once # p /\ dev[given[p]].air = None

\* A packet given to TransmitOnce while all Lockets are in step has been
\* received by every other Locket when its repeats are over, if nothing was
\* lost, nobody restarted, no later packet replaced it and the Lockets with
\* earlier slots have a beacon.  The repeats reach one cycle 0 in which no
\* receiver is asleep or left behind by an empty packet.
HeardByAll == \A p \in clean : Finished(p) => \A r \in Lockets \ {given[p]} : <<r, p>> \in heard

\* Comment in IOnTimerI, "CycleN == 0: Enter RX if not yet": in cycle 0 the
\* chip listens in every slot but the own one.
ListensInCycleZero ==
    open /\ Ready => \A l \in on : dev[l].cycle = 0 /\ dev[l].slot # l => dev[l].chip = "rx"

\* Two Lockets transmit at the same time in every cycle.
Offset(l) == dev[l].slot + RSLOT_CNT - l
Collide(l, m) == l # m /\ Offset(l) % RSLOT_CNT = Offset(m) % RSLOT_CNT
Alone(l) == \A m \in on : ~Collide(l, m)

\* After the last restart and the last loss, the Lockets that have a slot to
\* themselves count the same slots and cycles for ever.
Converges == <>[](\A l, m \in on : Alone(l) /\ Alone(m) => InStep(l, m))
=============================================================================
