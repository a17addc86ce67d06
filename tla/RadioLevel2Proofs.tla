------------------------- MODULE RadioLevel2Proofs -------------------------
(***************************************************************************)
(* Proofs about RadioLevel2 for any IDs, any number of slots and cycles,   *)
(* any length of the queues and any bounds.  The invariant follows the one *)
(* transmission a Locket makes in its slot: from the timer interrupt that  *)
(* queues it, over the thread that starts it, to the end of the packet.    *)
(***************************************************************************)
EXTENDS RadioLevel2, FiniteSetTheorems, TLAPS

LEMMA TailElements ==
  ASSUME NEW S, NEW s \in Seq(S), s # <<>>
  PROVE  /\ Tail(s) \in Seq(S) /\ Len(Tail(s)) = Len(s) - 1 /\ Len(s) \in Nat /\ Len(s) > 0
         /\ \A n \in 1..(Len(s) - 1) : Tail(s)[n] = s[n + 1]
         /\ Head(s) = s[1] /\ s[1] \in S
OBVIOUS

LEMMA AppendElements ==
  ASSUME NEW S, NEW s \in Seq(S), NEW e \in S
  PROVE  /\ Append(s, e) \in Seq(S) /\ Len(Append(s, e)) = Len(s) + 1 /\ Len(s) \in Nat
         /\ \A n \in 1..Len(s) : Append(s, e)[n] = s[n]
         /\ Append(s, e)[Len(s) + 1] = e
OBVIOUS

-----------------------------------------------------------------------------
(* The invariant of one Locket's radio.                                    *)

\* Calls carry what their message is for.
MessageOK(m) == /\ m \in Message
                /\ m.type = "TransmitOnce" => m.packet \in Packets
                /\ m.type = "SetBeacon" => m.packet = Beacon
QueueOK(q) == /\ q \in Seq(Message) /\ Len(q) <= QLen
              /\ \A n \in 1..Len(q) : MessageOK(q[n])

\* A transmission has repeats left; while the thread waits in Transmit the
\* packet on the air is of this slot, and nothing else answers its interrupt.
AirOK(d, l) == /\ d.once # None => d.repeats >= 1
               /\ d.chip = "tx" => ~d.callback
               /\ d.air # None => /\ d.chip = "tx" /\ d.slot = l
                                  /\ d.air.ID = l /\ d.air.cycle = d.cycle

\* TryToTransmit waits only in the own slot, once, before it is carried out.
NoTransmit(q) == \A n \in 1..Len(q) : q[n].type # "TryToTransmit"
OneTransmit(q) == \A n, p \in 1..Len(q) :
                    q[n].type = "TryToTransmit" /\ q[p].type = "TryToTransmit" => n = p
DueOK(d, l) == /\ OneTransmit(d.queue)
               /\ NoTransmit(d.queue) \/ (d.slot = l /\ d.air = None)

DeviceOK(d, l) == d \in Device /\ QueueOK(d.queue) /\ AirOK(d, l) /\ DueOK(d, l)

\* Nothing of a slot is left when it is over.
SlotOver(d) == d.air = None /\ NoTransmit(d.queue)

IInv ==
  /\ dev \in [Lockets -> Device] /\ \A l \in Lockets : DeviceOK(dev[l], l)
  /\ ~open => \A l \in Lockets : SlotOver(dev[l])
  /\ \A l \in Lockets : l \notin on => dev[l].queue = <<>> /\ dev[l].air = None
  /\ on \subseteq Lockets /\ open \in BOOLEAN
  /\ given \in [Packets -> Lockets \cup {None}]
  /\ heard \subseteq Lockets \X Packets /\ clean \subseteq Packets
  /\ boots \in 0..MaxBoots /\ faults \in Nat /\ calls \in Nat /\ faults + calls <= MaxEvents

-----------------------------------------------------------------------------
(* Records and queues.                                                     *)

LEMMA Fields ==
  ASSUME NEW d \in Device
  PROVE  /\ d.slot \in 0..ID_MAX /\ d.cycle \in 0..RCYCLE_CNT - 1 /\ d.src \in Lockets
         /\ d.timeout \in 0..SCYCLES_TO_KEEP_TIMESRC /\ d.state \in {"Idle", "Rx", "Tx"}
         /\ d.once \in Packets \cup {None} /\ d.repeats \in 0..RCYCLE_CNT + 1
         /\ d.beacon \in {Beacon, None} /\ d.queue \in Seq(Message)
         /\ d.chip \in {"idle", "rx", "tx"} /\ d.callback \in BOOLEAN
         /\ d.air \in FullRadioPacket \cup {None}
BY DEF Device

\* A queue takes a message, or stays as it is.
LEMMA SendQueue ==
  ASSUME NEW d \in Device, QueueOK(d.queue), NEW type, NEW p, MessageOK([type |-> type, packet |-> p])
  PROVE  \E q : /\ SendNowOrExit(d, type, p) = [d EXCEPT !.queue = q]
                /\ QueueOK(q)
                /\ type # "TryToTransmit" /\ NoTransmit(d.queue) => NoTransmit(q)
                /\ type # "TryToTransmit" /\ OneTransmit(d.queue) => OneTransmit(q)
                /\ NoTransmit(d.queue) => OneTransmit(q)
<1>. DEFINE m == [type |-> type, packet |-> p]
<1>1. d.queue \in Seq(Message) /\ m \in Message /\ Len(d.queue) \in Nat /\ QLen \in Nat /\ MessageOK(m)
  BY Fields, BoundsAssumption DEF MessageOK
<1>2. CASE Len(d.queue) < QLen
  <2>. DEFINE q == Append(d.queue, m)
  <2>1. SendNowOrExit(d, type, p) = [d EXCEPT !.queue = q]
    BY <1>2 DEF SendNowOrExit
  <2>2. /\ q \in Seq(Message) /\ Len(q) = Len(d.queue) + 1
        /\ \A n \in 1..Len(d.queue) : q[n] = d.queue[n]
        /\ q[Len(d.queue) + 1] = m /\ m.type = type
        /\ \A n \in 1..Len(q) : n \in 1..Len(d.queue) \/ n = Len(d.queue) + 1
    BY <1>1, AppendElements
  <2>. HIDE DEF m, q
  <2>3. QueueOK(q)
    BY <1>1, <1>2, <2>2 DEF QueueOK
  <2>4. type # "TryToTransmit" /\ NoTransmit(d.queue) => NoTransmit(q)
    BY <2>2 DEF NoTransmit
  <2>5. type # "TryToTransmit" /\ OneTransmit(d.queue) => OneTransmit(q)
    BY <2>2 DEF OneTransmit
  <2>6. NoTransmit(d.queue) => OneTransmit(q)
    BY <2>2 DEF NoTransmit, OneTransmit
  <2>. QED  BY <2>1, <2>3, <2>4, <2>5, <2>6
<1>3. CASE ~(Len(d.queue) < QLen)
  <2>1. SendNowOrExit(d, type, p) = [d EXCEPT !.queue = d.queue]
    <3>1. d = [d EXCEPT !.queue = d.queue]
      BY DEF Device
    <3>. QED  BY <3>1, <1>3 DEF SendNowOrExit
  <2>2. NoTransmit(d.queue) => OneTransmit(d.queue)
    BY DEF NoTransmit, OneTransmit
  <2>. QED  BY <2>1, <2>2
<1>. QED  BY <1>2, <1>3

\* A changed queue keeps the rest of the device.
LEMMA WithQueue ==
  ASSUME NEW d \in Device, NEW q \in Seq(Message)
  PROVE  LET e == [d EXCEPT !.queue = q]
         IN  /\ e \in Device /\ e.queue = q
             /\ e.slot = d.slot /\ e.cycle = d.cycle /\ e.src = d.src /\ e.timeout = d.timeout
             /\ e.state = d.state /\ e.once = d.once /\ e.repeats = d.repeats /\ e.beacon = d.beacon
             /\ e.chip = d.chip /\ e.callback = d.callback /\ e.air = d.air
BY DEF Device

-----------------------------------------------------------------------------
(* The timer interrupt.                                                    *)

\* A device at the start of its slot: nothing on the air, nothing to send yet.
Quiet(d) == /\ d \in Device /\ QueueOK(d.queue) /\ NoTransmit(d.queue) /\ d.air = None
            /\ d.once # None => d.repeats >= 1
            /\ d.chip = "tx" => ~d.callback

SameTime(e, d) == e.slot = d.slot /\ e.cycle = d.cycle

LEMMA Messages ==
  /\ MessageOK([type |-> "TryToReceive", packet |-> None])
  /\ MessageOK([type |-> "TryToTransmit", packet |-> None])
  /\ MessageOK([type |-> "TryToSleep", packet |-> None])
  /\ MessageOK([type |-> "PacketReceived", packet |-> None])
BY DEF MessageOK, Message, Payloads

LEMMA QuietSend ==
  ASSUME NEW d, Quiet(d), NEW type \in {"TryToReceive", "TryToSleep", "PacketReceived"}
  PROVE  Quiet(SendNowOrExit(d, type, None)) /\ SameTime(SendNowOrExit(d, type, None), d)
<1>1. d \in Device /\ QueueOK(d.queue) /\ NoTransmit(d.queue)
  BY DEF Quiet
<1>2. MessageOK([type |-> type, packet |-> None])
  BY Messages
<1>3. PICK q : /\ SendNowOrExit(d, type, None) = [d EXCEPT !.queue = q]
               /\ QueueOK(q) /\ NoTransmit(q)
  BY <1>1, <1>2, SendQueue
<1>4. q \in Seq(Message)
  BY <1>3 DEF QueueOK
<1>. QED  BY <1>1, <1>3, <1>4, WithQueue DEF Quiet, SameTime

LEMMA QuietSchedules ==
  ASSUME NEW d, Quiet(d)
  PROVE  /\ Quiet(ScheduleReception(d)) /\ SameTime(ScheduleReception(d), d)
         /\ Quiet(ScheduleSleep(d)) /\ SameTime(ScheduleSleep(d), d)
BY QuietSend DEF ScheduleReception, ScheduleSleep, SameTime

\* The slot and the cycle after those of d.
NextSlot(d)  == IF d.slot + 1 < RSLOT_CNT THEN d.slot + 1 ELSE 0
NextCycle(d) == IF d.slot + 1 < RSLOT_CNT THEN d.cycle
                ELSE IF d.cycle + 1 < RCYCLE_CNT THEN d.cycle + 1 ELSE 0

Slots == 0..ID_MAX
Cycles == 0..RCYCLE_CNT - 1
Timeouts == 0..SCYCLES_TO_KEEP_TIMESRC

SetTime(d, s, c) == [d EXCEPT !.slot = s, !.cycle = c]

LEMMA QuietTime ==
  ASSUME NEW d, Quiet(d), NEW s \in Slots, NEW c \in Cycles
  PROVE  LET e == SetTime(d, s, c)
         IN  Quiet(e) /\ e.slot = s /\ e.cycle = c /\ e.timeout = d.timeout
BY DEF Quiet, Device, Slots, Cycles, SetTime

LEMMA QuietSource ==
  ASSUME NEW d, Quiet(d), NEW id \in Lockets, NEW t \in Timeouts
  PROVE  /\ Quiet([d EXCEPT !.src = id]) /\ SameTime([d EXCEPT !.src = id], d)
         /\ Quiet([d EXCEPT !.timeout = t]) /\ SameTime([d EXCEPT !.timeout = t], d)
BY DEF Quiet, Device, SameTime, Timeouts

LEMMA TimeGoesOn ==
  ASSUME NEW d, Quiet(d), NEW l \in Lockets
  PROVE  LET t == IncTimeSlot(d, l)
         IN  Quiet(t) /\ t.slot = NextSlot(d) /\ t.cycle = NextCycle(d)
<1>1. /\ d \in Device /\ d.slot \in 0..ID_MAX /\ d.cycle \in 0..RCYCLE_CNT - 1
      /\ ID_MAX \in Nat /\ RCYCLE_CNT \in Nat \ {0} /\ SCYCLES_TO_KEEP_TIMESRC \in Nat
  BY Fields, SlotsAssumption, BoundsAssumption DEF Quiet
<1>2. CASE d.slot + 1 < RSLOT_CNT
  <2>1. IncTimeSlot(d, l) = SetTime(d, d.slot + 1, d.cycle)
    <3>1. IncTimeSlot(d, l) = [d EXCEPT !.slot = d.slot + 1]
      BY <1>1, <1>2 DEF IncTimeSlot, RSLOT_CNT
    <3>2. \A x : [d EXCEPT !.slot = x] = [d EXCEPT !.slot = x, !.cycle = d.cycle]
      BY <1>1 DEF Device
    <3>. QED  BY <3>1, <3>2 DEF SetTime
  <2>2. d.slot + 1 \in Slots /\ d.cycle \in Cycles
    BY <1>1, <1>2 DEF RSLOT_CNT, Slots, Cycles
  <2>3. /\ Quiet(IncTimeSlot(d, l)) /\ IncTimeSlot(d, l).slot = d.slot + 1
        /\ IncTimeSlot(d, l).cycle = d.cycle
    BY <2>1, <2>2, QuietTime
  <2>. QED  BY <1>2, <2>3 DEF NextSlot, NextCycle
<1>3. CASE ~(d.slot + 1 < RSLOT_CNT) /\ d.cycle + 1 < RCYCLE_CNT
  <2>1. IncTimeSlot(d, l) = SetTime(d, 0, d.cycle + 1)
    BY <1>1, <1>3 DEF IncTimeSlot, RSLOT_CNT, SetTime
  <2>2. 0 \in Slots /\ d.cycle + 1 \in Cycles
    BY <1>1, <1>3 DEF Slots, Cycles
  <2>3. /\ Quiet(IncTimeSlot(d, l)) /\ IncTimeSlot(d, l).slot = 0
        /\ IncTimeSlot(d, l).cycle = d.cycle + 1
    BY <2>1, <2>2, QuietTime
  <2>. QED  BY <1>3, <2>3 DEF NextSlot, NextCycle
<1>4. CASE ~(d.slot + 1 < RSLOT_CNT) /\ ~(d.cycle + 1 < RCYCLE_CNT)
  <2>. DEFINE z == SetTime(d, 0, 0)
              s == ScheduleReception(z)
  <2>1. IncTimeSlot(d, l) = NewSupercycle(d, l)
    BY <1>1, <1>4 DEF IncTimeSlot, RSLOT_CNT
  <2>2. 0 \in Slots /\ 0 \in Cycles
    BY <1>1 DEF Slots, Cycles
  <2>3. Quiet(z) /\ z.slot = 0 /\ z.cycle = 0 /\ z.timeout = d.timeout
    BY <2>2, QuietTime
  <2>. HIDE DEF z
  <2>4. s.timeout = d.timeout
    <3>1. z \in Device /\ QueueOK(z.queue) /\ MessageOK([type |-> "TryToReceive", packet |-> None])
      BY <2>3, Messages DEF Quiet
    <3>2. PICK q : SendNowOrExit(z, "TryToReceive", None) = [z EXCEPT !.queue = q] /\ QueueOK(q)
      BY <3>1, SendQueue
    <3>3. [z EXCEPT !.queue = q].timeout = z.timeout
      BY <3>1, <3>2, WithQueue DEF QueueOK
    <3>. QED  BY <2>3, <3>2, <3>3 DEF ScheduleReception
  <2>5. Quiet(s) /\ s.slot = 0 /\ s.cycle = 0
    BY <2>3, QuietSchedules DEF SameTime
  <2>. HIDE DEF s
  <2>6. CASE d.timeout >= SCYCLES_TO_KEEP_TIMESRC
    <3>1. IncTimeSlot(d, l) = [s EXCEPT !.src = l]
      BY <2>1, <2>6 DEF NewSupercycle, s, z, SetTime
    <3>2. 0 \in Timeouts
      BY <1>1 DEF Timeouts
    <3>. QED  BY <3>1, <3>2, <2>5, <1>4, QuietSource DEF NextSlot, NextCycle, SameTime
  <2>7. CASE ~(d.timeout >= SCYCLES_TO_KEEP_TIMESRC)
    <3>1. IncTimeSlot(d, l) = [s EXCEPT !.timeout = s.timeout + 1]
      BY <2>1, <2>7 DEF NewSupercycle, s, z, SetTime
    <3>2. s.timeout + 1 \in Timeouts
      BY <2>4, <2>7, <1>1, Fields DEF Timeouts
    <3>. QED  BY <3>1, <3>2, <2>5, <1>4, <1>1, QuietSource DEF NextSlot, NextCycle, SameTime
  <2>. QED  BY <2>6, <2>7
<1>. QED  BY <1>2, <1>3, <1>4

LEMMA TimerKeeps ==
  ASSUME NEW d, NEW l \in Lockets, DeviceOK(d, l), SlotOver(d)
  PROVE  LET e == IOnTimerI(d, l)
         IN  DeviceOK(e, l) /\ e.slot = NextSlot(d) /\ e.cycle = NextCycle(d)
<1>. DEFINE t == IncTimeSlot(d, l)
            e == IOnTimerI(d, l)
<1>1. Quiet(d)
  BY DEF DeviceOK, SlotOver, Quiet, AirOK
<1>2. Quiet(t) /\ t.slot = NextSlot(d) /\ t.cycle = NextCycle(d)
  BY <1>1, TimeGoesOn
<1>3. e = (CASE t.slot = l -> ScheduleTransmission(t)
             [] t.slot # l /\ t.cycle = 0 -> ScheduleReception(t)
             [] OTHER -> ScheduleSleep(t))
  BY DEF IOnTimerI
<1>. HIDE DEF t, e
<1>4. CASE t.slot = l
  <2>1. t \in Device /\ QueueOK(t.queue) /\ NoTransmit(t.queue)
    BY <1>2 DEF Quiet
  <2>2. PICK q : e = [t EXCEPT !.queue = q] /\ QueueOK(q) /\ OneTransmit(q)
    BY <1>3, <1>4, <2>1, Messages, SendQueue DEF ScheduleTransmission
  <2>3. q \in Seq(Message)
    BY <2>2 DEF QueueOK
  <2>. QED  BY <1>2, <1>4, <2>1, <2>2, <2>3, WithQueue DEF Quiet, DeviceOK, AirOK, DueOK, e
<1>5. CASE t.slot # l
  <2>1. Quiet(e) /\ SameTime(e, t)
    BY <1>2, <1>3, <1>5, QuietSchedules
  <2>2. OneTransmit(e.queue)
    BY <2>1 DEF Quiet, NoTransmit, OneTransmit
  <2>. QED  BY <1>2, <2>1, <2>2 DEF Quiet, SameTime, DeviceOK, AirOK, DueOK, e
<1>. QED  BY <1>4, <1>5

-----------------------------------------------------------------------------
(* The thread.                                                             *)

\* What holds of a device between its slot's interrupts, its queue aside.
LEMMA TakesFirst ==
  ASSUME NEW d, NEW l \in Lockets, DeviceOK(d, l), d.queue # <<>>, d.air = None
  PROVE  LET e == Fetched(d)
             m == Head(d.queue)
         IN  /\ DeviceOK(e, l) /\ e.air = None /\ MessageOK(m) /\ SameTime(e, d)
             /\ m.type = "TryToTransmit" => NoTransmit(e.queue) /\ e.slot = l
             /\ NoTransmit(d.queue) => NoTransmit(e.queue) /\ m.type # "TryToTransmit"
<1>. DEFINE q == Tail(d.queue)
            e == Fetched(d)
            m == Head(d.queue)
<1>1. d \in Device /\ d.queue \in Seq(Message) /\ QueueOK(d.queue) /\ DueOK(d, l) /\ QLen \in Nat
  BY Fields, BoundsAssumption DEF DeviceOK
<1>2. /\ q \in Seq(Message) /\ Len(q) = Len(d.queue) - 1 /\ Len(d.queue) \in Nat /\ Len(d.queue) > 0
      /\ \A n \in 1..(Len(d.queue) - 1) : q[n] = d.queue[n + 1]
      /\ m = d.queue[1]
  BY <1>1, TailElements
<1>3. e = [d EXCEPT !.queue = q]
  BY DEF Fetched
<1>. HIDE DEF q, e, m
<1>4. \A n \in 1..Len(q) : n + 1 \in 1..Len(d.queue) /\ q[n] = d.queue[n + 1] /\ n + 1 # 1
  BY <1>2
<1>5. 1 \in 1..Len(d.queue)
  BY <1>2
<1>6. /\ e \in Device /\ e.queue = q
      /\ e.slot = d.slot /\ e.cycle = d.cycle /\ e.once = d.once /\ e.repeats = d.repeats
      /\ e.chip = d.chip /\ e.callback = d.callback /\ e.air = d.air
  BY <1>1, <1>2, <1>3, WithQueue
<1>7. QueueOK(q)
  <2>1. Len(q) <= QLen
    BY <1>1, <1>2 DEF QueueOK
  <2>. QED  BY <1>1, <1>2, <1>4, <2>1 DEF QueueOK
<1>8. OneTransmit(q)
  <2>. SUFFICES ASSUME NEW n \in 1..Len(q), NEW p \in 1..Len(q),
                       q[n].type = "TryToTransmit", q[p].type = "TryToTransmit"
                PROVE  n = p
    BY DEF OneTransmit
  <2>1. n + 1 = p + 1
    BY <1>1, <1>4 DEF DueOK, OneTransmit
  <2>. QED  BY <2>1, <1>2
<1>9. NoTransmit(d.queue) => NoTransmit(q) /\ m.type # "TryToTransmit"
  BY <1>2, <1>4, <1>5 DEF NoTransmit
<1>10. m.type = "TryToTransmit" => NoTransmit(q) /\ d.slot = l
  <2>. SUFFICES ASSUME m.type = "TryToTransmit" PROVE NoTransmit(q) /\ d.slot = l
    OBVIOUS
  <2>1. NoTransmit(q)
    BY <1>1, <1>2, <1>4, <1>5 DEF DueOK, OneTransmit, NoTransmit
  <2>2. ~NoTransmit(d.queue)
    BY <1>2, <1>5 DEF NoTransmit
  <2>. QED  BY <2>1, <2>2, <1>1 DEF DueOK
<1>11. DeviceOK(e, l)
  BY <1>6, <1>7, <1>8, <1>9, <1>1 DEF DeviceOK, AirOK, DueOK
<1>12. MessageOK(m)
  BY <1>1, <1>2, <1>5 DEF QueueOK
<1>. QED  BY <1>6, <1>9, <1>10, <1>11, <1>12 DEF SameTime, e, m

LEMMA TransmitsInSlot ==
  ASSUME NEW d, NEW l \in Lockets, DeviceOK(d, l), NoTransmit(d.queue), d.slot = l
  PROVE  DeviceOK(TransmitOneOf(d, l), l) /\ SameTime(TransmitOneOf(d, l), d)
<1>. DEFINE e == TransmitOneOf(d, l)
            r == IF d.once # None THEN d.repeats - 1 ELSE d.repeats
            o == IF d.once # None /\ d.repeats = 1 THEN None ELSE d.once
            a == AirPacket(d, l)
<1>1. d \in Device /\ QueueOK(d.queue) /\ RCYCLE_CNT \in Nat
  BY SlotsAssumption DEF DeviceOK
<1>2. r \in 0..RCYCLE_CNT + 1 /\ o \in Packets \cup {None} /\ (o # None => r >= 1)
  BY <1>1, Fields DEF DeviceOK, AirOK
<1>3. a \in FullRadioPacket /\ a.ID = l /\ a.cycle = d.cycle
  BY <1>1, Fields DEF AirPacket, FullRadioPacket, Payloads
<1>4. e = [d EXCEPT !.state = "Tx", !.chip = "tx", !.callback = FALSE,
                    !.repeats = r, !.once = o, !.air = a]
  BY <1>1 DEF TransmitOneOf, Device
<1>. HIDE DEF r, o, a, e
<1>5. /\ e \in Device /\ e.queue = d.queue /\ e.slot = d.slot /\ e.cycle = d.cycle
      /\ e.once = o /\ e.repeats = r /\ e.chip = "tx" /\ e.callback = FALSE /\ e.air = a
  BY <1>1, <1>2, <1>3, <1>4 DEF Device
<1>6. OneTransmit(e.queue) /\ NoTransmit(e.queue)
  BY <1>5 DEF NoTransmit, OneTransmit
<1>. QED  BY <1>1, <1>2, <1>3, <1>5, <1>6 DEF DeviceOK, AirOK, DueOK, SameTime, e

\* What the thread does with a message; only the own slot's puts a packet on the air.
LEMMA HandlingKeeps ==
  ASSUME NEW d, NEW l \in Lockets, NEW m, DeviceOK(d, l), d.air = None, MessageOK(m),
         m.type = "TryToTransmit" => NoTransmit(d.queue) /\ d.slot = l
  PROVE  LET e == Handled(d, l, m)
         IN  /\ DeviceOK(e, l) /\ SameTime(e, d)
             /\ m.type # "TryToTransmit" => e.air = None /\ e.queue = d.queue
<1>. DEFINE e == Handled(d, l, m)
<1>1. d \in Device /\ QueueOK(d.queue) /\ AirOK(d, l) /\ DueOK(d, l) /\ RCYCLE_CNT \in Nat
  BY SlotsAssumption DEF DeviceOK
<1>2. CASE m.type = "TryToTransmit"
  <2>1. e = TransmitOneOf(d, l)
    BY <1>2 DEF Handled
  <2>. QED  BY <2>1, <1>2, TransmitsInSlot
<1>3. CASE m.type = "TryToReceive"
  <2>1. e = [d EXCEPT !.state = "Rx", !.chip = "rx", !.callback = TRUE]
    BY <1>3 DEF Handled
  <2>. QED  BY <2>1, <1>1, <1>3 DEF DeviceOK, Device, AirOK, DueOK, SameTime
<1>4. CASE m.type = "TryToSleep"
  <2>1. e = [d EXCEPT !.state = "Idle", !.chip = "idle"]
    BY <1>4 DEF Handled
  <2>. QED  BY <2>1, <1>1, <1>4 DEF DeviceOK, Device, AirOK, DueOK, SameTime
<1>5. CASE m.type = "PacketReceived"
  <2>1. e = [d EXCEPT !.state = "Idle"]
    BY <1>5 DEF Handled
  <2>. QED  BY <2>1, <1>1, <1>5 DEF DeviceOK, Device, AirOK, DueOK, SameTime
<1>6. CASE m.type = "SetBeacon"
  <2>1. e = [d EXCEPT !.beacon = Beacon]
    BY <1>6 DEF Handled, MessageOK
  <2>. QED  BY <2>1, <1>1, <1>6 DEF DeviceOK, Device, AirOK, DueOK, SameTime
<1>7. CASE m.type = "ClearBeacon"
  <2>1. e = [d EXCEPT !.beacon = None]
    BY <1>7 DEF Handled
  <2>. QED  BY <2>1, <1>1, <1>7 DEF DeviceOK, Device, AirOK, DueOK, SameTime
<1>8. CASE m.type = "TransmitOnce"
  <2>. DEFINE r == RCYCLE_CNT + 1
  <2>1. e = [d EXCEPT !.once = m.packet, !.repeats = r] /\ m.packet \in Packets
    BY <1>8 DEF Handled, AcceptOnce, MessageOK
  <2>2. r \in 0..RCYCLE_CNT + 1 /\ r >= 1
    BY <1>1
  <2>. HIDE DEF r
  <2>. QED  BY <2>1, <2>2, <1>1, <1>8 DEF DeviceOK, Device, AirOK, DueOK, SameTime
<1>. QED
  BY <1>2, <1>3, <1>4, <1>5, <1>6, <1>7, <1>8 DEF MessageOK, Message

-----------------------------------------------------------------------------
(* The interrupts at the end of a packet.                                  *)

LEMMA TransmitterIsDone ==
  ASSUME NEW d, NEW l \in Lockets, DeviceOK(d, l), d.air # None
  PROVE  DeviceOK(TxIrq(d), l) /\ SlotOver(TxIrq(d)) /\ SameTime(TxIrq(d), d)
<1>1. d \in Device /\ ~d.callback /\ NoTransmit(d.queue)
  BY DEF DeviceOK, AirOK, DueOK
<1>2. TxIrq(d) = [d EXCEPT !.chip = "idle", !.callback = FALSE, !.air = None]
  BY <1>1 DEF TxIrq, Device
<1>. DEFINE e == TxIrq(d)
<1>3. /\ e \in Device /\ e.queue = d.queue /\ e.slot = d.slot /\ e.cycle = d.cycle
      /\ e.once = d.once /\ e.repeats = d.repeats /\ e.chip = "idle" /\ e.air = None
  BY <1>1, <1>2 DEF Device
<1>. HIDE DEF e
<1>4. DeviceOK(e, l)
  BY <1>3 DEF DeviceOK, AirOK, DueOK
<1>. QED  BY <1>1, <1>3, <1>4 DEF SlotOver, SameTime, e

LEMMA SilentSlotIsOver ==
  ASSUME NEW d, d.queue = <<>>, d.air = None
  PROVE  SlotOver(d)
BY DEF SlotOver, NoTransmit

\* A listener takes over the time of the packet, or keeps its own.
LEMMA ListenerAdjusts ==
  ASSUME NEW d, NEW l \in Lockets, NEW m, NEW good \in BOOLEAN,
         DeviceOK(d, l), d.queue = <<>>, d.air = None, good => m \in FullRadioPacket
  PROVE  LET e == RxIrq(d, m, good)
         IN  /\ DeviceOK(e, l) /\ SlotOver(e)
             /\ SameTime(e, d) \/ (good /\ e.slot = m.ID /\ e.cycle = m.cycle)
<1>. DEFINE a == IF good THEN AdjustI(d, m) ELSE d
            n == IF good /\ m.payload # None THEN SendNowOrExit(a, "PacketReceived", None) ELSE a
            e == RxIrq(d, m, good)
<1>1. Quiet(d)
  BY DEF Quiet, DeviceOK, AirOK, NoTransmit
<1>2. Quiet(a) /\ (SameTime(a, d) \/ (good /\ a.slot = m.ID /\ a.cycle = m.cycle))
  <2>1. CASE good /\ m.src <= d.src
    <3>1. m.ID \in 0..ID_MAX /\ m.cycle \in 0..RCYCLE_CNT - 1 /\ m.src \in Lockets
          /\ 0 \in 0..SCYCLES_TO_KEEP_TIMESRC
      <4>1. m \in FullRadioPacket /\ SCYCLES_TO_KEEP_TIMESRC \in Nat
        BY <2>1, BoundsAssumption
      <4>2. m.ID \in Lockets /\ m.src \in Lockets /\ m.cycle \in 0..RCYCLE_CNT - 1
        BY <4>1 DEF FullRadioPacket
      <4>3. m.ID \in 0..ID_MAX
        BY <4>2, SlotsAssumption
      <4>4. 0 \in 0..SCYCLES_TO_KEEP_TIMESRC
        BY <4>1
      <4>. QED  BY <4>2, <4>3, <4>4
    <3>2. a = [d EXCEPT !.cycle = m.cycle, !.slot = m.ID, !.src = m.src, !.timeout = 0]
      BY <2>1 DEF AdjustI
    <3>. QED  BY <1>1, <2>1, <3>1, <3>2 DEF Quiet, Device
  <2>2. CASE ~(good /\ m.src <= d.src)
    <3>1. a = d
      BY <2>2 DEF AdjustI
    <3>. QED  BY <1>1, <3>1 DEF SameTime
  <2>. QED  BY <2>1, <2>2
<1>. HIDE DEF a
<1>3. Quiet(n) /\ SameTime(n, a)
  BY <1>2, QuietSend DEF SameTime
<1>4. e = [n EXCEPT !.callback = FALSE, !.chip = "idle"]
  BY DEF RxIrq, a
<1>. HIDE DEF n, e
<1>5. /\ e \in Device /\ e.queue = n.queue /\ e.slot = n.slot /\ e.cycle = n.cycle /\ e.air = None
      /\ e.once = n.once /\ e.repeats = n.repeats /\ e.chip = "idle"
  BY <1>3, <1>4 DEF Quiet, Device
<1>6. DeviceOK(e, l) /\ SlotOver(e)
  BY <1>3, <1>5 DEF Quiet, DeviceOK, AirOK, DueOK, SlotOver, NoTransmit, OneTransmit
<1>. QED  BY <1>2, <1>3, <1>5, <1>6 DEF SameTime, e

-----------------------------------------------------------------------------
(* The main loop's calls, and power.                                       *)

LEMMA CallKeeps ==
  ASSUME NEW d, NEW l \in Lockets, NEW type \in {"TransmitOnce", "SetBeacon", "ClearBeacon"},
         NEW p, MessageOK([type |-> type, packet |-> p]), DeviceOK(d, l)
  PROVE  LET e == SendNowOrExit(d, type, p)
         IN  /\ DeviceOK(e, l) /\ SameTime(e, d)
             /\ SlotOver(d) => SlotOver(e)
<1>1. d \in Device /\ QueueOK(d.queue)
  BY DEF DeviceOK
<1>2. PICK q : /\ SendNowOrExit(d, type, p) = [d EXCEPT !.queue = q] /\ QueueOK(q)
               /\ NoTransmit(d.queue) => NoTransmit(q)
               /\ OneTransmit(d.queue) => OneTransmit(q)
  <2>1. type # "TryToTransmit"
    OBVIOUS
  <2>. QED  BY <1>1, <2>1, SendQueue
<1>3. q \in Seq(Message)
  BY <1>2 DEF QueueOK
<1>. QED  BY <1>1, <1>2, <1>3, WithQueue DEF DeviceOK, AirOK, DueOK, SlotOver, SameTime

LEMMA BootedOK ==
  ASSUME NEW l \in Lockets
  PROVE  /\ DeviceOK(Booted(l), l) /\ SlotOver(Booted(l))
         /\ Booted(l).queue = <<>> /\ Booted(l).air = None
<1>1. /\ ID_MAX \in Nat /\ RCYCLE_CNT \in Nat \ {0} /\ SCYCLES_TO_KEEP_TIMESRC \in Nat /\ QLen \in Nat
  BY SlotsAssumption, BoundsAssumption
<1>2. /\ 0 \in 0..ID_MAX /\ 0 \in 0..RCYCLE_CNT - 1 /\ 0 \in 0..SCYCLES_TO_KEEP_TIMESRC
      /\ 0 \in 0..RCYCLE_CNT + 1
  BY <1>1
<1>3. <<>> \in Seq(Message) /\ Len(<<>>) = 0 /\ 1..0 = {}
  OBVIOUS
<1>4. Booted(l) \in Device
  BY <1>2, <1>3 DEF Booted, Device
<1>5. QueueOK(<<>>) /\ NoTransmit(<<>>) /\ OneTransmit(<<>>)
  BY <1>1, <1>3 DEF QueueOK, NoTransmit, OneTransmit
<1>. QED  BY <1>4, <1>5 DEF Booted, DeviceOK, AirOK, DueOK, SlotOver

-----------------------------------------------------------------------------
(* The invariant is inductive.                                             *)

LEMMA InitInv == ASSUME Init PROVE IInv
<1>1. dev = [l \in Lockets |-> Booted(l)] /\ \A l \in Lockets : dev[l] = Booted(l)
  BY DEF Init
<1>2. \A l \in Lockets : DeviceOK(dev[l], l) /\ SlotOver(dev[l]) /\ dev[l].queue = <<>> /\ dev[l].air = None
  BY <1>1, BootedOK
<1>3. dev \in [Lockets -> Device]
  BY <1>1, <1>2 DEF DeviceOK
<1>4. /\ on \subseteq Lockets /\ open \in BOOLEAN /\ given \in [Packets -> Lockets \cup {None}]
      /\ heard \subseteq Lockets \X Packets /\ clean \subseteq Packets
  BY DEF Init
<1>5. boots \in 0..MaxBoots /\ faults \in Nat /\ calls \in Nat /\ faults + calls <= MaxEvents
  <2>1. MaxBoots \in Nat /\ MaxEvents \in Nat
    BY BoundsAssumption
  <2>. QED  BY <2>1 DEF Init
<1>. QED  BY <1>2, <1>3, <1>4, <1>5 DEF IInv

LEMMA TickInv ==
  ASSUME IInv, Tick
  PROVE  /\ IInv'
         /\ \A l \in on : dev'[l].slot = NextSlot(dev[l]) /\ dev'[l].cycle = NextCycle(dev[l])
<1>1. /\ dev' = [l \in Lockets |-> IF l \in on THEN IOnTimerI(dev[l], l) ELSE dev[l]]
      /\ ~open /\ open' = TRUE
      /\ UNCHANGED <<on, given, heard, clean, boots, faults, calls>>
  BY DEF Tick
<1>2. \A l \in Lockets : l \in on => dev'[l] = IOnTimerI(dev[l], l)
  BY <1>1
<1>3. \A l \in Lockets : l \notin on => dev'[l] = dev[l]
  BY <1>1
<1>4. \A l \in on : /\ DeviceOK(dev'[l], l)
                    /\ dev'[l].slot = NextSlot(dev[l]) /\ dev'[l].cycle = NextCycle(dev[l])
  BY <1>1, <1>2, TimerKeeps DEF IInv
<1>5. \A l \in Lockets : DeviceOK(dev'[l], l)
  BY <1>3, <1>4 DEF IInv
<1>6. dev' \in [Lockets -> Device]
  BY <1>1, <1>5 DEF DeviceOK
<1>. QED  BY <1>1, <1>3, <1>4, <1>5, <1>6 DEF IInv

LEMMA ProcessEventInv ==
  ASSUME IInv, NEW k \in Lockets, ProcessEvent(k)
  PROVE  IInv' /\ \A l \in Lockets : SameTime(dev'[l], dev[l])
<1>. DEFINE m == Head(dev[k].queue)
            t == Fetched(dev[k])
            h == Handled(t, k, m)
<1>1. /\ k \in on /\ dev[k].queue # <<>> /\ dev[k].air = None
      /\ dev' = [dev EXCEPT ![k] = h]
      /\ UNCHANGED <<on, open, given, heard, boots, faults, calls>>
  BY DEF ProcessEvent
<1>2. DeviceOK(dev[k], k) /\ dev \in [Lockets -> Device]
  BY DEF IInv
<1>3. /\ DeviceOK(t, k) /\ t.air = None /\ MessageOK(m) /\ SameTime(t, dev[k])
      /\ m.type = "TryToTransmit" => NoTransmit(t.queue) /\ t.slot = k
      /\ NoTransmit(dev[k].queue) => NoTransmit(t.queue) /\ m.type # "TryToTransmit"
  BY <1>1, <1>2, TakesFirst
<1>. HIDE DEF t, m
<1>4. /\ DeviceOK(h, k) /\ SameTime(h, t)
      /\ m.type # "TryToTransmit" => h.air = None /\ h.queue = t.queue
  BY <1>3, HandlingKeeps
<1>. HIDE DEF h
<1>5. dev'[k] = h /\ \A l \in Lockets : l # k => dev'[l] = dev[l]
  BY <1>1, <1>2
<1>6. \A l \in Lockets : DeviceOK(dev'[l], l)
  BY <1>4, <1>5 DEF IInv
<1>7. dev' \in [Lockets -> Device]
  BY <1>1, <1>2, <1>4 DEF DeviceOK
<1>8. ~open' => \A l \in Lockets : SlotOver(dev'[l])
  BY <1>1, <1>3, <1>4, <1>5 DEF IInv, SlotOver
<1>9. \A l \in Lockets : l \notin on' => dev'[l].queue = <<>> /\ dev'[l].air = None
  BY <1>1, <1>5 DEF IInv
<1>10. clean' \subseteq Packets
  <2>1. m.type = "TransmitOnce" => m.packet \in Packets
    BY <1>3 DEF MessageOK
  <2>2. clean' = CASE m.type = "TransmitOnce" ->
                          {p \in clean : given[p] # k} \cup
                          {p \in {m.packet} : AllInStep /\ \A j \in on : j < k => dev[j].beacon # None}
                   [] m.type = "ClearBeacon" -> {}
                   [] OTHER -> clean
    BY DEF ProcessEvent, m
  <2>3. clean \subseteq Packets
    BY DEF IInv
  <2>. QED  BY <2>1, <2>2, <2>3
<1>11. \A l \in Lockets : SameTime(dev'[l], dev[l])
  BY <1>3, <1>4, <1>5 DEF SameTime
<1>. QED  BY <1>1, <1>6, <1>7, <1>8, <1>9, <1>10, <1>11 DEF IInv

LEMMA SendInv ==
  ASSUME IInv, NEW k \in Lockets, NEW type \in {"TransmitOnce", "SetBeacon", "ClearBeacon"}, NEW p,
         MessageOK([type |-> type, packet |-> p]), Send(k, type, p),
         given' \in [Packets -> Lockets \cup {None}]
  PROVE  IInv' /\ \A l \in Lockets : SameTime(dev'[l], dev[l])
<1>. DEFINE h == SendNowOrExit(dev[k], type, p)
<1>1. /\ k \in on /\ calls + faults < MaxEvents /\ calls' = calls + 1
      /\ dev' = [dev EXCEPT ![k] = h]
      /\ UNCHANGED <<on, open, heard, clean, boots, faults>>
  BY DEF Send
<1>2. DeviceOK(dev[k], k) /\ dev \in [Lockets -> Device]
  BY DEF IInv
<1>3. DeviceOK(h, k) /\ SameTime(h, dev[k]) /\ (SlotOver(dev[k]) => SlotOver(h))
  BY <1>2, CallKeeps
<1>. HIDE DEF h
<1>5. dev'[k] = h /\ \A l \in Lockets : l # k => dev'[l] = dev[l]
  BY <1>1, <1>2
<1>6. \A l \in Lockets : DeviceOK(dev'[l], l) /\ SameTime(dev'[l], dev[l])
  BY <1>3, <1>5 DEF IInv, SameTime
<1>7. dev' \in [Lockets -> Device]
  BY <1>1, <1>2, <1>3 DEF DeviceOK
<1>8. ~open' => \A l \in Lockets : SlotOver(dev'[l])
  BY <1>1, <1>3, <1>5 DEF IInv
<1>9. \A l \in Lockets : l \notin on' => dev'[l].queue = <<>> /\ dev'[l].air = None
  BY <1>1, <1>5 DEF IInv
<1>10. calls' \in Nat /\ faults' + calls' <= MaxEvents
  <2>1. MaxEvents \in Nat /\ calls \in Nat /\ faults \in Nat
    BY BoundsAssumption DEF IInv
  <2>. QED  BY <2>1, <1>1
<1>. QED  BY <1>1, <1>6, <1>7, <1>8, <1>9, <1>10 DEF IInv

LEMMA MainCallInv ==
  ASSUME IInv, NEW k \in Lockets, MainCall(k)
  PROVE  IInv' /\ \A l \in Lockets : SameTime(dev'[l], dev[l])
<1>1. given \in [Packets -> Lockets \cup {None}]
  BY DEF IInv
<1>2. ASSUME NEW p \in Packets, TransmitOnce(k, p)
      PROVE  IInv' /\ \A l \in Lockets : SameTime(dev'[l], dev[l])
  <2>1. MessageOK([type |-> "TransmitOnce", packet |-> p])
    BY DEF MessageOK, Message, Payloads
  <2>2. given' \in [Packets -> Lockets \cup {None}] /\ Send(k, "TransmitOnce", p)
    BY <1>1, <1>2 DEF TransmitOnce
  <2>. QED  BY <2>1, <2>2, SendInv
<1>3. CASE SetBeaconPacketTo(k)
  <2>1. MessageOK([type |-> "SetBeacon", packet |-> Beacon])
    BY DEF MessageOK, Message, Payloads
  <2>2. given' \in [Packets -> Lockets \cup {None}] /\ Send(k, "SetBeacon", Beacon)
    BY <1>1, <1>3 DEF SetBeaconPacketTo
  <2>. QED  BY <2>1, <2>2, SendInv
<1>4. CASE ClearBeaconPacket(k)
  <2>1. MessageOK([type |-> "ClearBeacon", packet |-> None])
    BY DEF MessageOK, Message, Payloads
  <2>2. given' \in [Packets -> Lockets \cup {None}] /\ Send(k, "ClearBeacon", None)
    BY <1>1, <1>4 DEF ClearBeaconPacket
  <2>. QED  BY <2>1, <2>2, SendInv
<1>. QED  BY <1>2, <1>3, <1>4 DEF MainCall

LEMMA BootInv ==
  ASSUME IInv, NEW k \in Lockets, Boot(k)
  PROVE  IInv' /\ boots' # boots
<1>1. /\ ~open /\ boots < MaxBoots /\ boots' = boots + 1
      /\ dev' = [dev EXCEPT ![k] = Booted(k)] /\ on' \in {on \cup {k}, on \ {k}} /\ clean' = {}
      /\ UNCHANGED <<open, given, heard, faults, calls>>
  BY DEF Boot
<1>2. dev \in [Lockets -> Device] /\ DeviceOK(Booted(k), k) /\ SlotOver(Booted(k))
  BY BootedOK DEF IInv
<1>3. dev'[k] = Booted(k) /\ \A l \in Lockets : l # k => dev'[l] = dev[l]
  BY <1>1, <1>2
<1>4. \A l \in Lockets : DeviceOK(dev'[l], l) /\ SlotOver(dev'[l])
  BY <1>1, <1>2, <1>3 DEF IInv
<1>5. dev' \in [Lockets -> Device]
  BY <1>1, <1>2 DEF DeviceOK
<1>6. \A l \in Lockets : l \notin on' => dev'[l].queue = <<>> /\ dev'[l].air = None
  BY <1>1, <1>3, BootedOK DEF IInv
<1>7. boots' \in 0..MaxBoots /\ boots' # boots
  <2>1. MaxBoots \in Nat /\ boots \in 0..MaxBoots
    BY BoundsAssumption DEF IInv
  <2>. QED  BY <2>1, <1>1
<1>. QED  BY <1>1, <1>4, <1>5, <1>6, <1>7 DEF IInv

\* The packet that is heard is that of the only sender.
LEMMA OneSender ==
  ASSUME IInv, Cardinality(Senders) = 1
  PROVE  LET s == CHOOSE k \in Senders : TRUE
         IN  /\ s \in on /\ s \in Lockets /\ dev[s].air \in FullRadioPacket
             /\ dev[s].air.ID = dev[s].slot /\ dev[s].air.cycle = dev[s].cycle
<1>. DEFINE s == CHOOSE k \in Senders : TRUE
<1>1. s \in Senders
  <2>1. Senders # {}
    BY FS_EmptySet
  <2>. QED  BY <2>1
<1>. HIDE DEF s
<1>2. s \in on /\ s \in Lockets /\ dev[s].air # None
  BY <1>1 DEF Senders, IInv
<1>3. DeviceOK(dev[s], s)
  BY <1>2 DEF IInv
<1>4. dev[s].air \in FullRadioPacket
  BY <1>2, <1>3, Fields DEF DeviceOK
<1>. QED  BY <1>2, <1>3, <1>4 DEF DeviceOK, AirOK, s

LEMMA FaultsNumber ==
  ASSUME IInv, NEW o
  PROVE  Faults(o) \in Nat
<1>1. Listeners \subseteq 0..ID_MAX
  BY SlotsAssumption DEF Listeners, IInv
<1>2. IsFiniteSet(0..ID_MAX)
  BY SlotsAssumption, FS_Interval
<1>3. {r \in Listeners : o[r] # "heard"} \subseteq 0..ID_MAX
  BY <1>1
<1>4. IsFiniteSet({r \in Listeners : o[r] # "heard"})
  BY <1>2, <1>3, FS_Subset
<1>. QED  BY <1>4, FS_CardinalityType DEF Faults

\* What an end of a slot does to one Locket.
Ended(l, o, packet) == CASE l \in Senders -> TxIrq(dev[l])
                         [] l \in Listeners /\ o[l] # "nothing" -> RxIrq(dev[l], packet, o[l] = "heard")
                         [] OTHER -> dev[l]

LEMMA EndsWell ==
  ASSUME IInv, Ready, NEW o \in Outcomes, NEW l \in Lockets, NEW packet,
         packet = dev[CHOOSE k \in Senders : TRUE].air
  PROVE  LET e == Ended(l, o, packet)
         IN  /\ DeviceOK(e, l) /\ SlotOver(e) /\ (l \notin on => e = dev[l])
             /\ \/ SameTime(e, dev[l])
                \/ l \in on /\ \E s \in on : SameTime(e, dev[s])
<1>. DEFINE e == Ended(l, o, packet)
<1>1. DeviceOK(dev[l], l) /\ (l \notin on => dev[l].queue = <<>> /\ dev[l].air = None)
  BY DEF IInv
<1>2. CASE l \in Senders
  <2>0. l \in on /\ dev[l].air # None /\ l \notin Listeners
    BY <1>1, <1>2 DEF Senders, Listeners, DeviceOK, AirOK
  <2>1. e = TxIrq(dev[l])
    BY <1>2, <2>0 DEF Ended
  <2>. QED  BY <1>1, <2>0, <2>1, TransmitterIsDone
<1>3. CASE l \notin Senders /\ l \in Listeners /\ o[l] # "nothing"
  <2>. DEFINE good == o[l] = "heard"
  <2>1. e = RxIrq(dev[l], packet, good) /\ l \in on
    BY <1>3 DEF Ended, Listeners
  <2>2. dev[l].air = None /\ dev[l].queue = <<>>
    BY <1>3, <2>1 DEF Senders, Ready
  <2>3. good => \E s \in on : /\ packet \in FullRadioPacket
                              /\ packet.ID = dev[s].slot /\ packet.cycle = dev[s].cycle
    <3>1. good => Cardinality(Senders) = 1
      BY <1>3 DEF Outcomes
    <3>. QED  BY <3>1, OneSender
  <2>4. good \in BOOLEAN
    OBVIOUS
  <2>. HIDE DEF good
  <2>5. /\ DeviceOK(e, l) /\ SlotOver(e)
        /\ SameTime(e, dev[l]) \/ (good /\ e.slot = packet.ID /\ e.cycle = packet.cycle)
    BY <1>1, <2>1, <2>2, <2>3, <2>4, ListenerAdjusts
  <2>. QED  BY <2>1, <2>3, <2>5 DEF SameTime
<1>4. CASE l \notin Senders /\ ~(l \in Listeners /\ o[l] # "nothing")
  <2>1. e = dev[l]
    BY <1>4 DEF Ended
  <2>2. dev[l].air = None /\ dev[l].queue = <<>>
    BY <1>1, <1>4 DEF Senders, Ready
  <2>. QED  BY <1>1, <2>1, <2>2, SilentSlotIsOver DEF SameTime
<1>. QED  BY <1>2, <1>3, <1>4

LEMMA EndOfSlotInv ==
  ASSUME IInv, EndOfSlot
  PROVE  /\ IInv'
         /\ \A l \in Lockets : \/ SameTime(dev'[l], dev[l])
                               \/ l \in on /\ \E s \in on : SameTime(dev'[l], dev[s])
<1>1. /\ open /\ Ready /\ open' = FALSE
      /\ UNCHANGED <<on, given, boots, calls>>
  BY DEF EndOfSlot
<1>2. PICK o \in Outcomes :
        LET packet == dev[CHOOSE l \in Senders : TRUE].air
            hearers == {r \in Listeners : o[r] = "heard"}
        IN /\ faults + Faults(o) + calls <= MaxEvents
           /\ faults' = faults + Faults(o)
           /\ dev' = [l \in Lockets |-> Ended(l, o, packet)]
           /\ heard' = heard \cup {<<r, packet.payload>> : r \in
                                     {h \in hearers : packet.payload \in Packets}}
           /\ clean' = IF Faults(o) = 0 THEN clean ELSE {}
  BY DEF EndOfSlot, Ended
<1>. DEFINE packet == dev[CHOOSE l \in Senders : TRUE].air
<1>3. dev' = [l \in Lockets |-> Ended(l, o, packet)]
  BY <1>2
<1>4. \A l \in Lockets : dev'[l] = Ended(l, o, packet)
  BY <1>3
<1>5. \A l \in Lockets : /\ DeviceOK(dev'[l], l) /\ SlotOver(dev'[l]) /\ (l \notin on => dev'[l] = dev[l])
                         /\ \/ SameTime(dev'[l], dev[l])
                            \/ l \in on /\ \E s \in on : SameTime(dev'[l], dev[s])
  BY <1>1, <1>4, EndsWell
<1>6. dev' \in [Lockets -> Device]
  BY <1>3, <1>4, <1>5 DEF DeviceOK
<1>7. heard' \subseteq Lockets \X Packets
  <2>1. Listeners \subseteq Lockets
    BY DEF Listeners, IInv
  <2>2. heard' = heard \cup {<<r, packet.payload>> : r \in
                    {h \in {r \in Listeners : o[r] = "heard"} : packet.payload \in Packets}}
    BY <1>2
  <2>. HIDE DEF packet
  <2>3. heard \subseteq Lockets \X Packets
    BY DEF IInv
  <2>. QED  BY <2>1, <2>2, <2>3
<1>8. clean' \subseteq Packets
  BY <1>2 DEF IInv
<1>9. faults' \in Nat /\ faults' + calls' <= MaxEvents
  <2>1. faults \in Nat /\ calls \in Nat /\ Faults(o) \in Nat /\ MaxEvents \in Nat
    BY FaultsNumber, BoundsAssumption DEF IInv
  <2>2. calls' = calls /\ faults' = faults + Faults(o) /\ faults + Faults(o) + calls <= MaxEvents
    BY <1>1, <1>2
  <2>. QED  BY <2>1, <2>2
<1>. QED  BY <1>1, <1>5, <1>6, <1>7, <1>8, <1>9 DEF IInv

LEMMA StepInv == ASSUME IInv, [Next]_vars PROVE IInv'
<1>1. CASE Tick
  BY <1>1, TickInv
<1>2. CASE EndOfSlot
  BY <1>2, EndOfSlotInv
<1>3. ASSUME NEW l \in Lockets, ProcessEvent(l) PROVE IInv'
  BY <1>3, ProcessEventInv
<1>4. ASSUME NEW l \in Lockets, Boot(l) PROVE IInv'
  BY <1>4, BootInv
<1>5. ASSUME NEW l \in Lockets, MainCall(l) PROVE IInv'
  BY <1>5, MainCallInv
<1>6. CASE UNCHANGED vars
  BY <1>6 DEF vars, IInv, DeviceOK, SlotOver
<1>. QED  BY <1>1, <1>2, <1>3, <1>4, <1>5, <1>6 DEF Next, Radio

LEMMA Invariance == Spec => []IInv
BY InitInv, StepInv, PTL DEF Spec

-----------------------------------------------------------------------------
(* The properties.                                                         *)

\* The radios' records, the queues' length and the histories have their types
\* (TypeOK of the runs).
THEOREM TypeCorrect == Spec => []TypeOK
<1>1. IInv => TypeOK
  BY DEF IInv, TypeOK, DeviceOK, QueueOK
<1>. QED  BY <1>1, Invariance, PTL

\* For any number of Lockets: while a chip transmits no receiver's callback is
\* set, so that the interrupt at the end of the packet resumes the thread that
\* waits for it without a timeout (cc1101.cpp, Transmit and IIrqHandler).
THEOREM EndOfPacketWakesThread == Spec => []TxEndWakesThread
<1>1. IInv => TxEndWakesThread
  BY DEF IInv, TxEndWakesThread, DeviceOK, AirOK
<1>. QED  BY <1>1, Invariance, PTL

\* When a slot is over the thread has carried out its transmission: none is on
\* the air, and no TryToTransmit waits for a later slot (IOnTimerI queues one
\* per cycle, into a queue the thread empties within the slot).
NothingLeftOver == ~open => \A l \in on : dev[l].air = None /\ NoTransmit(dev[l].queue)

THEOREM SlotsAreSeparate == Spec => []NothingLeftOver
<1>1. IInv => NothingLeftOver
  BY DEF IInv, NothingLeftOver, SlotOver
<1>. QED  BY <1>1, Invariance, PTL

\* Lockets that count the same slot and cycle go on doing so whoever hears
\* whom, until one restarts: a sender's packet carries the slot and cycle its
\* hearers have counted (TransmitOneOf and AdjustI against IOnTimerI).
LEMMA StepKeepsTime == ASSUME IInv, Next, AllInStep, boots' = boots PROVE AllInStep'
<1>1. on = Lockets /\ \A l, m \in Lockets : SameTime(dev[l], dev[m])
  BY DEF AllInStep, InStep, SameTime
<1>2. CASE Tick
  <2>1. \A l \in on : dev'[l].slot = NextSlot(dev[l]) /\ dev'[l].cycle = NextCycle(dev[l])
    BY <1>2, TickInv
  <2>2. \A l, m \in Lockets : NextSlot(dev[l]) = NextSlot(dev[m]) /\ NextCycle(dev[l]) = NextCycle(dev[m])
    BY <1>1 DEF SameTime, NextSlot, NextCycle
  <2>. QED  BY <1>1, <1>2, <2>1, <2>2 DEF AllInStep, InStep, Tick
<1>3. CASE EndOfSlot
  <2>1. \A l \in Lockets : \/ SameTime(dev'[l], dev[l])
                           \/ l \in on /\ \E s \in on : SameTime(dev'[l], dev[s])
    BY <1>3, EndOfSlotInv
  <2>2. \A l, m \in Lockets : SameTime(dev'[l], dev[m])
    BY <1>1, <2>1 DEF SameTime
  <2>. QED  BY <1>1, <1>3, <2>2 DEF AllInStep, InStep, SameTime, EndOfSlot
<1>4. ASSUME NEW k \in Lockets, ProcessEvent(k) PROVE AllInStep'
  <2>1. on' = on
    BY <1>4 DEF ProcessEvent
  <2>. QED  BY <1>1, <1>4, <2>1, ProcessEventInv DEF AllInStep, InStep, SameTime
<1>5. ASSUME NEW k \in Lockets, Boot(k) PROVE FALSE
  BY <1>5, BootInv
<1>6. ASSUME NEW k \in Lockets, MainCall(k) PROVE AllInStep'
  <2>1. on' = on
    BY <1>6 DEF MainCall, TransmitOnce, SetBeaconPacketTo, ClearBeaconPacket, Send
  <2>. QED  BY <1>1, <1>6, <2>1, MainCallInv DEF AllInStep, InStep, SameTime
<1>. QED  BY <1>2, <1>3, <1>4, <1>5, <1>6 DEF Next, Radio

THEOREM KeepsTogether == Spec => StaysInStep
<1>1. IInv /\ [Next]_vars => [AllInStep /\ boots' = boots => AllInStep']_vars
  BY StepKeepsTime
<1>. QED  BY <1>1, Invariance, PTL DEF Spec, StaysInStep

-----------------------------------------------------------------------------
(* A packet given to TransmitOnce reaches everybody, if the slot timer's   *)
(* two messages fit into the queue and some cycle is not for listening.    *)

Enough == QLen >= 2 /\ RCYCLE_CNT >= 2

\* The messages after which the chip does not receive.
Disturbs == {"TryToTransmit", "TryToSleep", "PacketReceived"}

\* What a Locket comes to when its thread has emptied the queue: it receives,
\* or state_ is such that the slot timer will make it receive.  It is deaf
\* when neither holds: state_ is Rx, but the chip is idle.
WillListen(d) ==
    \/ \E n \in 1..Len(d.queue) : /\ d.queue[n].type = "TryToReceive"
                                  /\ \A k \in n..Len(d.queue) : d.queue[k].type \notin Disturbs
    \/ /\ d.state = "Rx" /\ d.chip = "rx"
       /\ \A k \in 1..Len(d.queue) : d.queue[k].type \notin Disturbs
WillRest(d) ==
    \/ \E n \in 1..Len(d.queue) : /\ d.queue[n].type \in Disturbs
                                  /\ \A k \in n..Len(d.queue) : d.queue[k].type # "TryToReceive"
    \/ /\ d.state # "Rx"
       /\ \A k \in 1..Len(d.queue) : d.queue[k].type # "TryToReceive"
NotDeaf(d) == WillListen(d) \/ WillRest(d)

LEMMA AtRest ==
  ASSUME NEW d, d.queue = <<>>
  PROVE  /\ WillListen(d) <=> d.state = "Rx" /\ d.chip = "rx"
         /\ WillRest(d) <=> d.state # "Rx"
<1>1. Len(d.queue) = 0 /\ 1..0 = {}
  OBVIOUS
<1>. QED  BY <1>1 DEF WillListen, WillRest

\* The thread's next message does not change what a Locket comes to.
TakesHead(e, d) ==
    /\ d.queue \in Seq(Message) /\ d.queue # <<>> /\ e.queue = Tail(d.queue)
    /\ Head(d.queue).type = "TryToReceive" => e.state = "Rx" /\ e.chip = "rx"
    /\ Head(d.queue).type \in Disturbs => e.state # "Rx"
    /\ Head(d.queue).type \notin Disturbs \cup {"TryToReceive"} => e.state = d.state /\ e.chip = d.chip

LEMMA HeadTaken ==
  ASSUME NEW e, NEW d, TakesHead(e, d)
  PROVE  (WillListen(d) => WillListen(e)) /\ (WillRest(d) => WillRest(e))
<1>. DEFINE q == d.queue
            N == Len(q)
<1>1. /\ Tail(q) \in Seq(Message) /\ Len(Tail(q)) = N - 1 /\ N \in Nat /\ N > 0
      /\ \A n \in 1..(N - 1) : Tail(q)[n] = q[n + 1]
      /\ Head(q) = q[1] /\ e.queue = Tail(q)
  BY TailElements DEF TakesHead
<1>. HIDE DEF N, q
<1>2. 1 \in 1..N /\ Len(e.queue) = N - 1 /\ \A n \in 1..(N - 1) : e.queue[n] = q[n + 1] /\ n + 1 \in 1..N
  BY <1>1
<1>3. /\ q[1].type = "TryToReceive" => e.state = "Rx" /\ e.chip = "rx"
      /\ q[1].type \in Disturbs => e.state # "Rx"
      /\ q[1].type \notin Disturbs \cup {"TryToReceive"} => e.state = d.state /\ e.chip = d.chip
  BY <1>1 DEF TakesHead, q
<1>4. ASSUME WillListen(d) PROVE WillListen(e)
  <2>1. ASSUME NEW n \in 1..N, q[n].type = "TryToReceive", \A k \in n..N : q[k].type \notin Disturbs
        PROVE  WillListen(e)
    <3>1. CASE n = 1
      <4>1. \A k \in 1..(N - 1) : e.queue[k].type \notin Disturbs
        BY <1>1, <1>2, <2>1, <3>1
      <4>. QED  BY <1>2, <1>3, <2>1, <3>1, <4>1 DEF WillListen
    <3>2. CASE n # 1
      <4>1. n - 1 \in 1..(N - 1) /\ (n - 1) + 1 = n
        BY <1>1, <3>2
      <4>2. e.queue[n - 1].type = "TryToReceive"
        BY <1>2, <2>1, <4>1
      <4>3. \A k \in (n - 1)..(N - 1) : e.queue[k].type \notin Disturbs
        <5>1. \A k \in (n - 1)..(N - 1) : k \in 1..(N - 1) /\ k + 1 \in n..N
          BY <1>1, <4>1
        <5>. QED  BY <1>2, <2>1, <5>1
      <4>. QED  BY <1>2, <4>1, <4>2, <4>3 DEF WillListen
    <3>. QED  BY <3>1, <3>2
  <2>2. ASSUME d.state = "Rx", d.chip = "rx", \A k \in 1..N : q[k].type \notin Disturbs
        PROVE  WillListen(e)
    <3>1. \A k \in 1..(N - 1) : e.queue[k].type \notin Disturbs
      BY <1>2, <2>2
    <3>2. e.state = "Rx" /\ e.chip = "rx"
      BY <1>2, <1>3, <2>2
    <3>. QED  BY <1>2, <3>1, <3>2 DEF WillListen
  <2>. QED  BY <1>4, <2>1, <2>2 DEF WillListen, q, N
<1>5. ASSUME WillRest(d) PROVE WillRest(e)
  <2>0. "TryToReceive" \notin Disturbs
    BY DEF Disturbs
  <2>1. ASSUME NEW n \in 1..N, q[n].type \in Disturbs, \A k \in n..N : q[k].type # "TryToReceive"
        PROVE  WillRest(e)
    <3>1. CASE n = 1
      <4>1. \A k \in 1..(N - 1) : e.queue[k].type # "TryToReceive"
        BY <1>1, <1>2, <2>1, <3>1
      <4>. QED  BY <1>2, <1>3, <2>1, <3>1, <4>1 DEF WillRest
    <3>2. CASE n # 1
      <4>1. n - 1 \in 1..(N - 1) /\ (n - 1) + 1 = n
        BY <1>1, <3>2
      <4>2. e.queue[n - 1].type \in Disturbs
        BY <1>2, <2>1, <4>1
      <4>3. \A k \in (n - 1)..(N - 1) : e.queue[k].type # "TryToReceive"
        <5>1. \A k \in (n - 1)..(N - 1) : k \in 1..(N - 1) /\ k + 1 \in n..N
          BY <1>1, <4>1
        <5>. QED  BY <1>2, <2>1, <5>1
      <4>. QED  BY <1>2, <4>1, <4>2, <4>3 DEF WillRest
    <3>. QED  BY <3>1, <3>2
  <2>2. ASSUME d.state # "Rx", \A k \in 1..N : q[k].type # "TryToReceive"
        PROVE  WillRest(e)
    <3>1. \A k \in 1..(N - 1) : e.queue[k].type # "TryToReceive"
      BY <1>2, <2>2
    <3>2. e.state # "Rx"
      BY <1>2, <1>3, <2>2
    <3>. QED  BY <1>2, <3>1, <3>2 DEF WillRest
  <2>. QED  BY <1>5, <2>1, <2>2 DEF WillRest, q, N
<1>. QED  BY <1>4, <1>5

\* A call's message at the end of the queue does not change it either.
Calls == {"TransmitOnce", "SetBeacon", "ClearBeacon"}

AddsCall(e, d, m) ==
    /\ d.queue \in Seq(Message) /\ m \in Message /\ m.type \in Calls
    /\ e.state = d.state /\ e.chip = d.chip
    /\ e.queue \in {d.queue, Append(d.queue, m)}

LEMMA CallAdded ==
  ASSUME NEW e, NEW d, NEW m, AddsCall(e, d, m)
  PROVE  /\ WillListen(d) => WillListen(e)
         /\ WillRest(d) => WillRest(e)
         /\ NoTransmit(d.queue) <=> NoTransmit(e.queue)
<1>. DEFINE q == d.queue
            N == Len(q)
<1>1. CASE e.queue = q
  BY <1>1 DEF AddsCall, WillListen, WillRest
<1>2. CASE e.queue = Append(q, m)
  <2>1. /\ Len(e.queue) = N + 1 /\ N \in Nat /\ e.queue[N + 1] = m
        /\ \A n \in 1..N : e.queue[n] = q[n]
    BY <1>2, AppendElements DEF AddsCall
  <2>2. m.type \notin Disturbs /\ m.type # "TryToReceive" /\ m.type # "TryToTransmit"
    BY DEF AddsCall, Calls, Disturbs
  <2>3. e.state = d.state /\ e.chip = d.chip
    BY DEF AddsCall
  <2>. HIDE DEF N
  <2>4. \A k \in 1..(N + 1) : k \in 1..N \/ k = N + 1
    BY <2>1
  <2>5. \A n \in 1..N : n \in 1..(N + 1) /\ \A k \in n..(N + 1) : k \in n..N \/ k = N + 1
    BY <2>1
  <2>6. \A n \in 1..N : \A k \in n..N : k \in 1..N
    BY <2>1
  <2>7. ASSUME WillListen(d) PROVE WillListen(e)
    <3>1. ASSUME NEW n \in 1..N, q[n].type = "TryToReceive", \A k \in n..N : q[k].type \notin Disturbs
          PROVE  WillListen(e)
      <4>1. \A k \in n..(N + 1) : e.queue[k].type \notin Disturbs
        BY <2>1, <2>2, <2>5, <2>6, <3>1
      <4>. QED  BY <2>1, <2>5, <3>1, <4>1 DEF WillListen
    <3>2. ASSUME d.state = "Rx", d.chip = "rx", \A k \in 1..N : q[k].type \notin Disturbs
          PROVE  WillListen(e)
      <4>1. \A k \in 1..(N + 1) : e.queue[k].type \notin Disturbs
        BY <2>1, <2>2, <2>4, <3>2
      <4>. QED  BY <2>1, <2>3, <3>2, <4>1 DEF WillListen
    <3>. QED  BY <2>7, <3>1, <3>2 DEF WillListen, N
  <2>8. ASSUME WillRest(d) PROVE WillRest(e)
    <3>1. ASSUME NEW n \in 1..N, q[n].type \in Disturbs, \A k \in n..N : q[k].type # "TryToReceive"
          PROVE  WillRest(e)
      <4>1. \A k \in n..(N + 1) : e.queue[k].type # "TryToReceive"
        BY <2>1, <2>2, <2>5, <2>6, <3>1
      <4>. QED  BY <2>1, <2>5, <3>1, <4>1 DEF WillRest
    <3>2. ASSUME d.state # "Rx", \A k \in 1..N : q[k].type # "TryToReceive"
          PROVE  WillRest(e)
      <4>1. \A k \in 1..(N + 1) : e.queue[k].type # "TryToReceive"
        BY <2>1, <2>2, <2>4, <3>2
      <4>. QED  BY <2>1, <2>3, <3>2, <4>1 DEF WillRest
    <3>. QED  BY <2>8, <3>1, <3>2 DEF WillRest, N
  <2>9. NoTransmit(q) => NoTransmit(e.queue)
    BY <2>1, <2>2, <2>4 DEF NoTransmit, N
  <2>10. NoTransmit(e.queue) => NoTransmit(q)
    BY <2>1, <2>5 DEF NoTransmit, N
  <2>. QED  BY <2>7, <2>8, <2>9, <2>10
<1>. QED  BY <1>1, <1>2 DEF AddsCall

\* The thread's step, field by field.
LEMMA HandledIs ==
  ASSUME NEW d \in Device, NEW l \in Lockets, NEW m, MessageOK(m)
  PROVE  LET e == Handled(d, l, m)
         IN  /\ e.queue = d.queue
             /\ m.type = "TryToReceive" => e.state = "Rx" /\ e.chip = "rx"
             /\ m.type \in Disturbs => e.state # "Rx"
             /\ m.type \in Calls => e.state = d.state /\ e.chip = d.chip
             /\ m.type # "TryToTransmit" => e.air = d.air
             /\ m.type = "TryToTransmit" =>
                  /\ e.air # None => e.air.payload = IF d.once # None THEN d.once ELSE d.beacon
                  /\ e.air = AirPacket(d, l)
                  /\ e.repeats = IF d.once # None THEN d.repeats - 1 ELSE d.repeats
                  /\ e.once = IF d.once # None /\ d.repeats = 1 THEN None ELSE d.once
             /\ m.type = "TransmitOnce" => e.once = m.packet /\ e.repeats = RCYCLE_CNT + 1
             /\ m.type \notin {"TryToTransmit", "TransmitOnce"} =>
                  e.once = d.once /\ e.repeats = d.repeats
             /\ m.type = "SetBeacon" => e.beacon = Beacon
             /\ m.type \notin {"SetBeacon", "ClearBeacon"} => e.beacon = d.beacon
<1>. DEFINE e == Handled(d, l, m)
<1>1. CASE m.type = "TryToTransmit"
  <2>. DEFINE r == IF d.once # None THEN d.repeats - 1 ELSE d.repeats
              o == IF d.once # None /\ d.repeats = 1 THEN None ELSE d.once
              a == AirPacket(d, l)
  <2>1. e = [d EXCEPT !.state = "Tx", !.chip = "tx", !.callback = FALSE,
                      !.repeats = r, !.once = o, !.air = a]
    BY <1>1 DEF Handled, TransmitOneOf, Device
  <2>2. a.payload = IF d.once # None THEN d.once ELSE d.beacon
    BY DEF AirPacket
  <2>. HIDE DEF r, o, a, e
  <2>3. /\ e.queue = d.queue /\ e.state = "Tx" /\ e.air = a /\ e.repeats = r /\ e.once = o
        /\ e.beacon = d.beacon
    BY <2>1 DEF Device
  <2>. QED  BY <1>1, <2>2, <2>3 DEF Calls, r, o, a, e
<1>2. CASE m.type = "TryToReceive"
  <2>1. e = [d EXCEPT !.state = "Rx", !.chip = "rx", !.callback = TRUE]
    BY <1>2 DEF Handled
  <2>. QED  BY <2>1, <1>2 DEF Device, Disturbs, Calls
<1>3. CASE m.type = "TryToSleep"
  <2>1. e = [d EXCEPT !.state = "Idle", !.chip = "idle"]
    BY <1>3 DEF Handled
  <2>. QED  BY <2>1, <1>3 DEF Device, Disturbs, Calls
<1>4. CASE m.type = "PacketReceived"
  <2>1. e = [d EXCEPT !.state = "Idle"]
    BY <1>4 DEF Handled
  <2>. QED  BY <2>1, <1>4 DEF Device, Disturbs, Calls
<1>5. CASE m.type = "SetBeacon"
  <2>1. e = [d EXCEPT !.beacon = Beacon]
    BY <1>5 DEF Handled, MessageOK
  <2>. QED  BY <2>1, <1>5 DEF Device, Disturbs, Calls
<1>6. CASE m.type = "ClearBeacon"
  <2>1. e = [d EXCEPT !.beacon = None]
    BY <1>6 DEF Handled
  <2>. QED  BY <2>1, <1>6 DEF Device, Disturbs, Calls
<1>7. CASE m.type = "TransmitOnce"
  <2>1. e = [d EXCEPT !.once = m.packet, !.repeats = RCYCLE_CNT + 1]
    BY <1>7 DEF Handled, AcceptOnce
  <2>. QED  BY <2>1, <1>7 DEF Device, Disturbs, Calls
<1>. QED
  BY <1>1, <1>2, <1>3, <1>4, <1>5, <1>6, <1>7 DEF MessageOK, Message

\* What does not change when only the queue, the chip or the time does.
SameOffer(e, d) == /\ e.once = d.once /\ e.repeats = d.repeats /\ e.beacon = d.beacon
                   /\ e.air = d.air

LEMMA SendIs ==
  ASSUME NEW d \in Device, NEW type, NEW p, [type |-> type, packet |-> p] \in Message
  PROVE  LET e == SendNowOrExit(d, type, p)
         IN  /\ e.queue = IF Len(d.queue) < QLen THEN Append(d.queue, [type |-> type, packet |-> p])
                          ELSE d.queue
             /\ e \in Device
             /\ e.state = d.state /\ e.chip = d.chip /\ SameTime(e, d) /\ SameOffer(e, d)
             /\ e.src = d.src /\ e.timeout = d.timeout
<1>1. Append(d.queue, [type |-> type, packet |-> p]) \in Seq(Message)
  BY Fields, AppendElements
<1>. DEFINE q == Append(d.queue, [type |-> type, packet |-> p])
<1>2. CASE Len(d.queue) < QLen
  <2>1. SendNowOrExit(d, type, p) = [d EXCEPT !.queue = q]
    BY <1>2 DEF SendNowOrExit
  <2>. HIDE DEF q
  <2>. DEFINE e == [d EXCEPT !.queue = q]
  <2>2. /\ e \in Device /\ e.queue = q /\ e.slot = d.slot /\ e.cycle = d.cycle
        /\ e.src = d.src /\ e.timeout = d.timeout /\ e.state = d.state /\ e.once = d.once
        /\ e.repeats = d.repeats /\ e.beacon = d.beacon /\ e.chip = d.chip /\ e.air = d.air
    BY <1>1, WithQueue DEF q
  <2>. HIDE DEF e
  <2>3. SendNowOrExit(d, type, p) = e
    BY <2>1 DEF e
  <2>. QED  BY <1>2, <2>2, <2>3 DEF SameTime, SameOffer, q
<1>3. CASE ~(Len(d.queue) < QLen)
  <2>1. SendNowOrExit(d, type, p) = d
    BY <1>3 DEF SendNowOrExit
  <2>. QED  BY <1>3, <2>1 DEF SameTime, SameOffer
<1>. QED  BY <1>2, <1>3

One(type) == <<[type |-> type, packet |-> None]>>

LEMMA SendFirst ==
  ASSUME NEW d \in Device, d.queue = <<>>, QLen >= 2,
         NEW type \in {"TryToReceive", "TryToTransmit", "TryToSleep", "PacketReceived"}
  PROVE  SendNowOrExit(d, type, None).queue = One(type)
<1>1. [type |-> type, packet |-> None] \in Message
  BY Messages DEF MessageOK
<1>2. Len(d.queue) < QLen
  <2>1. Len(d.queue) = 0 /\ QLen \in Nat
    BY BoundsAssumption
  <2>. QED  BY <2>1
<1>3. Append(<<>>, [type |-> type, packet |-> None]) = One(type)
  BY DEF One
<1>. QED  BY <1>1, <1>2, <1>3, SendIs

LEMMA ComesToListen ==
  ASSUME NEW d, d.queue \in {One("TryToReceive"), One("TryToReceive") \o One("TryToReceive")}
  PROVE  WillListen(d)
<1>1. CASE d.queue = One("TryToReceive")
  <2>1. Len(d.queue) = 1 /\ d.queue[1].type = "TryToReceive"
    BY <1>1 DEF One
  <2>. QED  BY <2>1 DEF WillListen, Disturbs
<1>2. CASE d.queue = One("TryToReceive") \o One("TryToReceive")
  <2>1. Len(d.queue) = 2 /\ d.queue[1].type = "TryToReceive" /\ d.queue[2].type = "TryToReceive"
    BY <1>2 DEF One
  <2>. QED  BY <2>1 DEF WillListen, Disturbs
<1>. QED  BY <1>1, <1>2

LEMMA ComesToRest ==
  ASSUME NEW d, NEW type \in Disturbs, d.queue \in {One(type), One("TryToReceive") \o One(type)}
  PROVE  WillRest(d)
<1>0. type # "TryToReceive"
  BY DEF Disturbs
<1>1. CASE d.queue = One(type)
  <2>1. Len(d.queue) = 1 /\ d.queue[1].type = type
    BY <1>1 DEF One
  <2>. QED  BY <2>1, <1>0 DEF WillRest
<1>2. CASE d.queue = One("TryToReceive") \o One(type)
  <2>1. Len(d.queue) = 2 /\ d.queue[2].type = type
    BY <1>2 DEF One
  <2>2. 2 \in 1..Len(d.queue) /\ \A k \in 2..Len(d.queue) : k = 2
    BY <2>1
  <2>. QED  BY <2>1, <2>2, <1>0 DEF WillRest
<1>. QED  BY <1>1, <1>2

\* The slot timer finds an empty queue; only a new supercycle leaves something in it.
LEMMA TimeIs ==
  ASSUME NEW d, Quiet(d), d.queue = <<>>, NEW l \in Lockets, QLen >= 2
  PROVE  LET t == IncTimeSlot(d, l)
         IN  /\ t \in Device /\ t.state = d.state /\ t.chip = d.chip /\ SameOffer(t, d)
             /\ t.queue \in {<<>>, One("TryToReceive")}
             /\ t.queue # <<>> => t.cycle = 0 /\ d.state # "Rx"
<1>. DEFINE t == IncTimeSlot(d, l)
<1>1. /\ d \in Device /\ d.slot \in 0..ID_MAX /\ d.cycle \in 0..RCYCLE_CNT - 1
      /\ ID_MAX \in Nat /\ RCYCLE_CNT \in Nat \ {0} /\ SCYCLES_TO_KEEP_TIMESRC \in Nat
  BY Fields, SlotsAssumption, BoundsAssumption DEF Quiet
<1>2. Quiet(t)
  BY TimeGoesOn
<1>3. CASE d.slot + 1 < RSLOT_CNT
  <2>1. t = [d EXCEPT !.slot = d.slot + 1]
    BY <1>1, <1>3 DEF IncTimeSlot, RSLOT_CNT
  <2>. QED  BY <1>1, <1>2, <2>1 DEF Quiet, Device, SameOffer
<1>4. CASE ~(d.slot + 1 < RSLOT_CNT) /\ d.cycle + 1 < RCYCLE_CNT
  <2>1. t = [d EXCEPT !.slot = 0, !.cycle = d.cycle + 1]
    BY <1>1, <1>4 DEF IncTimeSlot, RSLOT_CNT
  <2>. QED  BY <1>1, <1>2, <2>1 DEF Quiet, Device, SameOffer
<1>5. CASE ~(d.slot + 1 < RSLOT_CNT) /\ ~(d.cycle + 1 < RCYCLE_CNT)
  <2>. DEFINE z == [d EXCEPT !.slot = 0, !.cycle = 0]
              s == ScheduleReception(z)
  <2>1. t = IF d.timeout >= SCYCLES_TO_KEEP_TIMESRC THEN [s EXCEPT !.src = l]
            ELSE [s EXCEPT !.timeout = s.timeout + 1]
    BY <1>1, <1>5 DEF IncTimeSlot, RSLOT_CNT, NewSupercycle
  <2>2. 0 \in 0..ID_MAX /\ 0 \in 0..RCYCLE_CNT - 1
    BY <1>1
  <2>3. /\ z \in Device /\ z.queue = <<>> /\ z.state = d.state /\ z.chip = d.chip /\ SameOffer(z, d)
        /\ z.cycle = 0
    BY <1>1, <2>2 DEF Device, SameOffer
  <2>. HIDE DEF z
  <2>4. /\ s \in Device /\ s.state = d.state /\ s.chip = d.chip /\ SameOffer(s, d) /\ s.cycle = 0
        /\ s.queue \in {<<>>, One("TryToReceive")} /\ (s.queue # <<>> => d.state # "Rx")
    <3>1. CASE z.state = "Rx"
      <4>1. s = z
        BY <3>1 DEF ScheduleReception
      <4>. QED  BY <2>3, <4>1
    <3>2. CASE z.state # "Rx"
      <4>1. s = SendNowOrExit(z, "TryToReceive", None)
        BY <3>2 DEF ScheduleReception
      <4>2. [type |-> "TryToReceive", packet |-> None] \in Message
        BY Messages DEF MessageOK
      <4>3. s \in Device /\ s.state = z.state /\ s.chip = z.chip /\ SameTime(s, z) /\ SameOffer(s, z)
        BY <2>3, <4>1, <4>2, SendIs
      <4>4. s.queue = One("TryToReceive")
        BY <2>3, <4>1, SendFirst
      <4>. QED  BY <2>3, <3>2, <4>3, <4>4 DEF SameTime, SameOffer
    <3>. QED  BY <3>1, <3>2
  <2>. HIDE DEF s
  <2>5. /\ t.state = s.state /\ t.chip = s.chip /\ SameOffer(t, s) /\ t.cycle = s.cycle
        /\ t.queue = s.queue
    BY <2>1, <2>4 DEF Device, SameOffer
  <2>6. SameOffer(t, d)
    BY <2>4, <2>5 DEF SameOffer
  <2>. HIDE DEF t
  <2>. QED  BY <1>2, <2>4, <2>5, <2>6 DEF Quiet, t
<1>. QED  BY <1>3, <1>4, <1>5

NoCalls(q) == \A n \in 1..Len(q) : q[n].type \notin Calls

\* What the slot timer brings: the own slot's transmission; in cycle 0
\* listening, if state_ is right; in other cycles rest.
LEMMA TimerBrings ==
  ASSUME NEW d, NEW l \in Lockets, DeviceOK(d, l), SlotOver(d), d.queue = <<>>, QLen >= 2
  PROVE  LET e == IOnTimerI(d, l)
         IN  /\ SameOffer(e, d) /\ NoCalls(e.queue)
             /\ e.slot = l => ~NoTransmit(e.queue)
             /\ e.slot = l \/ e.cycle # 0 => WillRest(e)
             /\ e.slot # l /\ e.cycle = 0 /\ NotDeaf(d) => WillListen(e)
<1>. DEFINE t == IncTimeSlot(d, l)
            e == IOnTimerI(d, l)
<1>1. Quiet(d)
  BY DEF DeviceOK, SlotOver, Quiet, AirOK
<1>2. /\ t \in Device /\ t.state = d.state /\ t.chip = d.chip /\ SameOffer(t, d)
      /\ t.queue \in {<<>>, One("TryToReceive")}
      /\ t.queue # <<>> => t.cycle = 0 /\ d.state # "Rx"
  BY <1>1, TimeIs
<1>3. e = (CASE t.slot = l -> ScheduleTransmission(t)
             [] t.slot # l /\ t.cycle = 0 -> ScheduleReception(t)
             [] OTHER -> ScheduleSleep(t))
  BY DEF IOnTimerI
<1>. HIDE DEF t
<1>4. ASSUME NEW type \in {"TryToReceive", "TryToTransmit", "TryToSleep"}, e = SendNowOrExit(t, type, None)
      PROVE  /\ e.queue = IF t.queue = <<>> THEN One(type) ELSE One("TryToReceive") \o One(type)
             /\ SameTime(e, t) /\ SameOffer(e, d) /\ NoCalls(e.queue)
  <2>1. [type |-> type, packet |-> None] \in Message
    BY Messages DEF MessageOK
  <2>2. Len(t.queue) < QLen
    <3>1. QLen \in Nat
      BY BoundsAssumption
    <3>2. Len(<<>>) = 0 /\ Len(One("TryToReceive")) = 1
      BY DEF One
    <3>. DEFINE places == Len(t.queue)
    <3>3. places = 0 \/ places = 1
      BY <1>2, <3>2
    <3>. HIDE DEF places
    <3>4. places < QLen
      BY <3>1, <3>3
    <3>. QED  BY <3>4 DEF places
  <2>3. e.queue = Append(t.queue, [type |-> type, packet |-> None])
        /\ SameTime(e, t) /\ SameOffer(e, t)
    <3>1. /\ SendNowOrExit(t, type, None).queue = Append(t.queue, [type |-> type, packet |-> None])
          /\ SameTime(SendNowOrExit(t, type, None), t) /\ SameOffer(SendNowOrExit(t, type, None), t)
      BY <1>2, <2>1, <2>2, SendIs
    <3>. QED  BY <1>4, <3>1
  <2>4. e.queue = IF t.queue = <<>> THEN One(type) ELSE One("TryToReceive") \o One(type)
    <3>1. CASE t.queue = <<>>
      BY <2>3, <3>1 DEF One
    <3>2. CASE t.queue = One("TryToReceive")
      <4>1. t.queue # <<>>
        BY <3>2 DEF One
      <4>2. Append(One("TryToReceive"), [type |-> type, packet |-> None]) = One("TryToReceive") \o One(type)
        BY DEF One
      <4>. QED  BY <2>3, <3>2, <4>1, <4>2
    <3>. QED  BY <1>2, <3>1, <3>2
  <2>5. NoCalls(One(type)) /\ NoCalls(One("TryToReceive") \o One(type))
    <3>1. type \notin Calls /\ "TryToReceive" \notin Calls
      BY DEF Calls
    <3>2. Len(One(type)) = 1 /\ One(type)[1].type = type
      BY DEF One
    <3>. DEFINE q == One("TryToReceive") \o One(type)
    <3>3. Len(q) = 2 /\ q[1].type = "TryToReceive" /\ q[2].type = type
      BY DEF One
    <3>. HIDE DEF q
    <3>4. \A n \in 1..2 : n = 1 \/ n = 2
      OBVIOUS
    <3>5. NoCalls(q)
      BY <3>1, <3>3, <3>4 DEF NoCalls
    <3>6. NoCalls(One(type))
      BY <3>1, <3>2 DEF NoCalls
    <3>. QED  BY <3>5, <3>6 DEF q
  <2>. QED  BY <1>2, <2>3, <2>4, <2>5 DEF SameOffer
<1>5. ASSUME e = t, t.queue = <<>>
      PROVE  SameTime(e, t) /\ SameOffer(e, d) /\ NoCalls(e.queue)
  BY <1>2, <1>5 DEF SameTime, NoCalls
<1>. HIDE DEF e
<1>6. CASE t.slot = l
  <2>1. e = SendNowOrExit(t, "TryToTransmit", None)
    BY <1>3, <1>6 DEF ScheduleTransmission
  <2>2. e.queue \in {One("TryToTransmit"), One("TryToReceive") \o One("TryToTransmit")}
        /\ SameTime(e, t) /\ SameOffer(e, d) /\ NoCalls(e.queue)
    BY <1>4, <2>1
  <2>3. WillRest(e)
    BY <2>2, ComesToRest DEF Disturbs
  <2>4. ~NoTransmit(e.queue)
    <3>1. CASE e.queue = One("TryToTransmit")
      BY <3>1 DEF One, NoTransmit
    <3>2. CASE e.queue = One("TryToReceive") \o One("TryToTransmit")
      <4>1. Len(e.queue) = 2 /\ e.queue[2].type = "TryToTransmit"
        BY <3>2 DEF One
      <4>. QED  BY <4>1 DEF NoTransmit
    <3>. QED  BY <2>2, <3>1, <3>2
  <2>. QED  BY <1>6, <2>2, <2>3, <2>4 DEF SameTime, e
<1>7. CASE t.slot # l /\ t.cycle = 0
  <2>1. CASE t.state # "Rx"
    <3>1. e = SendNowOrExit(t, "TryToReceive", None)
      BY <1>3, <1>7, <2>1 DEF ScheduleReception
    <3>2. e.queue \in {One("TryToReceive"), One("TryToReceive") \o One("TryToReceive")}
          /\ SameTime(e, t) /\ SameOffer(e, d) /\ NoCalls(e.queue)
      BY <1>4, <3>1
    <3>3. WillListen(e)
      BY <3>2, ComesToListen
    <3>. QED  BY <1>7, <3>2, <3>3 DEF SameTime, e
  <2>2. CASE t.state = "Rx"
    <3>1. e = t /\ t.queue = <<>>
      BY <1>2, <1>3, <1>7, <2>2 DEF ScheduleReception
    <3>2. SameTime(e, t) /\ SameOffer(e, d) /\ NoCalls(e.queue)
      BY <1>5, <3>1
    <3>3. NotDeaf(d) => WillListen(e)
      BY <1>2, <2>2, <3>1, AtRest DEF NotDeaf
    <3>. QED  BY <1>7, <3>2, <3>3 DEF SameTime, e
  <2>. QED  BY <2>1, <2>2
<1>8. CASE t.slot # l /\ t.cycle # 0
  <2>0. t.queue = <<>> /\ e = ScheduleSleep(t)
    BY <1>2, <1>3, <1>8
  <2>1. CASE t.state # "Idle"
    <3>1. e = SendNowOrExit(t, "TryToSleep", None)
      BY <2>0, <2>1 DEF ScheduleSleep
    <3>2. e.queue = One("TryToSleep")
          /\ SameTime(e, t) /\ SameOffer(e, d) /\ NoCalls(e.queue)
      BY <1>4, <2>0, <3>1
    <3>3. WillRest(e)
      BY <3>2, ComesToRest DEF Disturbs
    <3>. QED  BY <1>8, <3>2, <3>3 DEF SameTime, e
  <2>2. CASE t.state = "Idle"
    <3>1. e = t
      BY <2>0, <2>2 DEF ScheduleSleep
    <3>2. SameTime(e, t) /\ SameOffer(e, d) /\ NoCalls(e.queue)
      BY <1>5, <2>0, <3>1
    <3>3. WillRest(e)
      BY <2>0, <2>2, <3>1, AtRest
    <3>. QED  BY <1>8, <3>2, <3>3 DEF SameTime, e
  <2>. QED  BY <2>1, <2>2
<1>. QED  BY <1>6, <1>7, <1>8

\* Whoever was to rest still will after an end of packet, and a packet that is
\* not empty makes its hearer rest.
LEMMA ListenerIs ==
  ASSUME NEW d, NEW l \in Lockets, NEW m, NEW good \in BOOLEAN,
         DeviceOK(d, l), d.queue = <<>>, d.air = None, good => m \in FullRadioPacket, QLen >= 2
  PROVE  LET e == RxIrq(d, m, good)
         IN  /\ SameOffer(e, d) /\ NoCalls(e.queue)
             /\ WillRest(d) => WillRest(e)
             /\ good /\ m.payload # None => WillRest(e)
<1>. DEFINE a == IF good THEN AdjustI(d, m) ELSE d
            n == IF good /\ m.payload # None THEN SendNowOrExit(a, "PacketReceived", None) ELSE a
            e == RxIrq(d, m, good)
<1>1. d \in Device
  BY DEF DeviceOK
<1>2. a \in Device /\ a.queue = <<>> /\ a.state = d.state /\ SameOffer(a, d)
  <2>1. CASE good /\ m.src <= d.src
    <3>1. m.ID \in 0..ID_MAX /\ m.cycle \in 0..RCYCLE_CNT - 1 /\ m.src \in Lockets
          /\ 0 \in 0..SCYCLES_TO_KEEP_TIMESRC
      <4>1. m \in FullRadioPacket /\ SCYCLES_TO_KEEP_TIMESRC \in Nat
        BY <2>1, BoundsAssumption
      <4>2. m.ID \in Lockets /\ m.src \in Lockets /\ m.cycle \in 0..RCYCLE_CNT - 1
        BY <4>1 DEF FullRadioPacket
      <4>3. m.ID \in 0..ID_MAX
        BY <4>2, SlotsAssumption
      <4>4. 0 \in 0..SCYCLES_TO_KEEP_TIMESRC
        BY <4>1
      <4>. QED  BY <4>2, <4>3, <4>4
    <3>2. a = [d EXCEPT !.cycle = m.cycle, !.slot = m.ID, !.src = m.src, !.timeout = 0]
      BY <2>1 DEF AdjustI
    <3>. QED  BY <1>1, <3>1, <3>2 DEF Device, SameOffer
  <2>2. CASE ~(good /\ m.src <= d.src)
    <3>1. a = d
      BY <2>2 DEF AdjustI
    <3>. QED  BY <1>1, <3>1 DEF SameOffer
  <2>. QED  BY <2>1, <2>2
<1>. HIDE DEF a
<1>3. /\ n \in Device /\ n.state = d.state /\ SameOffer(n, d)
      /\ n.queue = IF good /\ m.payload # None THEN One("PacketReceived") ELSE <<>>
  <2>1. CASE good /\ m.payload # None
    <3>1. [type |-> "PacketReceived", packet |-> None] \in Message
      BY Messages DEF MessageOK
    <3>2. n = SendNowOrExit(a, "PacketReceived", None)
      BY <2>1
    <3>3. n \in Device /\ n.state = a.state /\ SameOffer(n, a)
      BY <1>2, <3>1, <3>2, SendIs
    <3>4. n.queue = One("PacketReceived")
      BY <1>2, <3>2, SendFirst
    <3>. QED  BY <1>2, <2>1, <3>3, <3>4 DEF SameOffer
  <2>2. CASE ~(good /\ m.payload # None)
    BY <1>2, <2>2
  <2>. QED  BY <2>1, <2>2
<1>4. e = [n EXCEPT !.callback = FALSE, !.chip = "idle"]
  BY DEF RxIrq, a
<1>. HIDE DEF n, e
<1>5. e.queue = n.queue /\ e.state = n.state /\ SameOffer(e, n)
  BY <1>3, <1>4 DEF Device, SameOffer
<1>6. SameOffer(e, d)
  BY <1>3, <1>5 DEF SameOffer
<1>7. CASE good /\ m.payload # None
  <2>1. e.queue = One("PacketReceived")
    BY <1>3, <1>5, <1>7
  <2>2. WillRest(e)
    BY <2>1, ComesToRest DEF Disturbs
  <2>3. NoCalls(e.queue)
    <3>1. Len(e.queue) = 1 /\ e.queue[1].type = "PacketReceived"
      BY <2>1 DEF One
    <3>. QED  BY <3>1 DEF NoCalls, Calls
  <2>. QED  BY <1>6, <2>2, <2>3 DEF e
<1>8. CASE ~(good /\ m.payload # None)
  <2>1. e.queue = <<>>
    BY <1>3, <1>5, <1>8
  <2>2. WillRest(d) => WillRest(e)
    BY <1>3, <1>5, <2>1, AtRest
  <2>3. NoCalls(e.queue)
    BY <2>1 DEF NoCalls
  <2>. QED  BY <1>6, <1>8, <2>2, <2>3 DEF e
<1>. QED  BY <1>7, <1>8

-----------------------------------------------------------------------------
(* Where a packet is on its way.                                           *)

\* How many transmissions of l are left up to that in the next cycle 0 which
\* begins after now; Due counts the one of the present cycle.
Due(d, l)  == IF d.slot < l \/ ~NoTransmit(d.queue) THEN 1 ELSE 0
Left(d, l) == Due(d, l) + RCYCLE_CNT - d.cycle
AtEnd(d)   == d.slot = ID_MAX /\ d.cycle = RCYCLE_CNT - 1

\* It waits for a cycle 0 and has repeats enough, even if it must wait for
\* the one after the next because somebody begins the next one deaf;
Waits(p, l) ==
    /\ dev[l].once = p /\ dev[l].repeats >= Left(dev[l], l)
    /\ AtEnd(dev[l]) => \/ dev[l].repeats >= RCYCLE_CNT + 1
                        \/ \A r \in Lockets : WillRest(dev[r])
\* or such a cycle 0 is under way, its slot still to come;
Comes(p, l) ==
    /\ dev[l].once = p /\ dev[l].cycle = 0 /\ Due(dev[l], l) = 1
    /\ \A r \in Lockets \ {l} : /\ NotDeaf(dev[r])
                                /\ open /\ dev[r].slot # r => WillListen(dev[r])
\* or it is on the air and everybody listens;
OnAir(p, l) ==
    /\ dev[l].air # None /\ dev[l].air.payload = p
    /\ \A r \in Lockets \ {l} : WillListen(dev[r])
\* or everybody has heard it.
HeardBy(p, l) == \A r \in Lockets \ {l} : <<r, p>> \in heard

OnItsWay(p, l) == Waits(p, l) \/ Comes(p, l) \/ OnAir(p, l) \/ HeardBy(p, l)
BeaconsFirst(l) == \A k \in Lockets : k < l => dev[k].beacon # None

\* A beacon is never on the air as an empty packet; a TransmitOnce waits where
\* it was given; outside cycle 0 every slot puts the others to rest.
BeaconSent(d) == d.air # None /\ d.beacon # None => d.air.payload # None
FromOwner(q, l) == \A n \in 1..Len(q) : q[n].type = "TransmitOnce" => given[q[n].packet] = l
RestsOutside == open => \A r \in on : dev[r].cycle # 0 => WillRest(dev[r])

Base == /\ \A l \in Lockets : BeaconSent(dev[l]) /\ FromOwner(dev[l].queue, l)
        /\ RestsOutside
        /\ clean # {} => AllInStep

Cared(p) == \E l \in Lockets : l = given[p] /\ BeaconsFirst(l) /\ OnItsWay(p, l)

WayInv == Base /\ \A p \in clean : Cared(p)

\* What the other Lockets' steps and the calls leave as it is.
Kept(e, d) == /\ SameTime(e, d)
              /\ WillListen(d) => WillListen(e)
              /\ WillRest(d) => WillRest(e)

LEMMA WayKept ==
  ASSUME NEW p, NEW l \in Lockets, OnItsWay(p, l),
         \A r \in Lockets : Kept(dev'[r], dev[r]),
         dev'[l].once = dev[l].once, dev'[l].repeats = dev[l].repeats, dev'[l].air = dev[l].air,
         NoTransmit(dev'[l].queue) <=> NoTransmit(dev[l].queue), open' = open, heard' = heard
  PROVE  OnItsWay(p, l)'
<1>1. /\ dev'[l].once = dev[l].once /\ dev'[l].repeats = dev[l].repeats /\ dev'[l].air = dev[l].air
      /\ dev'[l].slot = dev[l].slot /\ dev'[l].cycle = dev[l].cycle
  BY DEF Kept, SameTime
<1>2. Due(dev'[l], l) = Due(dev[l], l)
  BY <1>1 DEF Due
<1>3. Left(dev'[l], l) = Left(dev[l], l) /\ (AtEnd(dev'[l]) <=> AtEnd(dev[l]))
  BY <1>1, <1>2 DEF Left, AtEnd
<1>4. \A r \in Lockets : /\ WillRest(dev[r]) => WillRest(dev'[r])
                         /\ WillListen(dev[r]) => WillListen(dev'[r])
                         /\ dev'[r].slot = dev[r].slot
  BY DEF Kept, SameTime
<1>5. CASE Waits(p, l)
  <2>1. Waits(p, l)'
    BY <1>1, <1>3, <1>4, <1>5 DEF Waits
  <2>. QED  BY <2>1 DEF OnItsWay
<1>6. CASE Comes(p, l)
  <2>1. \A r \in Lockets : NotDeaf(dev[r]) => NotDeaf(dev'[r])
    BY <1>4 DEF NotDeaf
  <2>2. Comes(p, l)'
    BY <1>1, <1>2, <1>4, <1>6, <2>1 DEF Comes
  <2>. QED  BY <2>2 DEF OnItsWay
<1>7. CASE OnAir(p, l)
  <2>1. OnAir(p, l)'
    BY <1>1, <1>4, <1>7 DEF OnAir
  <2>. QED  BY <2>1 DEF OnItsWay
<1>8. CASE HeardBy(p, l)
  <2>1. HeardBy(p, l)'
    BY <1>8 DEF HeardBy
  <2>. QED  BY <2>1 DEF OnItsWay
<1>. QED  BY <1>5, <1>6, <1>7, <1>8 DEF OnItsWay

LEMMA BaseKept ==
  ASSUME IInv, Base, \A r \in Lockets : Kept(dev'[r], dev[r]), on' = on, open' = open
  PROVE  RestsOutside' /\ (AllInStep => AllInStep')
<1>1. \A r \in Lockets : /\ dev'[r].slot = dev[r].slot /\ dev'[r].cycle = dev[r].cycle
                         /\ WillRest(dev[r]) => WillRest(dev'[r])
  BY DEF Kept, SameTime
<1>2. on \subseteq Lockets
  BY DEF IInv
<1>. QED  BY <1>1, <1>2 DEF Base, RestsOutside, AllInStep, InStep

LEMMA SendWay ==
  ASSUME IInv, WayInv, NEW k \in Lockets, NEW type \in Calls, NEW p,
         MessageOK([type |-> type, packet |-> p]), Send(k, type, p),
         type = "TransmitOnce" => given'[p] = k,
         \A q \in Packets : given[q] \in Lockets => given'[q] = given[q]
  PROVE  WayInv'
<1>. DEFINE m == [type |-> type, packet |-> p]
            d == dev[k]
            h == SendNowOrExit(d, type, p)
<1>1. /\ dev' = [dev EXCEPT ![k] = h] /\ UNCHANGED <<on, open, heard, clean>>
  BY DEF Send
<1>2. DeviceOK(d, k) /\ d \in Device /\ dev \in [Lockets -> Device]
  BY DEF IInv, DeviceOK
<1>3. m \in Message /\ m.type = type /\ m.packet = p
  BY DEF MessageOK
<1>4. /\ h.queue = IF Len(d.queue) < QLen THEN Append(d.queue, m) ELSE d.queue
      /\ h.state = d.state /\ h.chip = d.chip /\ SameTime(h, d) /\ SameOffer(h, d)
  BY <1>2, <1>3, SendIs
<1>5. d.queue \in Seq(Message)
  BY <1>2, Fields
<1>6. dev'[k] = h /\ \A r \in Lockets : r # k => dev'[r] = dev[r]
  BY <1>1, <1>2
<1>. HIDE DEF h, m
<1>7. AddsCall(h, d, m)
  BY <1>3, <1>4, <1>5 DEF AddsCall
<1>8. Kept(h, d) /\ (NoTransmit(h.queue) <=> NoTransmit(d.queue))
  BY <1>4, <1>7, CallAdded DEF Kept
<1>9. \A r \in Lockets : /\ Kept(dev'[r], dev[r]) /\ SameOffer(dev'[r], dev[r])
                         /\ NoTransmit(dev'[r].queue) <=> NoTransmit(dev[r].queue)
  BY <1>4, <1>6, <1>8 DEF Kept, SameTime, SameOffer
<1>10. Base'
  <2>1. RestsOutside' /\ (AllInStep => AllInStep')
    BY <1>1, <1>9, BaseKept DEF WayInv
  <2>2. \A r \in Lockets : BeaconSent(dev'[r])
    BY <1>9 DEF WayInv, Base, BeaconSent, SameOffer
  <2>3. ASSUME NEW r \in Lockets PROVE FromOwner(dev[r].queue, r)'
    <3>1. \A n \in 1..Len(dev[r].queue) :
             dev[r].queue[n].type = "TransmitOnce" => given'[dev[r].queue[n].packet] = r
      <4>1. QueueOK(dev[r].queue) /\ FromOwner(dev[r].queue, r)
        BY DEF IInv, WayInv, Base, DeviceOK
      <4>2. ASSUME NEW n \in 1..Len(dev[r].queue), dev[r].queue[n].type = "TransmitOnce"
            PROVE  given'[dev[r].queue[n].packet] = r
        <5>1. dev[r].queue[n].packet \in Packets /\ given[dev[r].queue[n].packet] = r
          BY <4>1, <4>2 DEF QueueOK, MessageOK, FromOwner
        <5>. QED  BY <5>1
      <4>. QED  BY <4>2
    <3>2. CASE r # k \/ h.queue = d.queue
      BY <1>6, <3>1, <3>2 DEF FromOwner
    <3>3. CASE r = k /\ h.queue = Append(d.queue, m)
      <4>1. /\ Len(h.queue) = Len(d.queue) + 1 /\ h.queue[Len(d.queue) + 1] = m /\ Len(d.queue) \in Nat
            /\ \A n \in 1..Len(d.queue) : h.queue[n] = d.queue[n]
        BY <1>3, <1>5, <3>3, AppendElements
      <4>2. \A n \in 1..Len(h.queue) : n \in 1..Len(d.queue) \/ n = Len(d.queue) + 1
        BY <4>1
      <4>3. m.type = "TransmitOnce" => given'[m.packet] = k
        BY <1>3
      <4>. QED  BY <1>6, <3>1, <3>3, <4>1, <4>2, <4>3 DEF FromOwner
    <3>. QED  BY <1>4, <3>2, <3>3
  <2>. QED  BY <1>1, <2>1, <2>2, <2>3 DEF Base, WayInv
<1>11. ASSUME NEW q \in clean'
       PROVE  Cared(q)'
  <2>1. PICK l \in Lockets : l = given[q] /\ given'[q] = l /\ BeaconsFirst(l) /\ OnItsWay(q, l)
    BY <1>1 DEF WayInv, IInv, Cared
  <2>2. OnItsWay(q, l)'
    BY <1>1, <1>9, <2>1, WayKept DEF SameOffer
  <2>3. BeaconsFirst(l)'
    BY <1>9, <2>1 DEF BeaconsFirst, SameOffer
  <2>. QED  BY <2>1, <2>2, <2>3 DEF Cared
<1>. QED  BY <1>10, <1>11 DEF WayInv

LEMMA MainCallWay ==
  ASSUME IInv, WayInv, NEW k \in Lockets, MainCall(k)
  PROVE  WayInv'
<1>1. given \in [Packets -> Lockets \cup {None}] /\ None \notin Lockets
  BY NoneAssumption DEF IInv
<1>2. ASSUME NEW p \in Packets, TransmitOnce(k, p)
      PROVE  WayInv'
  <2>1. MessageOK([type |-> "TransmitOnce", packet |-> p])
    BY DEF MessageOK, Message, Payloads
  <2>2. given'[p] = k /\ Send(k, "TransmitOnce", p)
        /\ \A q \in Packets : given[q] \in Lockets => given'[q] = given[q]
    BY <1>1, <1>2 DEF TransmitOnce
  <2>. QED  BY <2>1, <2>2, SendWay DEF Calls
<1>3. CASE SetBeaconPacketTo(k)
  <2>1. MessageOK([type |-> "SetBeacon", packet |-> Beacon])
    BY DEF MessageOK, Message, Payloads
  <2>2. given' = given /\ Send(k, "SetBeacon", Beacon)
    BY <1>3 DEF SetBeaconPacketTo
  <2>. QED  BY <2>1, <2>2, SendWay DEF Calls
<1>4. CASE ClearBeaconPacket(k)
  <2>1. MessageOK([type |-> "ClearBeacon", packet |-> None])
    BY DEF MessageOK, Message, Payloads
  <2>2. given' = given /\ Send(k, "ClearBeacon", None)
    BY <1>4 DEF ClearBeaconPacket
  <2>. QED  BY <2>1, <2>2, SendWay DEF Calls
<1>. QED  BY <1>2, <1>3, <1>4 DEF MainCall

LEMMA BootWay ==
  ASSUME IInv, WayInv, NEW k \in Lockets, Boot(k)
  PROVE  WayInv'
<1>1. /\ ~open' /\ dev' = [dev EXCEPT ![k] = Booted(k)] /\ clean' = {} /\ given' = given
  BY DEF Boot
<1>2. dev'[k] = Booted(k) /\ \A r \in Lockets : r # k => dev'[r] = dev[r]
  BY <1>1 DEF IInv
<1>3. ASSUME NEW r \in Lockets
      PROVE  BeaconSent(dev[r])' /\ FromOwner(dev[r].queue, r)'
  <2>1. CASE r = k
    <3>1. dev'[r].queue = <<>> /\ dev'[r].air = None /\ Len(<<>>) = 0
      BY <1>2, <2>1 DEF Booted
    <3>. QED  BY <3>1 DEF BeaconSent, FromOwner
  <2>2. CASE r # k
    <3>1. dev'[r] = dev[r] /\ BeaconSent(dev[r]) /\ FromOwner(dev[r].queue, r)
      BY <1>2, <2>2 DEF WayInv, Base
    <3>. QED  BY <1>1, <3>1 DEF BeaconSent, FromOwner
  <2>. QED  BY <2>1, <2>2
<1>. QED  BY <1>1, <1>3 DEF WayInv, Base, RestsOutside

\* What the thread of k makes of its Locket.
ThreadStep(e, d, k, m) ==
    /\ TakesHead(e, d) /\ m = Head(d.queue) /\ Kept(e, d)
    /\ m.type # "TryToTransmit" =>
         /\ e.air = None
         /\ NoTransmit(e.queue) <=> NoTransmit(d.queue)
    /\ m.type = "TryToTransmit" =>
         /\ e.air # None /\ e.air.payload = IF d.once # None THEN d.once ELSE d.beacon
         /\ e.repeats = IF d.once # None THEN d.repeats - 1 ELSE d.repeats
         /\ e.once = IF d.once # None /\ d.repeats = 1 THEN None ELSE d.once
         /\ d.slot = k /\ ~NoTransmit(d.queue) /\ NoTransmit(e.queue)
    /\ m.type = "TransmitOnce" => e.once = m.packet /\ e.repeats = RCYCLE_CNT + 1
    /\ m.type \notin {"TryToTransmit", "TransmitOnce"} => e.once = d.once /\ e.repeats = d.repeats
    /\ m.type = "SetBeacon" => e.beacon = Beacon
    /\ m.type \notin {"SetBeacon", "ClearBeacon"} => e.beacon = d.beacon

LEMMA ThreadDoes ==
  ASSUME NEW d, NEW k \in Lockets, DeviceOK(d, k), d.queue # <<>>, d.air = None
  PROVE  ThreadStep(Handled(Fetched(d), k, Head(d.queue)), d, k, Head(d.queue))
<1>. DEFINE m == Head(d.queue)
            t == Fetched(d)
            e == Handled(t, k, m)
            q == Tail(d.queue)
<1>1. d \in Device /\ d.queue \in Seq(Message)
  BY Fields DEF DeviceOK
<1>2. /\ q \in Seq(Message) /\ Len(q) = Len(d.queue) - 1 /\ Len(d.queue) \in Nat /\ Len(d.queue) > 0
      /\ \A n \in 1..(Len(d.queue) - 1) : q[n] = d.queue[n + 1]
      /\ m = d.queue[1]
  BY <1>1, TailElements
<1>3. /\ DeviceOK(t, k) /\ t.air = None /\ MessageOK(m) /\ SameTime(t, d)
      /\ m.type = "TryToTransmit" => NoTransmit(t.queue) /\ t.slot = k
  BY TakesFirst
<1>4. t = [d EXCEPT !.queue = q]
  BY DEF Fetched
<1>. HIDE DEF t, m, q
<1>5. /\ t \in Device /\ t.queue = q /\ t.state = d.state /\ t.once = d.once
      /\ t.repeats = d.repeats /\ t.beacon = d.beacon /\ t.chip = d.chip /\ t.slot = d.slot
  BY <1>1, <1>2, <1>4, WithQueue
<1>. DEFINE f == AirPacket(t, k)
<1>6. f # None
  <2>1. f \in FullRadioPacket
    BY <1>5, Fields DEF AirPacket, FullRadioPacket, Payloads
  <2>. QED  BY <2>1, NoneAssumption
<1>. HIDE DEF f
<1>7. /\ e.queue = q
      /\ m.type = "TryToReceive" => e.state = "Rx" /\ e.chip = "rx"
      /\ m.type \in Disturbs => e.state # "Rx"
      /\ m.type \in Calls => e.state = d.state /\ e.chip = d.chip
      /\ m.type # "TryToTransmit" => e.air = None
      /\ m.type = "TryToTransmit" =>
           /\ e.air # None => e.air.payload = IF d.once # None THEN d.once ELSE d.beacon
           /\ e.air = f
           /\ e.repeats = IF d.once # None THEN d.repeats - 1 ELSE d.repeats
           /\ e.once = IF d.once # None /\ d.repeats = 1 THEN None ELSE d.once
      /\ m.type = "TransmitOnce" => e.once = m.packet /\ e.repeats = RCYCLE_CNT + 1
      /\ m.type \notin {"TryToTransmit", "TransmitOnce"} => e.once = d.once /\ e.repeats = d.repeats
      /\ m.type = "SetBeacon" => e.beacon = Beacon
      /\ m.type \notin {"SetBeacon", "ClearBeacon"} => e.beacon = d.beacon
  <2>1. /\ e.queue = t.queue
        /\ m.type = "TryToReceive" => e.state = "Rx" /\ e.chip = "rx"
        /\ m.type \in Disturbs => e.state # "Rx"
        /\ m.type \in Calls => e.state = t.state /\ e.chip = t.chip
        /\ m.type # "TryToTransmit" => e.air = t.air
        /\ m.type = "TryToTransmit" =>
             /\ e.air # None => e.air.payload = IF t.once # None THEN t.once ELSE t.beacon
             /\ e.air = f
             /\ e.repeats = IF t.once # None THEN t.repeats - 1 ELSE t.repeats
             /\ e.once = IF t.once # None /\ t.repeats = 1 THEN None ELSE t.once
        /\ m.type = "TransmitOnce" => e.once = m.packet /\ e.repeats = RCYCLE_CNT + 1
        /\ m.type \notin {"TryToTransmit", "TransmitOnce"} =>
             e.once = t.once /\ e.repeats = t.repeats
        /\ m.type = "SetBeacon" => e.beacon = Beacon
        /\ m.type \notin {"SetBeacon", "ClearBeacon"} => e.beacon = t.beacon
    BY <1>3, <1>5, HandledIs DEF f
  <2>. HIDE DEF e
  <2>. QED  BY <2>1, <1>3, <1>5
<1>8. SameTime(e, d)
  <2>1. SameTime(e, t)
    BY <1>3, <1>5, HandlingKeeps
  <2>. HIDE DEF e
  <2>. QED  BY <1>3, <2>1 DEF SameTime
<1>. HIDE DEF e
<1>9. m.type \in Calls \cup Disturbs \cup {"TryToReceive"}
  BY <1>3 DEF MessageOK, Message, Calls, Disturbs
<1>10. TakesHead(e, d)
  BY <1>1, <1>7, <1>9 DEF TakesHead, m, q
<1>11. Kept(e, d)
  BY <1>8, <1>10, HeadTaken DEF Kept
<1>12. \A n \in 1..Len(d.queue) : n = 1 \/ (n - 1 \in 1..Len(q) /\ d.queue[n] = q[n - 1])
  BY <1>2
<1>13. \A n \in 1..Len(q) : n + 1 \in 1..Len(d.queue) /\ q[n] = d.queue[n + 1]
  BY <1>2
<1>14. m.type # "TryToTransmit" => (NoTransmit(e.queue) <=> NoTransmit(d.queue))
  BY <1>2, <1>7, <1>12, <1>13 DEF NoTransmit
<1>15. m.type = "TryToTransmit" => d.slot = k /\ ~NoTransmit(d.queue) /\ NoTransmit(e.queue)
  <2>1. 1 \in 1..Len(d.queue)
    BY <1>2
  <2>. QED  BY <1>2, <1>3, <1>5, <1>7, <2>1 DEF NoTransmit
<1>. QED  BY <1>6, <1>7, <1>10, <1>11, <1>14, <1>15 DEF ThreadStep, m, t, e

\* The own slot's transmission brings the packet one repeat further, or on the air.
LEMMA TransmitWay ==
  ASSUME IInv, Base, Enough, AllInStep, NEW l \in Lockets, NEW q \in Packets, OnItsWay(q, l),
         NEW e, NEW m, ThreadStep(e, dev[l], l, m), m.type = "TryToTransmit", dev[l].air = None,
         dev'[l] = e, \A r \in Lockets : Kept(dev'[r], dev[r]), open' = open, heard' = heard
  PROVE  OnItsWay(q, l)'
<1>. DEFINE d == dev[l]
<1>1. /\ e.air # None /\ e.air.payload = IF d.once # None THEN d.once ELSE d.beacon
      /\ e.repeats = IF d.once # None THEN d.repeats - 1 ELSE d.repeats
      /\ e.once = IF d.once # None /\ d.repeats = 1 THEN None ELSE d.once
      /\ d.slot = l /\ ~NoTransmit(d.queue) /\ NoTransmit(e.queue)
      /\ e.slot = d.slot /\ e.cycle = d.cycle
  BY DEF ThreadStep, Kept, SameTime
<1>2. q # None
  BY PayloadAssumption
<1>3. /\ RCYCLE_CNT \in Nat /\ RCYCLE_CNT >= 2 /\ d.cycle \in 0..RCYCLE_CNT - 1
      /\ d.repeats \in 0..RCYCLE_CNT + 1 /\ l \in Nat
  <2>1. d \in Device
    BY DEF IInv, DeviceOK
  <2>2. l \in 0..ID_MAX
    BY SlotsAssumption
  <2>. QED  BY <2>1, <2>2, Fields, SlotsAssumption DEF Enough
<1>4. open
  BY <1>1 DEF IInv, SlotOver
<1>5. Due(d, l) = 1 /\ Due(e, l) = 0
  BY <1>1, <1>3 DEF Due
<1>6. on = Lockets /\ \A r \in Lockets : dev[r].slot = d.slot /\ dev[r].cycle = d.cycle
  BY DEF AllInStep, InStep
<1>7. CASE Waits(q, l)
  <2>1. d.once = q /\ d.repeats >= 1 + RCYCLE_CNT - d.cycle
    BY <1>5, <1>7 DEF Waits, Left
  <2>2. d.repeats # 1 /\ d.repeats - 1 >= RCYCLE_CNT - d.cycle
    BY <1>3, <2>1
  <2>3. e.once = q /\ e.repeats >= Left(e, l)
    BY <1>1, <1>2, <1>3, <1>5, <2>1, <2>2 DEF Left
  <2>4. AtEnd(e) => \A r \in Lockets : WillRest(dev'[r])
    <3>1. AtEnd(e) => d.cycle # 0
      BY <1>1, <1>3 DEF AtEnd
    <3>2. d.cycle # 0 => \A r \in Lockets : WillRest(dev[r])
      BY <1>4, <1>6 DEF Base, RestsOutside
    <3>. QED  BY <3>1, <3>2 DEF Kept
  <2>5. Waits(q, l)'
    BY <2>3, <2>4 DEF Waits
  <2>. QED  BY <2>5 DEF OnItsWay
<1>8. CASE Comes(q, l)
  <2>1. e.air.payload = q
    BY <1>1, <1>2, <1>8 DEF Comes
  <2>2. \A r \in Lockets \ {l} : WillListen(dev'[r])
    BY <1>1, <1>4, <1>6, <1>8 DEF Comes, Kept
  <2>3. OnAir(q, l)'
    BY <1>1, <2>1, <2>2 DEF OnAir
  <2>. QED  BY <2>3 DEF OnItsWay
<1>9. CASE OnAir(q, l)
  BY <1>9 DEF OnAir
<1>10. CASE HeardBy(q, l)
  <2>1. HeardBy(q, l)'
    BY <1>10 DEF HeardBy
  <2>. QED  BY <2>1 DEF OnItsWay
<1>. QED  BY <1>7, <1>8, <1>9, <1>10 DEF OnItsWay

LEMMA ProcessEventWay ==
  ASSUME IInv, WayInv, Enough, NEW k \in Lockets, ProcessEvent(k)
  PROVE  WayInv'
<1>. DEFINE d == dev[k]
            m == Head(d.queue)
            h == Handled(Fetched(d), k, m)
<1>1. /\ k \in on /\ d.queue # <<>> /\ d.air = None
      /\ dev' = [dev EXCEPT ![k] = h]
      /\ UNCHANGED <<on, open, given, heard, boots, faults, calls>>
      /\ clean' = CASE m.type = "TransmitOnce" ->
                          {p \in clean : given[p] # k} \cup
                          {p \in {m.packet} : AllInStep /\ \A j \in on : j < k => dev[j].beacon # None}
                   [] m.type = "ClearBeacon" -> {}
                   [] OTHER -> clean
  BY DEF ProcessEvent
<1>2. DeviceOK(d, k) /\ d \in Device /\ dev \in [Lockets -> Device] /\ d.queue \in Seq(Message)
  BY Fields DEF IInv, DeviceOK
<1>3. ThreadStep(h, d, k, m)
  BY <1>1, <1>2, ThreadDoes
<1>4. dev'[k] = h /\ \A r \in Lockets : r # k => dev'[r] = dev[r]
  BY <1>1, <1>2
<1>. HIDE DEF h
<1>5. \A r \in Lockets : Kept(dev'[r], dev[r])
  BY <1>3, <1>4 DEF ThreadStep, Kept, SameTime
<1>6. RestsOutside' /\ (AllInStep => AllInStep')
  BY <1>1, <1>5, BaseKept DEF WayInv
<1>7. /\ Tail(d.queue) \in Seq(Message) /\ Len(Tail(d.queue)) = Len(d.queue) - 1
      /\ Len(d.queue) \in Nat /\ Len(d.queue) > 0 /\ m = d.queue[1]
      /\ \A n \in 1..(Len(d.queue) - 1) : Tail(d.queue)[n] = d.queue[n + 1]
      /\ h.queue = Tail(d.queue)
  BY <1>1, <1>2, <1>3, TailElements DEF ThreadStep, TakesHead
<1>8. MessageOK(m) /\ (m.type = "TransmitOnce" => given[m.packet] = k)
  <2>1. 1 \in 1..Len(d.queue)
    BY <1>7
  <2>. QED  BY <1>2, <1>7, <2>1 DEF DeviceOK, QueueOK, WayInv, Base, FromOwner
<1>. HIDE DEF m
<1>9. ASSUME NEW r \in Lockets
      PROVE  BeaconSent(dev[r])' /\ FromOwner(dev[r].queue, r)'
  <2>1. BeaconSent(dev[r]) /\ FromOwner(dev[r].queue, r)
    BY DEF WayInv, Base
  <2>2. CASE r # k
    BY <1>1, <1>4, <2>1, <2>2 DEF BeaconSent, FromOwner
  <2>3. CASE r = k
    <3>1. BeaconSent(h)
      <4>1. CASE m.type = "TryToTransmit"
        BY <1>3, <4>1 DEF ThreadStep, BeaconSent
      <4>2. CASE m.type # "TryToTransmit"
        BY <1>3, <4>2 DEF ThreadStep, BeaconSent
      <4>. QED  BY <4>1, <4>2
    <3>2. \A n \in 1..Len(h.queue) : n + 1 \in 1..Len(d.queue) /\ h.queue[n] = d.queue[n + 1]
      BY <1>7
    <3>3. \A n \in 1..Len(h.queue) : h.queue[n].type = "TransmitOnce" => given[h.queue[n].packet] = r
      BY <2>1, <2>3, <3>2 DEF FromOwner
    <3>. QED  BY <1>1, <1>4, <2>3, <3>1, <3>3 DEF BeaconSent, FromOwner
  <2>. QED  BY <2>2, <2>3
<1>10. clean' # {} => AllInStep
  BY <1>1 DEF WayInv, Base
<1>11. Base'
  BY <1>6, <1>9, <1>10 DEF Base
<1>12. ASSUME NEW q \in clean, m.type # "ClearBeacon", m.type = "TransmitOnce" => given[q] # k
       PROVE  Cared(q)'
  <2>1. PICK l \in Lockets : l = given[q] /\ BeaconsFirst(l) /\ OnItsWay(q, l)
    BY DEF WayInv, Cared
  <2>2. q \in Packets /\ AllInStep
    BY DEF IInv, WayInv, Base
  <2>3. BeaconsFirst(l)'
    <3>1. Beacon # None
      BY PayloadAssumption
    <3>2. \A j \in Lockets : dev'[j].beacon = dev[j].beacon \/ dev'[j].beacon = Beacon
      BY <1>3, <1>4, <1>12 DEF ThreadStep
    <3>. QED  BY <2>1, <3>1, <3>2 DEF BeaconsFirst
  <2>4. OnItsWay(q, l)'
    <3>1. CASE l # k
      <4>1. dev'[l] = dev[l]
        BY <1>4, <3>1
      <4>. QED  BY <1>1, <1>5, <2>1, <4>1, WayKept
    <3>2. CASE l = k /\ m.type # "TryToTransmit"
      <4>1. /\ h.once = d.once /\ h.repeats = d.repeats /\ h.air = d.air
            /\ NoTransmit(h.queue) <=> NoTransmit(d.queue)
        BY <1>1, <1>3, <1>12, <2>1, <3>2 DEF ThreadStep
      <4>. QED  BY <1>1, <1>4, <1>5, <2>1, <3>2, <4>1, WayKept
    <3>3. CASE l = k /\ m.type = "TryToTransmit"
      <4>1. dev'[l] = h /\ ThreadStep(h, dev[l], l, m) /\ dev[l].air = None
        BY <1>1, <1>3, <1>4, <3>3
      <4>. QED  BY <1>1, <1>5, <2>1, <2>2, <3>3, <4>1, TransmitWay DEF WayInv
    <3>. QED  BY <3>1, <3>2, <3>3
  <2>. QED  BY <1>1, <2>1, <2>3, <2>4 DEF Cared
<1>13. ASSUME NEW q, q = m.packet,
              m.type = "TransmitOnce", AllInStep, \A j \in on : j < k => dev[j].beacon # None
       PROVE  Cared(q)'
  <2>1. h.once = q /\ h.repeats = RCYCLE_CNT + 1 /\ h.beacon = d.beacon /\ SameTime(h, d)
    BY <1>3, <1>13 DEF ThreadStep, Kept
  <2>2. on = Lockets
    BY <1>13 DEF AllInStep
  <2>3. \A j \in Lockets : dev'[j].beacon = dev[j].beacon
    BY <1>4, <2>1
  <2>4. BeaconsFirst(k)'
    BY <1>13, <2>2, <2>3 DEF BeaconsFirst
  <2>5. h.repeats >= Left(h, k)
    <3>1. RCYCLE_CNT \in Nat /\ d.cycle \in 0..RCYCLE_CNT - 1
      BY <1>2, Fields, SlotsAssumption
    <3>2. h.cycle \in 0..RCYCLE_CNT - 1 /\ Due(h, k) \in 0..1
      BY <2>1, <3>1 DEF SameTime, Due
    <3>. QED  BY <2>1, <3>1, <3>2 DEF Left
  <2>6. RCYCLE_CNT + 1 >= RCYCLE_CNT + 1
    BY SlotsAssumption
  <2>7. Waits(q, k)'
    BY <1>4, <2>1, <2>5, <2>6 DEF Waits
  <2>8. given'[q] = k
    BY <1>1, <1>8, <1>13
  <2>. QED  BY <2>4, <2>7, <2>8 DEF Cared, OnItsWay
<1>14. ASSUME NEW q \in clean'
       PROVE  Cared(q)'
  <2>1. CASE m.type = "TransmitOnce"
    BY <1>1, <1>12, <1>13, <1>14, <2>1
  <2>2. CASE m.type = "ClearBeacon"
    BY <1>1, <1>14, <2>2
  <2>3. CASE m.type \notin {"TransmitOnce", "ClearBeacon"}
    BY <1>1, <1>12, <1>14, <2>3
  <2>. QED  BY <2>1, <2>2, <2>3
<1>. QED  BY <1>11, <1>14 DEF WayInv

LEMMA TickWay ==
  ASSUME IInv, WayInv, Enough, Tick
  PROVE  WayInv'
<1>1. /\ ~open /\ open' /\ UNCHANGED <<on, given, heard, clean, boots, faults, calls>>
      /\ dev' = [l \in Lockets |-> IF l \in on THEN IOnTimerI(dev[l], l) ELSE dev[l]]
      /\ \A l \in on : dev[l].queue = <<>>
  BY DEF Tick, Drained
<1>2. \A l \in Lockets : DeviceOK(dev[l], l) /\ SlotOver(dev[l]) /\ dev[l].queue = <<>>
  BY <1>1 DEF IInv
<1>3. QLen >= 2 /\ on \subseteq Lockets
  BY DEF Enough, IInv
<1>4. \A l \in on : dev'[l] = IOnTimerI(dev[l], l)
  BY <1>1, <1>3
<1>5. \A l \in Lockets : l \notin on => dev'[l] = dev[l]
  BY <1>1
<1>6. ASSUME NEW l \in on
      PROVE  /\ SameOffer(dev'[l], dev[l]) /\ NoCalls(dev'[l].queue)
             /\ dev'[l].slot = l => ~NoTransmit(dev'[l].queue)
             /\ dev'[l].slot = l \/ dev'[l].cycle # 0 => WillRest(dev'[l])
             /\ dev'[l].slot # l /\ dev'[l].cycle = 0 /\ NotDeaf(dev[l]) => WillListen(dev'[l])
  <2>. DEFINE e == IOnTimerI(dev[l], l)
  <2>1. /\ SameOffer(e, dev[l]) /\ NoCalls(e.queue)
        /\ e.slot = l => ~NoTransmit(e.queue)
        /\ e.slot = l \/ e.cycle # 0 => WillRest(e)
        /\ e.slot # l /\ e.cycle = 0 /\ NotDeaf(dev[l]) => WillListen(e)
    BY <1>2, <1>3, TimerBrings
  <2>. HIDE DEF e
  <2>2. dev'[l] = e
    BY <1>4 DEF e
  <2>. QED  BY <2>1, <2>2
<1>7. /\ IInv' /\ \A l \in on : dev'[l].slot = NextSlot(dev[l]) /\ dev'[l].cycle = NextCycle(dev[l])
  BY TickInv
<1>8. ASSUME NEW l \in Lockets
      PROVE  BeaconSent(dev[l])' /\ FromOwner(dev[l].queue, l)'
  <2>1. CASE l \in on
    <3>1. dev'[l].air = None
      BY <1>2, <1>6, <2>1 DEF SameOffer, SlotOver
    <3>2. NoCalls(dev'[l].queue)
      BY <1>6, <2>1
    <3>. QED  BY <3>1, <3>2 DEF BeaconSent, FromOwner, NoCalls, Calls
  <2>2. CASE l \notin on
    <3>1. dev'[l] = dev[l] /\ BeaconSent(dev[l]) /\ FromOwner(dev[l].queue, l)
      BY <1>5, <2>2 DEF WayInv, Base
    <3>. QED  BY <1>1, <3>1 DEF BeaconSent, FromOwner
  <2>. QED  BY <2>1, <2>2
<1>9. RestsOutside'
  BY <1>1, <1>6 DEF RestsOutside
<1>10. clean # {} => AllInStep /\ AllInStep'
  BY <1>1, StepKeepsTime DEF WayInv, Base, Next, Radio
<1>11. Base'
  BY <1>1, <1>8, <1>9, <1>10 DEF Base
<1>12. ASSUME NEW q \in clean
       PROVE  Cared(q)'
  <2>1. PICK l \in Lockets : l = given[q] /\ BeaconsFirst(l) /\ OnItsWay(q, l)
    BY DEF WayInv, Cared
  <2>2. on = Lockets /\ \A r \in Lockets : dev[r].slot = dev[l].slot /\ dev[r].cycle = dev[l].cycle
    BY <1>10 DEF AllInStep, InStep
  <2>. DEFINE d == dev[l]
              e == dev'[l]
  <2>3. /\ e.once = d.once /\ e.repeats = d.repeats
        /\ e.slot = NextSlot(d) /\ e.cycle = NextCycle(d)
    BY <1>6, <1>7, <2>2 DEF SameOffer
  <2>4. \A r \in Lockets : dev'[r].slot = e.slot /\ dev'[r].cycle = e.cycle
    BY <1>7, <2>2 DEF NextSlot, NextCycle
  <2>5. BeaconsFirst(l)'
    BY <1>6, <2>1, <2>2 DEF BeaconsFirst, SameOffer
  <2>6. /\ d.slot \in 0..ID_MAX /\ d.cycle \in 0..RCYCLE_CNT - 1 /\ l \in 0..ID_MAX
        /\ ID_MAX \in Nat /\ RCYCLE_CNT \in Nat /\ RCYCLE_CNT >= 2
    <3>1. d \in Device
      BY <1>2 DEF DeviceOK
    <3>. QED  BY <3>1, Fields, SlotsAssumption DEF Enough
  <2>7. Due(d, l) = IF d.slot < l THEN 1 ELSE 0
    <3>1. NoTransmit(d.queue)
      BY <1>2 DEF SlotOver
    <3>. QED  BY <3>1 DEF Due
  <2>8. Due(e, l) = IF e.slot <= l THEN 1 ELSE 0
    <3>1. e.slot = l => ~NoTransmit(e.queue)
      BY <1>6, <2>2
    <3>2. e.slot # l => NoTransmit(e.queue)
      BY <1>7 DEF IInv, DeviceOK, DueOK
    <3>3. e.slot \in 0..ID_MAX
      BY <2>3, <2>6 DEF NextSlot, RSLOT_CNT
    <3>. QED  BY <2>6, <3>1, <3>2, <3>3 DEF Due
  <2>9. \A r \in Lockets : e.cycle # 0 \/ e.slot = r => WillRest(dev'[r])
    BY <1>6, <2>2, <2>4
  <2>10. \A r \in Lockets : e.cycle = 0 /\ e.slot # r /\ NotDeaf(dev[r]) => WillListen(dev'[r])
    BY <1>6, <2>2, <2>4
  <2>. HIDE DEF d, e
  <2>11. ASSUME e.once = q, e.cycle = 0, Due(e, l) = 1, \A r \in Lockets \ {l} : NotDeaf(dev[r])
         PROVE  Comes(q, l)'
    <3>1. \A r \in Lockets \ {l} : /\ NotDeaf(dev'[r])
                                   /\ dev'[r].slot # r => WillListen(dev'[r])
      BY <2>4, <2>9, <2>10, <2>11 DEF NotDeaf
    <3>. QED  BY <2>11, <3>1 DEF Comes, e
  <2>12. ASSUME Waits(q, l) PROVE OnItsWay(q, l)'
    <3>1. d.once = q /\ d.repeats >= Due(d, l) + RCYCLE_CNT - d.cycle
          /\ (AtEnd(d) => d.repeats >= RCYCLE_CNT + 1 \/ \A r \in Lockets : WillRest(dev[r]))
      BY <2>12 DEF Waits, Left, d
    <3>2. AtEnd(e) => \A r \in Lockets : WillRest(dev'[r])
      BY <2>6, <2>9 DEF AtEnd
    <3>3. ASSUME e.repeats >= Left(e, l) PROVE OnItsWay(q, l)'
      <4>1. Waits(q, l)'
        BY <2>3, <3>1, <3>2, <3>3 DEF Waits, e
      <4>. QED  BY <4>1 DEF OnItsWay
    <3>4. CASE d.slot < ID_MAX
      <4>1. e.slot = d.slot + 1 /\ e.cycle = d.cycle
        BY <2>3, <2>6, <3>4 DEF NextSlot, NextCycle, RSLOT_CNT
      <4>2. Due(e, l) = Due(d, l)
        BY <2>6, <2>7, <2>8, <4>1
      <4>3. e.repeats >= Left(e, l)
        BY <2>3, <3>1, <4>1, <4>2 DEF Left
      <4>. QED  BY <3>3, <4>3
    <3>5. CASE d.slot = ID_MAX /\ d.cycle + 1 < RCYCLE_CNT
      <4>1. e.slot = 0 /\ e.cycle = d.cycle + 1
        BY <2>3, <2>6, <3>5 DEF NextSlot, NextCycle, RSLOT_CNT
      <4>2. Due(e, l) = 1 /\ Due(d, l) = 0
        BY <2>6, <2>7, <2>8, <3>5, <4>1
      <4>3. d.repeats >= RCYCLE_CNT - d.cycle
        BY <2>6, <3>1, <4>2
      <4>4. 1 + RCYCLE_CNT - (d.cycle + 1) = RCYCLE_CNT - d.cycle
        BY <2>6
      <4>5. e.repeats >= Left(e, l)
        BY <2>3, <4>1, <4>2, <4>3, <4>4 DEF Left
      <4>. QED  BY <3>3, <4>5
    <3>6. CASE d.slot = ID_MAX /\ d.cycle = RCYCLE_CNT - 1
      <4>1. e.slot = 0 /\ e.cycle = 0
        BY <2>3, <2>6, <3>6 DEF NextSlot, NextCycle, RSLOT_CNT
      <4>2. Due(e, l) = 1
        BY <2>6, <2>8, <4>1
      <4>3. CASE d.repeats >= RCYCLE_CNT + 1
        <5>1. Left(e, l) = RCYCLE_CNT + 1
          BY <2>6, <4>1, <4>2 DEF Left
        <5>2. e.repeats >= Left(e, l)
          BY <2>3, <4>3, <5>1
        <5>. QED  BY <3>3, <5>2
      <4>4. CASE \A r \in Lockets : WillRest(dev[r])
        <5>1. \A r \in Lockets \ {l} : NotDeaf(dev[r])
          BY <4>4 DEF NotDeaf
        <5>2. Comes(q, l)'
          BY <2>3, <2>11, <3>1, <4>1, <4>2, <5>1
        <5>. QED  BY <5>2 DEF OnItsWay
      <4>. QED  BY <3>1, <3>6, <4>3, <4>4 DEF AtEnd
    <3>. QED  BY <2>6, <3>4, <3>5, <3>6
  <2>13. ASSUME Comes(q, l) PROVE OnItsWay(q, l)'
    <3>1. /\ d.once = q /\ d.cycle = 0 /\ Due(d, l) = 1
          /\ \A r \in Lockets \ {l} : NotDeaf(dev[r])
      BY <2>13 DEF Comes, d
    <3>2. d.slot < l
      BY <2>7, <3>1
    <3>3. e.slot = d.slot + 1 /\ e.cycle = 0
      BY <2>3, <2>6, <3>1, <3>2 DEF NextSlot, NextCycle, RSLOT_CNT
    <3>4. Due(e, l) = 1
      BY <2>6, <2>8, <3>2, <3>3
    <3>5. Comes(q, l)'
      BY <2>3, <2>11, <3>1, <3>3, <3>4
    <3>. QED  BY <3>5 DEF OnItsWay
  <2>14. ASSUME OnAir(q, l) PROVE OnItsWay(q, l)'
    BY <1>2, <2>14 DEF OnAir, SlotOver
  <2>15. ASSUME HeardBy(q, l) PROVE OnItsWay(q, l)'
    <3>1. HeardBy(q, l)'
      BY <1>1, <2>15 DEF HeardBy
    <3>. QED  BY <3>1 DEF OnItsWay
  <2>16. OnItsWay(q, l)'
    BY <2>1, <2>12, <2>13, <2>14, <2>15 DEF OnItsWay
  <2>. QED  BY <1>1, <2>1, <2>5, <2>16 DEF Cared
<1>. QED  BY <1>1, <1>11, <1>12 DEF WayInv

\* In step, only one Locket's slot it is.
LEMMA OnlySender ==
  ASSUME IInv, AllInStep, NEW s \in Senders
  PROVE  /\ Senders = {s} /\ Cardinality(Senders) = 1 /\ (CHOOSE k \in Senders : TRUE) = s
         /\ s \in Lockets /\ dev[s].air # None /\ dev[s].slot = s
<1>1. \A k \in Senders : k \in Lockets /\ dev[k].air # None /\ dev[k].slot = k
  BY DEF Senders, IInv, DeviceOK, AirOK
<1>2. \A k \in Senders : dev[k].slot = dev[s].slot
  BY <1>1 DEF AllInStep, InStep
<1>3. Senders = {s}
  BY <1>1, <1>2
<1>4. Cardinality(Senders) = 1
  BY <1>3, FS_Singleton
<1>. QED  BY <1>1, <1>3, <1>4

LEMMA NoFault ==
  ASSUME IInv, NEW o \in Outcomes, Faults(o) = 0, Cardinality(Senders) = 1
  PROVE  \A r \in Listeners : o[r] = "heard"
<1>. DEFINE S == {r \in Listeners : o[r] # "heard"}
<1>1. S \subseteq 0..ID_MAX
  BY SlotsAssumption DEF Listeners, IInv
<1>2. IsFiniteSet(S)
  <2>1. IsFiniteSet(0..ID_MAX)
    BY SlotsAssumption, FS_Interval
  <2>. HIDE DEF S
  <2>. QED  BY <1>1, <2>1, FS_Subset
<1>3. Cardinality(S) = 0
  BY DEF Faults
<1>4. S = {}
  BY <1>2, <1>3, FS_EmptySet
<1>. QED  BY <1>4

\* What the end of a slot leaves as it is, and whom it makes rest.
LEMMA EndedIs ==
  ASSUME IInv, Ready, NEW o \in Outcomes, NEW l \in Lockets, NEW packet, QLen >= 2,
         packet = dev[CHOOSE k \in Senders : TRUE].air
  PROVE  LET e == Ended(l, o, packet)
             d == dev[l]
         IN  /\ e.once = d.once /\ e.repeats = d.repeats /\ e.beacon = d.beacon
             /\ e.queue = d.queue \/ NoCalls(e.queue)
             /\ WillRest(d) => WillRest(e)
             /\ l \in Senders => (WillListen(d) => WillListen(e))
             /\ l \in Listeners /\ l \notin Senders /\ o[l] = "heard" /\ packet.payload # None => WillRest(e)
             /\ l \notin Senders /\ (l \notin Listeners \/ o[l] = "nothing") => e = d
<1>. DEFINE e == Ended(l, o, packet)
            d == dev[l]
<1>1. DeviceOK(d, l) /\ (l \notin on => d.queue = <<>> /\ d.air = None)
  BY DEF IInv
<1>2. CASE l \in Senders
  <2>1. /\ d \in Device /\ d.air # None /\ d.chip = "tx" /\ ~d.callback
        /\ l \notin Listeners
    BY <1>1, <1>2 DEF Senders, Listeners, DeviceOK, AirOK
  <2>2. e = [d EXCEPT !.chip = "idle", !.callback = FALSE, !.air = None]
    <3>1. e = TxIrq(d)
      BY <1>2, <2>1 DEF Ended
    <3>2. TxIrq(d) = [d EXCEPT !.chip = "idle", !.callback = FALSE, !.air = None]
      BY <2>1 DEF TxIrq, Device
    <3>. QED  BY <3>1, <3>2
  <2>3. /\ e.once = d.once /\ e.repeats = d.repeats /\ e.beacon = d.beacon
        /\ e.queue = d.queue /\ e.state = d.state
    BY <2>1, <2>2 DEF Device
  <2>. HIDE DEF e, d
  <2>4. WillRest(d) => WillRest(e)
    BY <2>3 DEF WillRest
  <2>5. WillListen(d) => WillListen(e)
    BY <2>1, <2>3 DEF WillListen
  <2>. QED  BY <1>2, <2>3, <2>4, <2>5 DEF e, d
<1>3. CASE l \notin Senders /\ l \in Listeners /\ o[l] # "nothing"
  <2>. DEFINE good == o[l] = "heard"
  <2>1. e = RxIrq(d, packet, good) /\ l \in on
    BY <1>3 DEF Ended, Listeners
  <2>2. d.air = None /\ d.queue = <<>>
    BY <1>3, <2>1 DEF Senders, Ready
  <2>3. good => packet \in FullRadioPacket
    <3>1. good => Cardinality(Senders) = 1
      BY <1>3 DEF Outcomes
    <3>. QED  BY <3>1, OneSender
  <2>4. good \in BOOLEAN
    OBVIOUS
  <2>. HIDE DEF good
  <2>5. LET r == RxIrq(d, packet, good)
        IN  /\ SameOffer(r, d) /\ NoCalls(r.queue)
            /\ WillRest(d) => WillRest(r)
            /\ good /\ packet.payload # None => WillRest(r)
    BY <1>1, <2>2, <2>3, <2>4, ListenerIs
  <2>. HIDE DEF e, d
  <2>. QED  BY <1>3, <2>1, <2>5 DEF SameOffer, good, e, d
<1>4. CASE l \notin Senders /\ ~(l \in Listeners /\ o[l] # "nothing")
  <2>1. e = d
    BY <1>4 DEF Ended
  <2>. HIDE DEF e
  <2>. QED  BY <1>4, <2>1 DEF e
<1>. QED  BY <1>2, <1>3, <1>4

LEMMA EndOfSlotWay ==
  ASSUME IInv, WayInv, Enough, EndOfSlot
  PROVE  WayInv'
<1>1. open /\ Ready /\ ~open' /\ UNCHANGED <<on, given, boots, calls>>
  BY DEF EndOfSlot
<1>. DEFINE air == dev[CHOOSE l \in Senders : TRUE].air
<1>2. PICK o \in Outcomes :
        /\ dev' = [l \in Lockets |-> Ended(l, o, air)]
        /\ heard' = heard \cup {<<r, air.payload>> : r \in
                       {h \in {r \in Listeners : o[r] = "heard"} : air.payload \in Packets}}
        /\ clean' = IF Faults(o) = 0 THEN clean ELSE {}
  BY DEF EndOfSlot, Ended
<1>3. \A l \in Lockets : dev'[l] = Ended(l, o, air)
  BY <1>2
<1>4. QLen >= 2
  BY DEF Enough
<1>5. ASSUME NEW l \in Lockets
      PROVE  /\ dev'[l].once = dev[l].once /\ dev'[l].repeats = dev[l].repeats
             /\ dev'[l].beacon = dev[l].beacon
             /\ dev'[l].queue = dev[l].queue \/ NoCalls(dev'[l].queue)
             /\ WillRest(dev[l]) => WillRest(dev'[l])
             /\ l \in Senders => (WillListen(dev[l]) => WillListen(dev'[l]))
             /\ l \in Listeners /\ l \notin Senders /\ o[l] = "heard" /\ air.payload # None
                  => WillRest(dev'[l])
             /\ l \notin Senders /\ (l \notin Listeners \/ o[l] = "nothing") => dev'[l] = dev[l]
  BY <1>1, <1>3, <1>4, EndedIs
<1>6. /\ IInv'
      /\ \A l \in Lockets : \/ SameTime(dev'[l], dev[l])
                            \/ l \in on /\ \E s \in on : SameTime(dev'[l], dev[s])
  BY EndOfSlotInv
<1>7. \A l \in Lockets : SlotOver(dev'[l])
  BY <1>1, <1>6 DEF IInv
<1>8. ASSUME NEW l \in Lockets
      PROVE  BeaconSent(dev[l])' /\ FromOwner(dev[l].queue, l)'
  <2>1. BeaconSent(dev[l])'
    BY <1>7 DEF SlotOver, BeaconSent
  <2>2. FromOwner(dev[l].queue, l)'
    <3>1. FromOwner(dev[l].queue, l)
      BY DEF WayInv, Base
    <3>2. CASE dev'[l].queue = dev[l].queue
      BY <1>1, <3>1, <3>2 DEF FromOwner
    <3>3. CASE NoCalls(dev'[l].queue)
      BY <3>3 DEF FromOwner, NoCalls, Calls
    <3>. QED  BY <1>5, <3>2, <3>3
  <2>. QED  BY <2>1, <2>2
<1>9. RestsOutside'
  BY <1>1 DEF RestsOutside
<1>10. clean # {} => AllInStep /\ AllInStep'
  BY <1>1, StepKeepsTime DEF WayInv, Base, Next, Radio
<1>11. Base'
  BY <1>2, <1>8, <1>9, <1>10 DEF Base
<1>12. ASSUME NEW q \in clean'
       PROVE  Cared(q)'
  <2>0. q \in clean /\ Faults(o) = 0 /\ q \in Packets
    BY <1>2, <1>12 DEF IInv
  <2>1. PICK l \in Lockets : l = given[q] /\ BeaconsFirst(l) /\ OnItsWay(q, l)
    BY <2>0 DEF WayInv, Cared
  <2>. DEFINE d == dev[l]
              e == dev'[l]
  <2>2. /\ on = Lockets /\ AllInStep
        /\ \A r \in Lockets : dev[r].slot = d.slot /\ dev[r].cycle = d.cycle
    BY <1>10, <2>0 DEF AllInStep, InStep
  <2>3. /\ e.once = d.once /\ e.repeats = d.repeats
        /\ e.slot = d.slot /\ e.cycle = d.cycle
    BY <1>5, <1>6, <2>2 DEF SameTime
  <2>4. BeaconsFirst(l)'
    BY <1>5, <2>1 DEF BeaconsFirst
  <2>5. \A r \in Lockets : r \notin Senders => dev[r].air = None /\ dev[r].queue = <<>>
    BY <1>1, <2>2 DEF Senders, Ready
  <2>6. \A r \in Listeners, s \in Senders : o[r] = "heard"
    BY <2>0, <2>2, OnlySender, NoFault
  <2>7. Due(e, l) = Due(d, l) /\ (Due(d, l) = 1 => d.slot < l)
    <3>1. NoTransmit(d.queue)
      <4>1. ~NoTransmit(d.queue) => d.air = None /\ d.queue # <<>>
        BY DEF IInv, DeviceOK, DueOK, NoTransmit
      <4>. QED  BY <1>1, <2>2, <4>1 DEF Ready
    <3>2. NoTransmit(e.queue)
      BY <1>7 DEF SlotOver
    <3>. QED  BY <2>3, <3>1, <3>2 DEF Due
  <2>. HIDE DEF d, e
  <2>8. ASSUME Waits(q, l) PROVE OnItsWay(q, l)'
    <3>1. d.once = q /\ d.repeats >= Left(d, l)
          /\ (AtEnd(d) => d.repeats >= RCYCLE_CNT + 1 \/ \A r \in Lockets : WillRest(dev[r]))
      BY <2>8 DEF Waits, d
    <3>2. Left(e, l) = Left(d, l) /\ (AtEnd(e) <=> AtEnd(d))
      BY <2>3, <2>7 DEF Left, AtEnd
    <3>3. Waits(q, l)'
      BY <1>5, <2>3, <3>1, <3>2 DEF Waits, e
    <3>. QED  BY <3>3 DEF OnItsWay
  <2>9. ASSUME Comes(q, l) PROVE OnItsWay(q, l)'
    <3>1. /\ d.once = q /\ d.cycle = 0 /\ Due(d, l) = 1 /\ d.slot < l
          /\ \A r \in Lockets \ {l} : NotDeaf(dev[r])
      BY <2>7, <2>9 DEF Comes, d
    <3>2. ASSUME NEW r \in Lockets \ {l} PROVE NotDeaf(dev'[r])
      <4>1. CASE r \in Senders
        BY <1>5, <3>1, <4>1 DEF NotDeaf
      <4>2. CASE WillRest(dev[r])
        BY <1>5, <4>2 DEF NotDeaf
      <4>3. CASE r \notin Senders /\ (r \notin Listeners \/ o[r] = "nothing")
        BY <1>5, <3>1, <4>3
      <4>4. CASE r \notin Senders /\ r \in Listeners /\ o[r] # "nothing"
        <5>1. Senders # {}
          <6>1. o[r] = "heard" => Cardinality(Senders) = 1
            BY <4>4 DEF Outcomes
          <6>2. o[r] = "bad" => Senders # {}
            BY <4>4 DEF Outcomes
          <6>3. o[r] \in {"heard", "nothing", "bad"}
            BY <4>4 DEF Outcomes
          <6>. QED  BY <4>4, <6>1, <6>2, <6>3, FS_EmptySet
        <5>2. PICK s \in Senders : TRUE
          BY <5>1
        <5>3. air = dev[s].air /\ dev[s].air # None /\ s = d.slot /\ s \in Lockets
          BY <2>2, OnlySender
        <5>4. air.payload # None
          BY <2>1, <3>1, <5>3 DEF BeaconsFirst, WayInv, Base, BeaconSent
        <5>5. o[r] = "heard"
          BY <2>6, <4>4, <5>2
        <5>. QED  BY <1>5, <4>4, <5>4, <5>5 DEF NotDeaf
      <4>. QED  BY <4>1, <4>3, <4>4
    <3>3. Comes(q, l)'
      BY <1>1, <2>3, <2>7, <3>1, <3>2 DEF Comes, e
    <3>. QED  BY <3>3 DEF OnItsWay
  <2>10. ASSUME OnAir(q, l) PROVE OnItsWay(q, l)'
    <3>1. d.air # None /\ d.air.payload = q /\ \A r \in Lockets \ {l} : WillListen(dev[r])
      BY <2>10 DEF OnAir, d
    <3>2. l \in Senders
      BY <2>2, <3>1 DEF Senders, d
    <3>3. Senders = {l} /\ air = d.air
      BY <2>2, <3>2, OnlySender DEF d
    <3>4. ASSUME NEW r \in Lockets \ {l} PROVE <<r, q>> \in heard'
      <4>1. dev[r].queue = <<>> /\ WillListen(dev[r])
        BY <2>5, <3>1, <3>3
      <4>2. r \in Listeners
        BY <2>2, <4>1, AtRest DEF Listeners
      <4>3. o[r] = "heard" /\ air.payload = q /\ air.payload \in Packets
        BY <2>0, <2>6, <3>1, <3>2, <3>3, <4>2
      <4>. HIDE DEF air
      <4>4. r \in {h \in {k \in Listeners : o[k] = "heard"} : air.payload \in Packets}
        BY <4>2, <4>3
      <4>. QED  BY <1>2, <4>3, <4>4
    <3>5. HeardBy(q, l)'
      BY <3>4 DEF HeardBy
    <3>. QED  BY <3>5 DEF OnItsWay
  <2>11. ASSUME HeardBy(q, l) PROVE OnItsWay(q, l)'
    <3>. HIDE DEF air
    <3>1. \A x \in heard : x \in heard'
      BY <1>2
    <3>2. HeardBy(q, l)'
      BY <2>11, <3>1 DEF HeardBy
    <3>. QED  BY <3>2 DEF OnItsWay
  <2>12. OnItsWay(q, l)'
    BY <2>1, <2>8, <2>9, <2>10, <2>11 DEF OnItsWay
  <2>. QED  BY <1>1, <2>1, <2>4, <2>12 DEF Cared
<1>. QED  BY <1>11, <1>12 DEF WayInv

LEMMA WayInit == ASSUME Init PROVE WayInv
<1>1. /\ \A l \in Lockets : dev[l] = Booted(l)
      /\ ~open /\ clean = {}
  BY DEF Init
<1>2. \A l \in Lockets : Booted(l).queue = <<>> /\ Booted(l).air = None
  BY DEF Booted
<1>3. \A l \in Lockets : dev[l].queue = <<>> /\ dev[l].air = None
  BY <1>1, <1>2
<1>4. Len(<<>>) = 0 /\ 1..0 = {}
  OBVIOUS
<1>. QED  BY <1>1, <1>3, <1>4 DEF WayInv, Base, BeaconSent, FromOwner, RestsOutside

LEMMA WayStep == ASSUME IInv, WayInv, Enough, [Next]_vars PROVE WayInv'
<1>1. CASE Tick
  BY <1>1, TickWay
<1>2. CASE EndOfSlot
  BY <1>2, EndOfSlotWay
<1>3. ASSUME NEW l \in Lockets, ProcessEvent(l) PROVE WayInv'
  BY <1>3, ProcessEventWay
<1>4. ASSUME NEW l \in Lockets, Boot(l) PROVE WayInv'
  BY <1>4, BootWay
<1>5. ASSUME NEW l \in Lockets, MainCall(l) PROVE WayInv'
  BY <1>5, MainCallWay
<1>6. CASE UNCHANGED vars
  BY <1>6 DEF vars, WayInv, Base, BeaconSent, FromOwner, RestsOutside, AllInStep, InStep,
              Cared, BeaconsFirst, OnItsWay, Waits, Comes, OnAir, HeardBy
<1>. QED  BY <1>1, <1>2, <1>3, <1>4, <1>5, <1>6 DEF Next, Radio

\* For any Lockets, slots and packets, at least two cycles and two places in
\* the queue (4 and 8 in the firmware): a packet given to TransmitOnce while
\* all are in step and the Lockets with earlier slots have a beacon has been
\* received by all others when its RCYCLE_CNT + 1 repeats are over, unless a
\* packet is lost, somebody restarts or takes back the beacon, or a later
\* packet replaces it (repeats_left in ProcessEvent against IOnTimerI).
THEOREM EverybodyHears == Enough => (Spec => []HeardByAll)
<1>1. WayInv => HeardByAll
  BY DEF WayInv, Cared, OnItsWay, Waits, Comes, OnAir, HeardBy, HeardByAll, Finished
<1>2. CASE Enough
  <2>1. IInv /\ WayInv /\ [Next]_vars => WayInv'
    BY <1>2, WayStep
  <2>. QED  BY <1>1, <2>1, WayInit, Invariance, PTL DEF Spec
<1>. QED  BY <1>2
=============================================================================
