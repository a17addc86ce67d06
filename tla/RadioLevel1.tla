---------------------------- MODULE RadioLevel1 ----------------------------
(***************************************************************************)
(* RadioLevel1 (embedded/Radio/radio_lvl1.h), the radio of almost every    *)
(* behaviour, with the wrapper through which the behaviour uses it         *)
(* (embedded/wrappers/radio_wrapper.h) and the part of the main loop that  *)
(* hands packets over (embedded/behavior_runner.h).                        *)
(*                                                                         *)
(* The radio thread runs at HIGHPRIO above the main loop, so whatever it   *)
(* does from a wake-up to its next sleep is one step, and the main loop    *)
(* moves only while it sleeps; but it may wake anywhere in the main        *)
(* loop's code, also in the middle of the copy of a packet.  The three     *)
(* queues are the FIFO queues that module EvtMsgQ implements.              *)
(***************************************************************************)
EXTENDS Integers, Sequences, FiniteSets

CONSTANTS EvtQLen,       \* MAIN_EVT_Q_LEN
          RMsgQLen,      \* R_MSGQ_LEN
          Bursts,        \* how often a packet of Transmit is sent (4)
          Words,         \* machine words of a packet
          PowerLevels, DefaultPower,
          MaxRx,         \* bound: packets received
          MaxCalls       \* bound: calls of Transmit and SetBeaconPacket

ASSUME RadioAssumption ==
  /\ EvtQLen \in Nat \ {0} /\ RMsgQLen \in Nat \ {0}
  /\ Bursts \in Nat \ {0} /\ Words \in Nat \ {0}
  /\ DefaultPower \in PowerLevels
  /\ MaxRx \in Nat /\ MaxCalls \in Nat

VARIABLES EvtQMain,          \* evtIdRadioCmd and other events
          received_packets, RMsgQ,
          packet_to_send_once, packet_beacon,   \* word by word
          PktTxOnce, PktTxBeacon,               \* pointer set?
          radio, sent,       \* where the radio thread sleeps, turn of its for loop
          onAir,             \* the packet the chip sends
          power,             \* transmit power of the chip
          main, copied,      \* where the main loop is, words it has copied
          calls,             \* packets given to Transmit and SetBeaconPacket
          rx, lostEvt, lostPkt, handed,  \* history of the receiving side
          accepted, asked                \* history of the sending side

toMain  == <<EvtQMain, received_packets, rx, lostEvt, lostPkt>>
packets == <<packet_to_send_once, packet_beacon, copied, calls>>
chip    == <<radio, sent, onAir, power>>
vars    == <<EvtQMain, received_packets, RMsgQ, packet_to_send_once,
             packet_beacon, PktTxOnce, PktTxBeacon, radio, sent, onAir, power,
             main, copied, calls, rx, lostEvt, lostPkt, handed, accepted, asked>>

(* Packets are numbered in the order they come: those received, and those  *)
(* the behaviour gives away.  0 is the zeroed one.                         *)
Packet  == [1 .. Words -> 0 .. MaxCalls]
Zero    == [w \in 1 .. Words |-> 0]
Whole(n) == [w \in 1 .. Words |-> n]
Commands == [Cmd : {"R_MSG_TRANSMIT"}] \cup
            [Cmd : {"R_MSG_SET_PWR"}, Value : PowerLevels]

(* RadioLevel1::Init has run -- its thread, if the chip answered, already  *)
(* waits for a packet -- and the main loop is about to call OnStarted.     *)
Init ==
  /\ EvtQMain = <<>> /\ received_packets = <<>> /\ RMsgQ = <<>>
  /\ packet_to_send_once = Zero /\ packet_beacon = Zero
  /\ PktTxOnce = FALSE /\ PktTxBeacon = FALSE
  /\ radio \in {"rx", "off"} /\ sent = 0 /\ onAir = Zero
  /\ power = DefaultPower
  /\ main = "handler" /\ copied = 0 /\ calls = 0
  /\ rx = 0 /\ lostEvt = 0 /\ lostPkt = 0 /\ handed = <<>>
  /\ accepted = {} /\ asked = DefaultPower

(* EvtMsgQ_t::SendNowOrExit, whose result none of the callers looks at.    *)
FullLate(q, len)         == Len(q) > len           \* mutant
Full(q, len)             == Len(q) >= len
SendNowOrExit(q, len, m) == IF Full(q, len) THEN q ELSE Append(q, m)
Miss(lost, q, len)       == IF Full(q, len) THEN lost + 1 ELSE lost

-----------------------------------------------------------------------------
(* The radio thread.                                                       *)

(* Transmit: the packet is read when the chip's FIFO is filled.            *)
Transmit(packet, where) ==
  /\ radio' = where
  /\ onAir' = packet

(* The second half of the loop: the beacon, if one is set, then Receive.   *)
BeaconOrRx ==
  /\ sent' = 0
  /\ \/ PktTxBeacon /\ Transmit(packet_beacon, "beacon")
     \/ ~PktTxBeacon /\ radio' = "rx" /\ onAir' = Zero

Command(cmd) == RMsgQ # <<>> /\ Head(RMsgQ).Cmd = cmd /\ RMsgQ' = Tail(RMsgQ)

\* mutant: the beacon goes first
StartBurstsLate ==
  /\ ~PktTxBeacon
  /\ Command("R_MSG_TRANSMIT")
  /\ Transmit(packet_to_send_once, "once")
  /\ sent' = 1
  /\ UNCHANGED power

StartBursts ==
  /\ Command("R_MSG_TRANSMIT")
  /\ Transmit(packet_to_send_once, "once")
  /\ sent' = 1
  /\ UNCHANGED power

\* mutant: a level is skipped while a beacon is set
SetTxPowerUnlessBeacon ==
  /\ Command("R_MSG_SET_PWR")
  /\ power' = IF PktTxBeacon THEN power ELSE Head(RMsgQ).Value
  /\ BeaconOrRx

SetTxPower ==
  /\ Command("R_MSG_SET_PWR")
  /\ power' = Head(RMsgQ).Value
  /\ BeaconOrRx

NoCommand ==
  /\ RMsgQ = <<>>
  /\ UNCHANGED <<RMsgQ, power>>
  /\ BeaconOrRx

(* The first half: one command is fetched, if there is one.                *)
LoopTop == StartBursts \/ SetTxPower \/ NoCommand

RadioFrame == UNCHANGED <<packets, PktTxOnce, PktTxBeacon, main, handed, accepted, asked>>

(* Receive returned retvOk: the event goes first, then the packet.         *)
RxOk ==
  /\ radio = "rx" /\ rx < MaxRx
  /\ rx' = rx + 1
  /\ EvtQMain' = SendNowOrExit(EvtQMain, EvtQLen, "radioCmd")
  /\ received_packets' = SendNowOrExit(received_packets, RMsgQLen, rx')
  /\ lostEvt' = Miss(lostEvt, EvtQMain, EvtQLen)
  /\ lostPkt' = Miss(lostPkt, received_packets, RMsgQLen)
  /\ LoopTop
  /\ RadioFrame

(* Receive timed out, or its CRC check failed.                             *)
RxFail ==
  /\ radio = "rx"
  /\ LoopTop
  /\ UNCHANGED toMain
  /\ RadioFrame

\* mutant: i never incremented
BurstSentAgain ==
  /\ radio = "once"
  /\ Transmit(packet_to_send_once, "once")
  /\ UNCHANGED <<toMain, RMsgQ, power, sent>>
  /\ RadioFrame

(* A burst has been sent and the 99 ms after it are over.                  *)
BurstSent ==
  /\ radio = "once"
  /\ \/ /\ sent < Bursts
        /\ sent' = sent + 1
        /\ Transmit(packet_to_send_once, "once")
     \/ /\ sent = Bursts
        /\ BeaconOrRx
  /\ UNCHANGED <<toMain, RMsgQ, power>>
  /\ RadioFrame

BeaconSent ==
  /\ radio = "beacon"
  /\ radio' = "rx" /\ onAir' = Zero
  /\ UNCHANGED <<toMain, RMsgQ, power, sent>>
  /\ RadioFrame

RadioStep == RxOk \/ RxFail \/ BurstSent \/ BeaconSent

-----------------------------------------------------------------------------
(* The main loop, and the calls of the wrapper a behaviour makes from its  *)
(* handlers.                                                               *)

(* Fetch an event; only evtIdRadioCmd leads to FetchReceived.              *)
MainFetch ==
  /\ main = "loop" /\ EvtQMain # <<>>
  /\ EvtQMain' = Tail(EvtQMain)
  /\ main' = IF Head(EvtQMain) = "radioCmd" THEN "radioCmd" ELSE "handler"
  /\ UNCHANGED <<received_packets, rx, lostEvt, lostPkt, RMsgQ, packets,
                 PktTxOnce, PktTxBeacon, chip, handed, accepted, asked>>

\* mutant: the packet is read and left in its place
FetchReceivedPeek ==
  /\ main = "radioCmd"
  /\ main' = "handler"
  /\ \/ received_packets # <<>> /\ handed' = Append(handed, Head(received_packets))
     \/ received_packets = <<>> /\ handed' = Append(handed, 0)
  /\ UNCHANGED <<toMain, RMsgQ, packets, PktTxOnce, PktTxBeacon, chip, accepted, asked>>

(* OnRadioPacketReceived is called with what FetchReceived returned, which *)
(* is the zeroed pair when there was no packet.                            *)
FetchReceived ==
  /\ main = "radioCmd"
  /\ main' = "handler"
  /\ \/ /\ received_packets # <<>>
        /\ handed' = Append(handed, Head(received_packets))
        /\ received_packets' = Tail(received_packets)
     \/ /\ received_packets = <<>>
        /\ handed' = Append(handed, 0)
        /\ UNCHANGED received_packets
  /\ UNCHANGED <<EvtQMain, rx, lostEvt, lostPkt, RMsgQ, packets, PktTxOnce,
                 PktTxBeacon, chip, accepted, asked>>

HandlerReturn ==
  /\ main = "handler"
  /\ main' = "loop"
  /\ UNCHANGED <<toMain, RMsgQ, packets, PktTxOnce, PktTxBeacon, chip, handed,
                 accepted, asked>>

(* Transmit and SetBeaconPacket are called with the next packet ...        *)
CallWithPacket(call) ==
  /\ main = "handler" /\ calls < MaxCalls
  /\ main' = call
  /\ calls' = calls + 1 /\ copied' = 0
  /\ UNCHANGED <<toMain, RMsgQ, packet_to_send_once, packet_beacon, PktTxOnce,
                 PktTxBeacon, chip, handed, accepted, asked>>

(* ... which they copy, word by word, without a lock.                      *)
CopyWord ==
  /\ copied < Words
  /\ copied' = copied + 1
  /\ \/ /\ main = "Transmit"
        /\ packet_to_send_once' = [packet_to_send_once EXCEPT ![copied'] = calls]
        /\ UNCHANGED packet_beacon
     \/ /\ main = "SetBeaconPacket"
        /\ packet_beacon' = [packet_beacon EXCEPT ![copied'] = calls]
        /\ UNCHANGED packet_to_send_once
  /\ UNCHANGED <<toMain, RMsgQ, PktTxOnce, PktTxBeacon, chip, main, calls, handed,
                 accepted, asked>>

TransmitEndEarly ==    \* mutant: the command goes before the packet's last word
  /\ main = "Transmit" /\ copied = Words - 1
  /\ main' = "handler"
  /\ PktTxOnce' = TRUE
  /\ RMsgQ' = SendNowOrExit(RMsgQ, RMsgQLen, [Cmd |-> "R_MSG_TRANSMIT"])
  /\ accepted' = IF Full(RMsgQ, RMsgQLen) THEN accepted ELSE accepted \cup {calls}
  /\ UNCHANGED <<toMain, packets, PktTxBeacon, chip, handed, asked>>

TransmitEnd ==
  /\ main = "Transmit" /\ copied = Words
  /\ main' = "handler"
  /\ PktTxOnce' = TRUE
  /\ RMsgQ' = SendNowOrExit(RMsgQ, RMsgQLen, [Cmd |-> "R_MSG_TRANSMIT"])
  /\ accepted' = IF Full(RMsgQ, RMsgQLen) THEN accepted ELSE accepted \cup {calls}
  /\ UNCHANGED <<toMain, packets, PktTxBeacon, chip, handed, asked>>

SetBeaconEnd ==
  /\ main = "SetBeaconPacket" /\ copied = Words
  /\ main' = "handler"
  /\ PktTxBeacon' = TRUE
  /\ UNCHANGED <<toMain, RMsgQ, packets, PktTxOnce, chip, handed, accepted, asked>>

ClearBeaconPacket ==
  /\ main = "handler"
  /\ PktTxBeacon' = FALSE
  /\ UNCHANGED <<toMain, RMsgQ, packets, PktTxOnce, chip, main, handed, accepted, asked>>

SetPowerLevel(level) ==
  /\ main = "handler"
  /\ RMsgQ' = SendNowOrExit(RMsgQ, RMsgQLen,
                            [Cmd |-> "R_MSG_SET_PWR", Value |-> level])
  /\ asked' = IF Full(RMsgQ, RMsgQLen) THEN asked ELSE level
  /\ UNCHANGED <<toMain, packets, PktTxOnce, PktTxBeacon, chip, main, handed, accepted>>

MainStep ==
  \/ MainFetch \/ FetchReceived \/ HandlerReturn
  \/ \E call \in {"Transmit", "SetBeaconPacket"} : CallWithPacket(call)
  \/ CopyWord \/ TransmitEnd \/ SetBeaconEnd \/ ClearBeaconPacket
  \/ \E level \in PowerLevels : SetPowerLevel(level)

(* Timers, buttons, the shell and the pill socket use EvtQMain as well.    *)
OtherEvent ==
  /\ ~Full(EvtQMain, EvtQLen)
  /\ EvtQMain' = Append(EvtQMain, "other")
  /\ UNCHANGED <<received_packets, rx, lostEvt, lostPkt, RMsgQ, packets,
                 PktTxOnce, PktTxBeacon, chip, main, handed, accepted, asked>>

Next == RadioStep \/ MainStep \/ OtherEvent
Spec == Init /\ [][Next]_vars

(* The chip ends each transmission with its interrupt, Receive ends after  *)
(* 360 ms at the latest, and no thread runs above the radio's.             *)
FairSpec == Spec /\ WF_vars(RadioStep)

-----------------------------------------------------------------------------
Count(s, e)   == Cardinality({n \in DOMAIN s : s[n] = e})
Zeroes        == Count(handed, 0)
PendingEvents == Count(EvtQMain, "radioCmd") + (IF main = "radioCmd" THEN 1 ELSE 0)
Pending(cmd)  == \E n \in DOMAIN RMsgQ : RMsgQ[n].Cmd = cmd

TypeOK ==
  /\ EvtQMain \in Seq({"radioCmd", "other"}) /\ Len(EvtQMain) <= EvtQLen
  /\ received_packets \in Seq(1 .. MaxRx) /\ Len(received_packets) <= RMsgQLen
  /\ RMsgQ \in Seq(Commands) /\ Len(RMsgQ) <= RMsgQLen
  /\ {packet_to_send_once, packet_beacon, onAir} \subseteq Packet
  /\ {PktTxOnce, PktTxBeacon} \subseteq BOOLEAN
  /\ radio \in {"off", "rx", "once", "beacon"}
  /\ sent \in 0 .. Bursts /\ (radio = "once" <=> sent > 0)
  /\ {power, asked} \subseteq PowerLevels
  /\ main \in {"loop", "radioCmd", "handler", "Transmit", "SetBeaconPacket"}
  /\ copied \in 0 .. Words /\ calls \in 0 .. MaxCalls
  /\ accepted \subseteq 1 .. calls
  /\ rx \in 0 .. MaxRx /\ {lostEvt, lostPkt} \subseteq 0 .. rx
  /\ handed \in Seq(0 .. MaxRx)

(* The event and the packet travel in two queues, but nothing ever drifts: *)
(* events under way exceed packets under way by the packets the queue      *)
(* refused, less the events it refused and the events already answered     *)
(* with a zeroed packet.                                                   *)
PacketsMatchEvents ==
  PendingEvents + lostEvt + Zeroes = Len(received_packets) + lostPkt

(* No packet is handed over twice, or before one received earlier.         *)
HandedInOrder ==
  \A n, p \in DOMAIN handed :
    n < p /\ handed[n] > 0 /\ handed[p] > 0 => handed[n] < handed[p]

(* A pending Transmit, or one being carried out, has a packet to send, and *)
(* the radio thread never follows a null PktTxOnce.                        *)
NeverTransmitsNull == (radio = "once" \/ Pending("R_MSG_TRANSMIT")) => PktTxOnce

(* What the radio sends for a command is never older, in any word, than    *)
(* any packet whose command was accepted.                                  *)
BurstsAreCurrent ==
  [][radio' = "once" /\ sent' # sent
       => \A w \in 1 .. Words : \A n \in accepted : onAir'[w] >= n]_vars

(* Two halves of different packets go on the air only if the radio woke in *)
(* the middle of a copy; no copy is ever left unfinished.                  *)
WholeUnlessCopying ==
  [][onAir' # onAir /\ main \notin {"Transmit", "SetBeaconPacket"}
       => \E n \in 0 .. MaxCalls : onAir' = Whole(n)]_vars

(* Once the pending power commands are carried out the chip sends with the *)
(* last level that was accepted.                                           *)
LastPowerWins == radio # "off" /\ ~Pending("R_MSG_SET_PWR") => power = asked

(* However much the behaviour sends, the radio goes on listening, ...      *)
KeepsListening == radio # "off" => []<>(radio = "rx")

(* ... and a full command queue takes commands again.                      *)
CommandsServed == radio # "off" => [](Full(RMsgQ, RMsgQLen) ~> ~Full(RMsgQ, RMsgQLen))
=============================================================================
