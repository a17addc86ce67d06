# Locket firmware: TLA+ models, checks and proofs

The repository is the firmware of the *Locket*, a wearable device for live
role-playing games (an STM32L151 with a CC1101 radio, an RGB LED, a vibro
motor, a beeper, three buttons, a DIP switch, an I2C "pill" socket and a UART
shell), a desktop emulator of it, and the behaviours (game rules) that run on
both.  The firmware runs on ChibiOS: interrupt handlers, a few threads of
fixed priorities and one main loop, connected by message queues.  This
directory models the parts whose correctness depends on order and
interleaving, checks them with TLC and proves the central ones with TLAPS.

## 1. Inventory

| Component (source) | State | Operations | Talks to |
|---|---|---|---|
| Message queue `EvtMsgQ_t` (`embedded/kl_lib/MsgQ.h`, semaphores in `embedded/os/src/chsem.c`) | ring `IBuf`, `ReadPtr`, `WritePtr`, semaphores `FullSem`, `EmptySem` | `Init`, `Fetch`, `SendNowOrExitI`, `SendNowOrExit`, `SendWaitingAbility` | every component: `EvtQMain` (18), `RMsgQ` and `received_packets` (4), the level 2 radio queue (8) |
| Main loop (`embedded/behavior_runner.h`) | the behaviour, the last DIP value, `g_config.ID` | `Run`: initialise, then fetch an event and call the behaviour; `CheckDipSwitch` | fetches `EvtQMain`, calls behaviours, the pill manager, the radio wrapper, EEPROM |
| Radio level 1 (`embedded/Radio/radio_lvl1.h`, `wrappers/radio_wrapper.h`) | `RMsgQ`, `received_packets`, `PktTxOnce`, `PktTxBeacon`, the two packet buffers | radio thread loop; `Transmit`, `SetBeaconPacket`, `ClearBeaconPacket`, `SetPowerLevel`, `FetchReceived` | main loop through `EvtQMain`, the chip through `CC` |
| Radio level 2 (`embedded/Radio/radio_lvl2.h`) | `state_`, incoming queue, received packets, packets to send, `RadioTime_t` | `ProcessEvent` and its handlers, the receive callback, the slot timer's handler | radio chip interrupts, timer interrupt, main loop |
| TDMA time `RadioTime_t` (same file) | `TimeSlot`, `CycleN`, `TimeSrcId`, timeout counter | `IncTimeSlot`, `AdjustI`, `IOnTimerI` | other Lockets, by packet metadata |
| CC1101 driver (`embedded/Radio/cc1101.cpp`) | chip state, `ICallback`, the sleeping thread | `Transmit`, `Receive`, `ReceiveAsync`, `ReadFIFO`, interrupt handler | both radio levels |
| Sequencer `BaseSequencer_t` (`embedded/kl_lib/ChunkTypes.h`; LED, vibro, beeper) | start and current chunk, repeat counter, virtual timer | `StartOrRestart`, `StartOrContinue`, `Stop`, timer handler | behaviours; ChibiOS virtual timers |
| Emulated sequencer (`emulator/sequenceable.h`) | current sequence, worker thread | `StartOrRestart`, `StartOrContinue`, `Stop` | behaviours under the emulator |
| Buttons (`embedded/kl_lib/SimpleSensors.cpp`, `buttons.cpp`) | per-button flags, long-press timer | `ProcessButtons` every 72 ms | events to `EvtQMain` |
| UART and shell (`embedded/kl_lib/uart.cpp`, `shell.h`) | DMA receive ring, transmit ring, `RxProcessed`, command buffer | receive thread, `SignalCmdProcessed`, `Printf`, DMA handler | `EvtQMain`, main loop |
| Pill manager (`embedded/Pill/pill_mgr.cpp`, wrappers) | `IsConnectedNow`, the pages of the pill's memory, the behaviour's `pill_manager` | `Check`, `ReadPill`, `WritePill`, page write with retries | I2C, `EvtQMain`, behaviours |
| EEPROM (`kl_lib.cpp` `EE`, `wrappers/eeprom_wrapper.h`) | words that survive a restart | `Read32`, `Write32` | main loop, behaviours |
| State machine engine (`api/qhsm.c`) | `current_`, `effective_`, `target_`; the path of a transition | `QHsm_ctor`, `QMsm_init`, `QMsm_dispatch` | the handlers of a state machine |
| A player's health (`projects/Mariy_El_sm`) | the state, health, pause and count in RAM and in EEPROM | handlers of seven states for seven signals, `OnStarted` | engine, EEPROM, LED, radio beacon |
| Other state machines (`projects/Tor_radiation`, `projects/sm_behavior`) | as above | handlers | engine, EEPROM |
| Received-packet table (`api/rx_table.h`) | up to 16 packets, one per id | `AddPacket`, `Clear`, `HasPacketWithId`, `GetPacketById` | behaviours |
| Behaviours (`projects/*`) | per game | `OnStarted`, `EverySecond`, `OnButtonPressed`, `OnPill*`, `OnRadioPacketReceived`, ... | all of the above |

What is hard here, and what makes each part correct:

| Component | Hard behaviour | Correct when |
|---|---|---|
| `EvtMsgQ_t` | a thread woken by a semaphore runs later; others run in between; timeouts give counts back | it is a bounded FIFO queue; semaphores and pointers always agree; a send fails only when it is full; no wake-up is lost |
| Main loop | slow handlers while lossy queues fill | each event is handled with the data it was sent for |
| Radio level 1 | preempts the main loop inside a packet copy; one buffer for several commands; two queues per received packet | what is sent is what was given last, whole; what is handed over is what was received, in order; it returns to listening |
| Radio level 2, TDMA time | interrupts, a thread and other devices move the same clock; losses, collisions, restarts | Lockets agree on slot and cycle and stay so; listen in cycle 0; a repeated packet is heard |
| CC1101 driver | an interrupt reads over the SPI the threads use; a thread waits for an interrupt | the interrupt finds the right receiver; a waiting thread is resumed |
| Sequencer | a timer interrupt runs against calls that take the lock twice or not at all | in play exactly while its timer will go on; dark after `Stop`; plays what is written |
| Emulated sequencer | a thread per device, no lock | as above |
| Buttons | one timer and one combo flag for all buttons; a loop with early returns | every press reported once and in order; a long press lasted its delay |
| UART and shell | the thread edits the buffer of a command that waits in a queue; refused events | commands handled as typed; the line is opened again |
| Pill manager | pills pulled out and plugged in at any moment; lossy connection events; writes of several pages | the behaviour is told in turn and in the end knows what is there; a write that succeeds is whole |
| State machine engine | answers of handlers come back through fields that the loop reads later; any tree | exits and entries are those of a statechart; the path fits its array; every dispatch returns |
| Health, EEPROM | restarts between two effects of one transition | a restart continues from a state that was or was coming; nobody gains from it |
| Packet table | a full table | one packet per id, the latest |
| Behaviours | sequential rules | their own business; here the environment of the rest |

`PROJECT.json` lists the hazards at their lines, each with the properties
that would catch it going wrong, or why there is none.

## 2. Plan

Order of the modules, the most used and most concurrent first.  All of it is
done:

1. `EvtMsgQ` and its abstract specification `BoundedFifo`, `EvtMsgQProofs`.
   Every other module may then use a plain FIFO sequence for a queue.
2. `RadioLevel1` (radio thread, wrapper, main loop), `RadioLevel1Proofs`.
3. `UartShell`.
4. `Buttons`; `InputProofs` holds the proofs about both.
5. `Sequencer`, instance `MCSequencer`, `SequencerProofs`.
6. `RadioLevel2` with the TDMA time, `RadioLevel2Proofs`.
7. `QHsm` over any tree of states, its abstract specification `Statechart`,
   instance `MCQHsm`, `QHsmProofs`.
8. `Health`: the states of Mariy El over `Statechart`, with EEPROM and
   restarts, `HealthProofs`.
9. `PillMgr`, `PillMgrProofs`.

What could come next: `api/rx_table.h` as operators against a reference
definition; phases shorter than a slot in `RadioLevel2`; `Tor_radiation` as a
second machine over `Statechart`.

No module declares a RECURSIVE operator.

## 3. The modules

**`EvtMsgQ`.**  State: `IBuf`, `ReadPtr`, `WritePtr`, the counters and waiting
queues of `FullSem` and `EmptySem`, and for each thread where it is in its
call.  Everything between `chSysLock` and `chSysUnlock` is one action.  A call
that sleeps is several: `FetchSleep`, then a wake-up (by a sender's signal) or
`FetchTimeout`, then `FetchResume` or `FetchGiveUp`; likewise for
`SendWaitingAbility`.  The semaphore operators (`MustWake`, `Woken`,
`StillAsleep`) are `chSemSignalI`, `chSemWaitTimeoutS` and the `wakeup`
callback of the kernel.  `BoundedFifo` is what users rely on: a sequence of at
most `Sz` messages, `Put` at the end, `Take` from the head, and `Refuse` and
`Miss`, which leave the sequence alone and have no guard: a place promised to
a woken thread is free in the sequence but not in the ring.  When a refusal is
justified is said by `RefusalIsJustified`.  The refinement (`ImplementsFifo`)
maps the ring between the pointers to that sequence.

**`RadioLevel1`.**  The radio thread (HIGHPRIO) moves in one step from wake-up
to sleep; the main loop moves only while it sleeps, but packet copies are one
step per machine word, so the thread comes in between.  State: the three
queues, `PktTxOnce`/`PktTxBeacon`, the two packets of the wrapper word by
word, the thread's and the main loop's places.  `OtherEvent` stands for all
other senders to `EvtQMain`.

**`UartShell`.**  DMA (`Arrive`), the polling thread (`PollRx`, `PollByte`,
`PollEnd`), the line editor (`PutChar`), the flag `RxProcessed` and the main
loop (`Fetch`, `SignalCmdProcessed`, `HandlerReturn`).  Thread and main loop
have the same priority and `CH_CFG_TIME_QUANTUM` is 0, so the thread's step is
guarded by `MainSleeps`.  `strtok` and number parsing are left out: commands
are compared as text.  `ShellInit`, `ShellSpec` and the like have names of
their own so that `InputProofs` can extend this module and `Buttons`.

**`Buttons`.**  One action, `Poll`, which is `SensorsThread`'s loop with
`ProcessButtons`: edges, then `Press`, `Release` or `Hold` per button with the
same early returns.  Time is `systime_t`, modulo `Wrap`; any gap up to
`MaxGap` may lie between two polls.  `age`, `solo` and `told` are history.

**`Sequencer`.**  `Handler` is the loop of `IIrqHandler`, a chunk per step, run
by the timer (`TimerFires`) or by a call; `StopTest`, `StopReset` and
`SwitchOff` are the three parts of `Stop`, and `ContinueDiffers` /
`ContinueStarts` those of `StartOrContinue`, between which the timer may come.
Durations are left out but not whether they are zero.  `Meaning` is the
reference the history is compared with: what `api/sequences.h` says of each
kind of chunk, unrolled over the array without a place or a counter.

**`RadioLevel2`.**  A record per Locket holds `RadioTime_t`, `state_`, the
packets to send, the incoming queue and the chip (`chip`, `callback`).  `Tick`
is the slot timer's interrupt of every Locket, `ProcessEvent` one message of a
Locket's thread, `EndOfSlot` the end-of-packet interrupts with what the
channel lets through, `Boot` a start or restart, which leaves the Locket
without timer and thread if `CC.Init` fails (the slots of the others go on),
and `TransmitOnce`,
`SetBeaconPacketTo`, `ClearBeaconPacket` the main loop's calls.  The slots of
different Lockets change together (a shift of less than a slot is left out)
and threads finish before the next slot.

**`QHsm`.**  The engine of `api/qhsm.c`, one call of a handler per step: `pc`
is the place in `QMsm_dispatch` or `do_transition`, the fields `current_`,
`effective_`, `target_` and the locals `source`, `effective`, `path`, `lca`
are the code's.  What a handler answers is free: any state on the way up may
handle the event, or take a transition to any state.  The tree is a constant
(`Parent`, with `Ancestors` and `Depth`, tied together by `TreeAssumption`).
`active` is history, moved by the calls with `Q_ENTRY_SIG` and `Q_EXIT_SIG`
alone.  **`Statechart`** is what users of `api/qhsm.h` rely on: a transition
leaves, innermost first, what does not contain the goal, then enters down to
it.  `ImplementsStatechart` is the refinement; the one peculiarity of the code
that `Statechart` admits is that a transition inherited from an ancestor also
leaves everything below that ancestor.

**`Health`.**  `projects/Mariy_El_sm` over `Statechart`: seven states, the
signals of `health.cpp`, and for each the handler's list of effects (`todo`),
made one at a time: a variable in RAM together with its word in EEPROM, the
state's word, the LED, the beacon.  A colour of the health is taken when the
LED is set (`GetHealthColor`), so it can be out of date later; of a flash the
colour that stays is modelled.  `Restart` may come before any of them; it
loses RAM and the LED and `OnStarted` builds the machine again from the EEPROM
as `Health_ctor` does.  `EverySecond` dispatches the second and, in order, the
minute and the radiation, which the model lets come in any second.

**`PillMgr`.**  `Check` in the one-second branch of the main loop, its events
through `EvtQMain` (full or not), a behaviour that keeps `pill_manager` as
`api/behavior.h` says and writes the pill when it likes, and `Write` with its
pages, retries and the poll at the end.  Each transfer on the bus is a step;
pills come and go between any two (`Plug`, `Pull`) and transfers fail.

## 4. The runs

| Run | Checks | Shows |
|---|---|---|
| `evtmsgq` | `SemaphoresConsistent`, `RingMatchesSemaphores`, `NoLostWakeup`, `ImplementsFifo`, `SendersGetRoom` | two fetchers, a handler and a sleeping sender on a ring of two: it is a bounded FIFO queue, and a sleeping sender gets room |
| `lvl1` | `TypeOK`, `PacketsMatchEvents`, `LastPowerWins`, `BurstsAreCurrent`, `KeepsListening`, `CommandsServed` | three packets against a queue of three events, two calls, two powers: packets and events stay paired up to counted losses; bursts carry the latest packet |
| `shell` | `ShellTypeOK`, `HandledAsTyped`, `CmdLeftAlone`, `CommandsHandled` | all inputs of five bytes of a host at most one line ahead |
| `shell_mixed` | `HandledAsTyped` violated | two lines in one poll |
| `buttons` | `PressReported`, `LongAfterShort`, `LongReported`, `ComboEnds` | all pin changes of three buttons, one per poll |
| `buttons_swap` | `LongAfterShort` violated | several pins change in one poll |
| `sequencer` | `TypeOK`, `TimerFollowsSequence`, `StoppedStaysDark`, `PlaysAsWritten`, `FiniteEnds` | five sequences with every kind of chunk against calls at every moment |
| `lvl2` | `TypeOK`, `TxEndWakesThread`, `HeardByAll`, `StaysInStep`, `Converges` | three Lockets, three starts (each of which may fail) at any shift of slots, two losses or calls: a packet given while all are in step is heard by all; those with a slot to themselves agree in the end and stay so |
| `lvl2_deaf` | `ListensInCycleZero` violated | the chip is idle where the code says it listens |
| `qhsm` | `RestsConsistent`, `PathFits`, `ImplementsStatechart`, `Returns` | every transition in a tree of eleven states is a statechart's, fits the path, and comes to its end |
| `health` | `RestartResumes`, `SeenAsItIs`, `NoEarlyGod`, `GodEnds` | signals in any order against three restarts between any two effects; the LED of the living shows the health they have |
| `pill` | `ToldInTurn`, `OkMeansWritten`, `SettlesUnlessRefused` | two pills, six moves, five failures, a queue of three: what the behaviour is told, what it has written, and what it knows in the end |

Every property of a passing run has a mutant: an operator beside the mapped
one, commented "mutant:", with a plausible mistake under which TLC finds the
property violated.

### Bounds

* `evtmsgq`: two places are the smallest ring on which wrap-around, "neither
  empty nor full" and two waiting threads all occur.  Proved for any size.
* `lvl1`: queues of 3 and 2 (18 and 4 in the firmware) keep the ratio that
  matters, events outlasting packets and packets outlasting events.  Two words
  are enough for a torn copy, two bursts for a change between bursts.
  `MaxRx`, `MaxCalls` bound packets received and calls.  Its safety is proved
  for any sizes.
* `shell`: a buffer of two letters and the closing zero; five bytes are a full
  line, an overfull one or two lines with corrections.  `Paced` says that the
  host sends no further line before the last was taken off the buffer.  Its
  safety is proved for any letters, buffer and number of bytes.
* `buttons`: three buttons as on the device; the clock wraps after 5 units, the
  long press takes 2, the gap is at most 2 (so no hold is measured across a
  whole wrap).  `HeldAtBoot = FALSE`: a button held while the device starts
  has no rising edge (`pssNone` becomes `pssHi`), so its hold is measured from
  time 0 and has no short press; that case is left out.  Its safety is proved
  for any number of buttons, any wrap, delay and gaps.
* `sequencer`: levels 0..3, sequences in `MCSequencer`; `MaxShown` bounds the
  history `shown`.  At most one `kRepeat` per sequence, and none in what a
  `kGoto` repeats: `RepeatCounter` is shared and `kRepeat` goes back to the
  first chunk, so that two of them start each other again for ever.
  `api/sequences.h` gives "<repetitive part>, kRepeat, kEnd" as the form of
  such a sequence; no sequence of the repository has even one `kRepeat`.
* `lvl2`, `lvl2_deaf`: 3 slots, 2 cycles, one supercycle to keep a time source
  (51, 4 and 4 in the firmware): an own slot, a foreign one before it and one
  after it; a cycle to listen in and one to sleep in.  `MaxBoots` bounds
  starts, `MaxEvents` losses and calls together.  A queue of two makes refused
  messages common (8 in the firmware).  The safety of `lvl2` is proved for any
  numbers of these.
* `qhsm`: the tree has two roots and a spine of four with a branch at each
  level, so the handler, the state and the target take every relative position
  up to three levels above or below their common ancestor.  `Q_MAX_DEPTH` is
  one more than the tree's depth, the least that fits.
* `health`: four points of health, so that death takes several hits; three
  seconds as god, three minutes of pause, and the count saved every third
  second (60 seconds, 30 minutes and every 60th second in the code): each has a value below, at and above its
  threshold.  `MaxRestarts = 3` allows a restart in the recovery from another.
* `pill`: `MaxMoves`, `MaxFailures` (five are needed to exhaust the retries of
  one page) and `MaxOther` bound moves, failing transfers and button events.
  Two pages give a write a middle.

### Fairness

* `evtmsgq`: fetchers only — weak fairness of their steps; their threads call
  `Fetch` in an endless loop.  Nothing is assumed of senders or timeouts.
* `lvl1`: weak fairness of `RadioStep`: the thread has the highest priority,
  and a receive window or transmission ends by itself.  None of the main loop.
* `shell`: weak fairness of the thread's and the main loop's steps, strong
  fairness of `PollRx`, because it is enabled only while the main loop sleeps;
  the main loop does so again and again (it sleeps on I2C every second).
* `sequencer`: virtual timers expire, and code that has been entered runs on.
* `lvl2`, `lvl2_deaf`: slot timer and chip interrupts come, a level 2 thread
  (HIGHPRIO) takes its messages.  None of starts, losses and calls.
* `qhsm`: weak fairness of the engine's steps, which are sequential code.
* `health`: weak fairness of running handlers; strong fairness of
  `EverySecond`, because its event keeps its place in `EvtQMain` whatever
  other events come, although each of them disables it for a while.
* `pill`: weak fairness of the main loop; strong fairness of `Second`: the
  timer fires every second and some time finds a place in the queue.

## 5. Findings

1. `shell_mixed` — `ProcessByteIfReceived` goes on editing after a finished
   command (`uart.cpp:438`).
2. `buttons_swap` — the return for a released combo skips later buttons of the
   same poll (`buttons.cpp:129`); the next poll reports a long press that
   lasted one poll.
3. `lvl2_deaf` — after an empty or damaged packet `state_` stays `Rx` while the
   chip is idle (`radio_lvl2.h:82`): the Locket hears nobody until its own
   slot.  `HeardByAll` therefore needs a beacon from the Lockets with earlier
   slots.

Seen on the way, without a run of their own:

* A packet refused by `received_packets` still sends its event
  (`radio_lvl1.h:77-78`), and the main loop does not look at what
  `FetchReceived` returned (`behavior_runner.h:142`): the behaviour is called
  with a zeroed packet.  `PacketsMatchEvents` counts these.  On the device the
  main loop has to be busy for five received packets.
* A received packet whose event is refused stays in `received_packets` until a
  later event fetches it in its place; the pairing is one behind from then on.
* `Transmit` overwrites the packet of a command that still waits
  (`radio_wrapper.h:13`): of two calls within one radio loop
  (`leo_behavior.cpp:51` and `60` can be such a pair) the earlier packet is
  never sent and the later one twice.
* A packet may be torn *on the air* while `Transmit` copies it; the bursts
  after the copy are whole (`WholeUnlessCopying` says exactly this).
* If the event of a finished command is refused, the line stays closed for
  ever: `CommandsHandled` excepts this case (`refused`).  A refused pill event
  is lost likewise (`SettlesUnlessRefused`).
* Two Lockets whose slots coincide collide in every cycle; in the model, which
  has no drift, they do so for ever.  `Converges` speaks of the others.
* `IEvtMsg` of a sequencer is never configured, so end events do not exist.
* The Kirlits behaviour rewrites the sequence its LED is playing before it
  stops it; the model's sequences are constants.
* A god who uses a heal pill takes the colour of his health although he stays
  a god (`SeenAsItIs` allows both colours).
* `GetHealthColor` is the `kRed` of the dead when `255 * health` is less than
  `DEFAULT_HP` (a health of 0 or 1 of 330).  A device whose EEPROM has never
  been written starts as `simple` with health 0, so its living player shows
  the red of the dead, with the beacon on, until a heal or reset pill; after one
  health stays a positive multiple of 5.  `SeenAsItIs` therefore says which
  colour is shown, and the beacon alone tells the living from the dead.
* The count of seconds as god is saved now and then, but entering the state
  sets it to zero, so a restart begins the god mode anew; with finitely many
  restarts `GodEnds` holds.
* The diagram `Health.graphml` and the code disagree about what the saved state
  DEAD starts as, about what `Health_dead` does on entry (`SetHealth(0)` in the
  diagram only) and about that of `Health_alive` (`SetHealth(DEFAULT_HP)`,
  `SaveHealth` and a light green there; the code keeps the health and shows its
  colour).  The model follows the code.

## 6. What is proved

Each proof module names its invariant and has a lemma per action.  The
theorems hold for all values of the constants that satisfy the named
assumptions.

`EvtMsgQProofs` (for every `Sz > 0`, any messages, and finite sets of senders
and fetchers; assumption `QueueAssumption`): `TypeCorrect`,
`SemaphoresStayConsistent`, `NoPlaceLost`, `RingStaysConsistent`,
`WakeupsAreNotLost`, `RefusalIsJustified`, and `RefinesFifo`, that the
detailed queue implements `BoundedFifo`.  The inductive invariant `IInv` is
`TypeOK /\ SemaphoresConsistent /\ PlacesAccounted /\ RingMatchesSemaphores`;
the other facts follow from it.  Its parts need one another: a send is
allowed to write because free places, used places and those promised to woken
threads add up to `Sz` (`PlacesAccounted`), which bounds the distance of the
pointers; the pointers enclose exactly the places written
(`RingMatchesSemaphores`), which makes the mapped sequence the right one; and
a signal moves a promise only if the waiting queues list exactly the sleepers
and a counter is negative exactly by their number (`TypeOK`,
`SemaphoresConsistent`).

`SequencerProofs` (for all sequences that are well formed, i.e. end in `kEnd`
or in a `kGoto` that stays inside): `TypeCorrect`, `TimerAlwaysFollows`,
`StopIsFinal`.  The invariant `IInv` is
`TypeOK /\ TimerFollowsSequence /\ StoppedStaysDark /\ SwitchesOffAtRest`.
`TypeOK` alone holds the place inside the sequence: only a chunk that is not
the last advances (well-formedness), so `IPCurrentChunk` never runs past the
array.  `SwitchesOffAtRest` is the strengthening that makes `StoppedStaysDark`
inductive: between `Stop`'s locked part and its `ISwitchOff` neither timer nor
sequence is left that could light the output again.
`PlaysAsWrittenHolds` needs sequences of the documented form, `Plain`: `kGoto`
and `kEnd` only as the last chunk, one `kRepeat` at most, and none in the part
a `kGoto` repeats; any lengths, levels, smoothing, waits and counts.  Without
it TLC refutes the statement (see the bounds of `sequencer`); TLC evaluates it
for the sequences of the run (`PlainAssumption`).  That the
history begins the meaning is not inductive, for it says nothing of where the
sequence is.  `PlayInv` does, by one of three equations (`Form`) between
history, place and counter: at chunk `c` for the first time, what the chunks
before `c` mean has been shown; with `r` repeats left of the `n` of a
`kRepeat` at `i`, it has been shown after `n - r` times all before `i`; in the
endless part, after the whole sequence and `j` rounds.  A chunk that shows or
waits extends any of the three (`FormPasses`), `kRepeat` leads from the first
to the second and at its last count back (`FormRepeats`), `kGoto` to the third
or its next round (`FormGoesTo`), and at `kEnd` only the first is left
(`FormEnds`).  A history of `MaxShown` colours stands still.  `TimesIs` and
`UpToIs` say that the recursive functions that define the meaning exist, and
what they do with one time or one chunk more.

`QHsmProofs` (for every tree of `TreeAssumption`, finite or not, and any depth
below `Q_MAX_DEPTH`): `TypeCorrect`, `FieldsAgree`, `PathIsLongEnough`,
`RefinesStatechart`.  The invariant says for each place of `do_transition` how
`effective_`, `source`, `target_` and the states still entered relate; while
the path is built it is a chain of parents as long as it is deep (`Chain`),
which bounds it by `Q_MAX_DEPTH` and makes the common ancestor found by the
search the innermost one.  The refinement follows step by step.

`RadioLevel1Proofs` (any queue lengths, words, bursts and powers).  Two
independent invariants.  `RecvInv` balances the two queues: each action that
sends, refuses or takes an event or a packet changes both sides of
`PacketsMatchEvents` alike; the same invariant keeps the packets in their
order (`PacketsStayInOrder`).  `SendInv` holds the sending side: the last
power command in the queue is the last one accepted (`LevelsMatch`, hence
`LastLevelWins`), and no word of the buffer is older than an accepted packet,
those the copy has reached being of the call under way (`WordsMatch`, hence
`BurstsStayCurrent` and `WholePackets`); a pending command has a packet
(`TransmitsPackets`).

`RadioLevel2Proofs` (any finite range of IDs, any numbers of cycles, any queue
length, any losses): `TypeCorrect`, `EndOfPacketWakesThread`,
`SlotsAreSeparate`, `KeepsTogether`.  The invariant follows the one
transmission a Locket makes per cycle: its `TryToTransmit` waits only in the
own slot and only once (`DueOK`), while it is on the air the packet carries
the slot and cycle of its sender and no receiver's callback is set (`AirOK`),
and nothing of it is left when the slot is over (`SlotOver`).  That is what
makes `StaysInStep` true: a hearer in step with the sender takes over the slot
and cycle it has already.

`EverybodyHears`, in the same module, is `HeardByAll` for at least two cycles
and two places in the queue (`Enough`; with one cycle nobody is ever put to
rest and a deaf Locket stays deaf, with one place a new supercycle's
`TryToReceive` crowds out the `TryToTransmit` of Locket 0, and TLC finds the
property violated in both cases).  A second invariant, `WayInv`, says where a
packet is on its way.  Either it waits for the next cycle 0 that begins from
now on, with repeats enough to last till then (`Waits`; this is what the
`+ 1` in `RCYCLE_CNT + 1` is for); or that cycle is under way and nobody is
deaf (`Comes`); or it is on the air and everybody listens (`OnAir`); or all
have heard it.  What a Locket will do is read off its state and the messages
its thread has still to take (`WillListen`, `WillRest`), so that the thread's
steps preserve it (`HeadTaken`).  A packet accepted at the very end of a cycle
may find somebody deaf in the next one; it then has repeats for one cycle more.

`PillMgrProofs` (any pills, pages and queue length): `TypeCorrect`,
`EventsInTurn`, `WritesAreWhole`.  `ToldInTurn` is inductive with the types:
the pill events waiting in the queue alternate and lead from `pill_manager` to
`IsConnectedNow`.  `WritingMatches` adds where `Write` is and which pages of a
pill that has not been exchanged are new.

`HealthProofs` (any health, damage, times and number of restarts):
`RestartsResume`, `OthersSee`, `GodsWait`.  The machine's places are finitely
many (`MachineOK`: which transitions are under way and what they have left);
the difficulty is the list of effects a handler has begun and not finished.
`ListOK` says what each effect still to be made may be at this place, and that
a new health is shown by the next one, `Seen` that LED and beacon are right as
soon as no effect on them is left, and
`PauseKept` that a pause not yet waited for is in the EEPROM, or the EEPROM
still holds the god's state and a restart will lead to the exit that saves it.
The proof has a lemma per step, and `FirstMade` for what remains of a list.

`InputProofs`, `Buttons` (any number of buttons, wrap of the clock, delay and
gaps): `TypeCorrect`, and, if at most one pin changes per poll, no combo can be
told at its wrong end (`ComboEndsHolds`); if moreover no button is held while
the device starts, every press is told (`PressReportedHolds`), a long press
follows its short press (`LongAfterShortHolds`) and is told in time
(`LongReportedHolds`).  The two hypotheses are not for convenience: without
the first one TLC finds finding 2, and without the second the boot case of
`buttons` above.  A poll is a fold of a turn over the pins.  The proof unfolds
it into a sequence of intermediate states (`FoldExists`), shows that only the
turn of the one changing pin can do more than `Hold` (`OneChange`, `OneEdge`)
and carries `CombosOK` and `PressesOK` through the turns: which combo flags go
with which pins, and how the long-press timer, the age of the press and what
has been told relate.  That age and the wrapping clock agree is `ElapsedAdds`.

`InputProofs`, `UartShell` (any letters, buffer size and number of bytes):
`ShellTypeCorrect`, and, of a host that is `Paced`, `CmdLeftAloneHolds` and
`HandledAsTypedHolds`; finding 1 is what happens otherwise.  `CmdOK` says who
may touch the command buffer: while a command waits or is handled, `RxProcessed`
is closed and no byte of a further line is in the ring.  `TypedOK` adds that
buffer and length are what the line typed so far means (`Shows`), the meaning
being unfolded byte by byte as the poll loop is (`Typing`).

The library's induction theorems cannot be used here, because they take an
operator as parameter.  Where these proofs need an induction they argue by the
least element of a set of counterexamples (`Least`, `SetInduction`, `Upward`).

Only model-checked: all liveness (`SendersGetRoom`, `KeepsListening`,
`CommandsServed`, `CommandsHandled`, `FiniteEnds`, `Converges`, `Returns`,
`GodEnds`, `SettlesUnlessRefused`), which is out of the prover's reach.

## 7. What is not modelled

Most of the repository's lines are vendored: the ChibiOS kernel, CMSIS and the
STM32 headers and drivers (`embedded/os`), and `kl_lib`'s register accesses.
They hold no logic of this system and are modelled at most by their effect.

* The main loop's DIP switch, `set_id` and initialisation: sequential.  Its
  one-second branch is in `PillMgr` as far as pills go; elsewhere the second's
  event is an `OtherEvent`.
* CC1101 registers, SPI, PWM, I2C signals: hardware access.  Where the order of
  chip operations matters (level 2) the chip is `idle`, `rx` or `tx`; a
  transfer on I2C is one step that succeeds or fails, so that a transfer that
  never ends is not covered (listed as a hazard).
* The content a behaviour reads from a pill, and the socket's power.
* EEPROM: a word is written at once or not at all; the unlocking and the
  waiting of `kl_lib.cpp`, and writes that fail, are left out.
* In `Health`: vibro, `MakePillUsed`, the DIP switch, and the counting of
  seconds and radiation up to a signal, for which the model lets the signal
  come in any second.
* `Tor_radiation` and `sm_behavior`: variants of the same pattern over the
  same engine.  What is particular to `Tor_radiation` (a count that wraps) is
  listed as a hazard.
* `api/rx_table.h`: a sequential table used by the main loop only.
* The UART's transmit ring and the byte protocols that are not compiled in.
* The kernel beyond semaphores: taken by its effect.
* Emulator, its fakes and its sequencer, and the integration tests: a user
  interface, threads of a desktop program and scripts.
* Behaviours other than Mariy El: the environment; their own rules are
  sequential.
