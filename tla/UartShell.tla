----------------------------- MODULE UartShell -----------------------------
(***************************************************************************)
(* The command line of the Locket: bytes come from the UART by DMA into    *)
(* IRxBuf, a polling thread (embedded/kl_lib/uart.cpp) edits them into     *)
(* Cmd_t (embedded/kl_lib/shell.h), and the main loop                      *)
(* (embedded/behavior_runner.h) handles the finished command and gives the *)
(* line back with SignalCmdProcessed.                                      *)
(*                                                                         *)
(* The polling thread and the main loop have the same priority and no time *)
(* slice: neither is preempted by the other, and the thread runs only      *)
(* while the main loop sleeps.  The DMA and the interrupt handlers that    *)
(* send other events go on at any time.                                    *)
(***************************************************************************)
EXTENDS Integers, Sequences, SequencesExt

CONSTANTS Letters,   \* what a command is made of
          CmdBufSz,  \* CMD_BUF_SZ, with the closing zero
          RxBufSz,   \* UART_RXBUF_SZ
          EvtQLen,   \* MAIN_EVT_Q_LEN
          Paced,     \* is the host at most one line ahead?
          MaxBytes   \* bound: bytes the host sends

ASSUME ShellAssumption ==
  /\ CmdBufSz \in Nat \ {0, 1} /\ RxBufSz \in Nat \ {0} /\ EvtQLen \in Nat \ {0}
  /\ Letters \cap {"BS", "CR", 0} = {}
  /\ Paced \in BOOLEAN /\ MaxBytes \in Nat

Bytes == Letters \cup {"BS", "CR"}

VARIABLES unread,                   \* bytes of IRxBuf from RIndx to the DMA's place
          IString, Cnt, Completed,  \* Cmd_t
          RxProcessed,              \* may the thread touch Cmd?
          EvtQMain,                 \* evtIdShellCmd and other events
          rxThread, main,           \* where the two threads are
          sent, handled,            \* history: bytes of the host, commands handled
          refused                   \* history: an evtIdShellCmd found EvtQMain full

cmd  == <<IString, Cnt, Completed>>
shellVars == <<unread, IString, Cnt, Completed, RxProcessed, EvtQMain, rxThread,
               main, sent, handled, refused>>

ShellInit ==
  /\ unread = <<>>
  /\ IString = [i \in 0 .. CmdBufSz - 1 |-> 0] /\ Cnt = 0 /\ Completed = FALSE
  /\ RxProcessed = TRUE
  /\ EvtQMain = <<>>
  /\ rxThread = "sleep" /\ main = "handler"
  /\ sent = <<>> /\ handled = <<>> /\ refused = FALSE

-----------------------------------------------------------------------------
(* What the host typed: its commands, oldest first, and the open line.     *)
(* Letters beyond the buffer are dropped, an empty line is no command.     *)
Type(t, b) ==
  CASE b = "BS" -> [t EXCEPT !.line = IF @ = <<>> THEN @ ELSE Front(@)]
    [] b = "CR" /\ t.line = <<>> -> t
    [] b = "CR" /\ t.line # <<>> -> [cmds |-> Append(t.cmds, t.line), line |-> <<>>]
    [] b \in Letters -> [t EXCEPT !.line = IF Len(@) = CmdBufSz - 1 THEN @ ELSE Append(@, b)]

Typed    == FoldLeft(Type, [cmds |-> <<>>, line |-> <<>>], sent)
Waiting  == Len(Typed.cmds) > Len(handled)

(* A paced host starts no line before the thread has taken the one before. *)
LineTaken == "CR" \notin ToSet(unread) /\ (rxThread = "poll" => RxProcessed)

(* The DMA writes in a circle and has no idea of RIndx: when it catches up *)
(* GetByte finds nothing.                                                  *)
Arrive(b) ==
  /\ Len(sent) < MaxBytes
  /\ Paced => LineTaken /\ Len(unread) + 1 < RxBufSz
  /\ sent' = Append(sent, b)
  /\ unread' = IF Len(unread) + 1 = RxBufSz THEN <<>> ELSE Append(unread, b)
  /\ UNCHANGED <<cmd, RxProcessed, EvtQMain, rxThread, main, handled, refused>>

-----------------------------------------------------------------------------
(* UartRxThread.  It gets the processor while the main loop sleeps: in     *)
(* Fetch with nothing to fetch, or inside a handler.                       *)
MainSleeps == main = "loop" => EvtQMain = <<>>

\* mutant: RxProcessed is not asked
PollAlways ==
  /\ rxThread = "sleep" /\ MainSleeps
  /\ rxThread' = "poll"
  /\ UNCHANGED <<unread, cmd, RxProcessed, EvtQMain, main, sent, handled, refused>>

PollRx ==
  /\ rxThread = "sleep" /\ MainSleeps
  /\ RxProcessed
  /\ rxThread' = "poll"
  /\ UNCHANGED <<unread, cmd, RxProcessed, EvtQMain, main, sent, handled, refused>>

(* Cmd_t::PutChar.  Cnt starts over after a finished command; a letter     *)
(* with no room left and the end of an empty line are dropped.             *)
CntBefore        == IF Completed THEN 0 ELSE Cnt
RoomLate(n)      == n < CmdBufSz                  \* mutant: none kept for the zero
Room(n)          == n < CmdBufSz - 1
CompletesLate(c) == c = "CR"                      \* mutant: Cnt not tested
Completes(c)     == c = "CR" /\ CntBefore # 0
Store(c)         == IString' = [IString EXCEPT ![CntBefore] = c]

PutChar(c) ==
  /\ Completed' = Completes(c)
  /\ \/ c = "BS" /\ Cnt' = (IF CntBefore > 0 THEN CntBefore - 1 ELSE 0) /\ UNCHANGED IString
     \/ Completes(c) /\ Cnt' = CntBefore /\ Store(0)
     \/ c \in Letters /\ Room(CntBefore) /\ Cnt' = CntBefore + 1 /\ Store(c)
     \/ /\ (c = "CR" /\ ~Completes(c)) \/ (c \in Letters /\ ~Room(CntBefore))
        /\ Cnt' = CntBefore /\ UNCHANGED IString

(* Each turn of the loop in ProcessByteIfReceived: it goes on after a      *)
(* finished command, and does not ask whether the event was accepted.      *)
PollByte ==
  /\ rxThread = "poll" /\ unread # <<>>
  /\ unread' = Tail(unread)
  /\ PutChar(Head(unread))
  /\ IF Completes(Head(unread))
     THEN /\ RxProcessed' = FALSE
          /\ \/ /\ Len(EvtQMain) < EvtQLen
                /\ EvtQMain' = Append(EvtQMain, "shell")
                /\ UNCHANGED refused
             \/ /\ Len(EvtQMain) >= EvtQLen
                /\ refused' = TRUE
                /\ UNCHANGED EvtQMain
     ELSE UNCHANGED <<RxProcessed, EvtQMain, refused>>
  /\ UNCHANGED <<rxThread, main, sent, handled>>

PollEnd ==
  /\ rxThread = "poll" /\ unread = <<>>
  /\ rxThread' = "sleep"
  /\ UNCHANGED <<unread, cmd, RxProcessed, EvtQMain, main, sent, handled, refused>>

-----------------------------------------------------------------------------
(* The main loop.  A handler reads the command up to its closing zero      *)
(* before anything can make it sleep.                                      *)
Text == LET n == CHOOSE n \in 0 .. CmdBufSz :
                   /\ n = CmdBufSz \/ IString[n] = 0
                   /\ \A i \in 0 .. n - 1 : IString[i] # 0
        IN [i \in 1 .. n |-> IString[i - 1]]

Fetch ==
  /\ rxThread = "sleep" /\ main = "loop" /\ EvtQMain # <<>>
  /\ EvtQMain' = Tail(EvtQMain)
  /\ \/ Head(EvtQMain) = "shell" /\ main' = "shell" /\ handled' = Append(handled, Text)
     \/ Head(EvtQMain) = "other" /\ main' = "handler" /\ UNCHANGED handled
  /\ UNCHANGED <<unread, cmd, RxProcessed, rxThread, sent, refused>>

SignalForgotten ==     \* mutant: no SignalCmdProcessed
  /\ rxThread = "sleep" /\ main = "shell"
  /\ main' = "loop"
  /\ UNCHANGED <<unread, cmd, EvtQMain, rxThread, sent, handled, refused, RxProcessed>>

SignalCmdProcessed ==
  /\ rxThread = "sleep" /\ main = "shell"
  /\ RxProcessed' = TRUE
  /\ main' = "loop"
  /\ UNCHANGED <<unread, cmd, EvtQMain, rxThread, sent, handled, refused>>

HandlerReturn ==
  /\ rxThread = "sleep" /\ main = "handler"
  /\ main' = "loop"
  /\ UNCHANGED <<unread, cmd, RxProcessed, EvtQMain, rxThread, sent, handled, refused>>

OtherEvent ==
  /\ Len(EvtQMain) < EvtQLen
  /\ EvtQMain' = Append(EvtQMain, "other")
  /\ UNCHANGED <<unread, cmd, RxProcessed, rxThread, main, sent, handled, refused>>

RxStep   == PollByte \/ PollEnd
MainStep == Fetch \/ SignalCmdProcessed \/ HandlerReturn

ShellNext == (\E b \in Bytes : Arrive(b)) \/ PollRx \/ RxStep \/ MainStep \/ OtherEvent
ShellSpec == ShellInit /\ [][ShellNext]_shellVars

(* Both threads run on, and the main loop sleeps again and again: at the   *)
(* latest in the I2C transfers of the pill check it makes every second.    *)
FairShellSpec == ShellSpec /\ SF_shellVars(PollRx) /\ WF_shellVars(RxStep) /\ WF_shellVars(MainStep)

-----------------------------------------------------------------------------
CmdPending == "shell" \in ToSet(EvtQMain) \/ main = "shell"

ShellTypeOK ==
  /\ unread \in Seq(Bytes) /\ Len(unread) < RxBufSz
  /\ IString \in [0 .. CmdBufSz - 1 -> Letters \cup {0}]
  /\ Cnt \in 0 .. CmdBufSz - 1
  /\ {Completed, RxProcessed, refused} \subseteq BOOLEAN
  /\ EvtQMain \in Seq({"shell", "other"}) /\ Len(EvtQMain) <= EvtQLen
  /\ rxThread \in {"sleep", "poll"} /\ main \in {"loop", "shell", "handler"}
  /\ sent \in Seq(Bytes) /\ handled \in Seq(Seq(Letters))

(* To a host at most one line ahead: the commands handled are the ones it  *)
(* typed, in order, letter for letter.                                     *)
HandledAsTyped == IsPrefix(handled, Typed.cmds)

(* Cmd is never edited while its command waits to be handled or is being   *)
(* handled, even while the next line arrives.                              *)
CmdLeftAlone ==
  [][CmdPending => UNCHANGED cmd]_shellVars

(* A finished line is handled in the end, unless its event was refused.    *)
CommandsHandled == Waiting ~> ~Waiting \/ refused
=============================================================================
