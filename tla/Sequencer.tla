----------------------------- MODULE Sequencer -----------------------------
(***************************************************************************)
(* BaseSequencer_t (embedded/kl_lib/ChunkTypes.h) as the RGB LED uses it   *)
(* (embedded/kl_lib/led.h); vibro and beeper are the LED without smoothing *)
(* (every setup has value 0).  A sequence is an array of chunks; the main  *)
(* loop starts and stops sequences, a virtual timer's interrupt goes on    *)
(* with them.  Both run IIrqHandler with the kernel locked: `by` says who  *)
(* is in its loop, which then runs one chunk per step and alone.           *)
(*                                                                         *)
(* A colour is its brightness, 0 is black.  IEvtMsg.ID stays evtIdNone (no *)
(* code sets it), so the events of kGoto and kEnd are left out; durations  *)
(* are left out too, but not whether they are zero.                        *)
(***************************************************************************)
EXTENDS Integers, Sequences, SequencesExt

CONSTANTS Names,      \* the sequences of the program: their addresses
          Chunks,     \* the chunks of each
          MaxLevel,   \* the brightest colour
          MaxShown,   \* bound: of the history `shown`
          Null        \* nullptr: no sequence

Levels == 0..MaxLevel
Black == 0

\* Of the union in BaseChunk, `value` is the smoothing time of a kSetup, the
\* time of a kWait, the target of a kGoto or the count of a kRepeat.
ChunkTypes == {"kSetup", "kWait", "kGoto", "kEnd", "kRepeat"}
Chunk == [type : ChunkTypes, value : Nat, color : Levels]

\* api/sequences.h: a sequence ends with kEnd or kGoto, which stays inside it.
WellFormed(s) ==
    /\ s \in Seq(Chunk) /\ Len(s) > 0
    /\ s[Len(s)].type \in {"kEnd", "kGoto"}
    /\ \A i \in 1..Len(s) : s[i].type = "kGoto" => s[i].value < Len(s)

ASSUME NullAssumption == Null \notin Names
ASSUME ChunksAssumption == /\ DOMAIN Chunks = Names
                           /\ \A n \in Names : WellFormed(Chunks[n])
ASSUME BoundsAssumption == MaxLevel \in Nat /\ MaxShown \in Nat

VARIABLES
    start,          \* IPStartChunk
    current,        \* IPCurrentChunk: its place in the sequence, 0 for nullptr
    repeatCounter,  \* RepeatCounter
    armed,          \* chVTIsArmedI(&ITmr)
    color,          \* ICurrColor, which is also what the LED shows
    by,             \* who runs IIrqHandler: "main", "timer" or "nobody"
    main,           \* where the main loop is in a call, and its argument
    shown           \* history: colours set up since the last start

vars == <<start, current, repeatCounter, armed, color, by, main, shown>>
tape == <<start, current, repeatCounter>>

Idle == [at |-> "idle", arg |-> Null]
MainStates == {Idle} \cup [at : {"differs"}, arg : Names]
                     \cup [at : {"stopping", "switchingOff", "stopped"}, arg : {Null}]

TypeOK ==
    /\ start \in Names \cup {Null}
    /\ IF start = Null THEN current = 0 ELSE current \in 1..Len(Chunks[start])
    /\ repeatCounter \in Int
    /\ armed \in BOOLEAN
    /\ color \in Levels
    /\ by \in {"main", "timer", "nobody"}
    /\ main \in MainStates
    /\ shown \in Seq(Levels)

Init ==
    /\ start = Null /\ current = 0 /\ repeatCounter = -1
    /\ armed = FALSE /\ color = Black
    /\ by = "nobody" /\ main = Idle /\ shown = <<>>

----------------------------------------------------------------------------
(* IIrqHandler: one action per kind of chunk.                              *)

Now == Chunks[start][current]
IsAt(type) == by # "nobody" /\ Now.type = type
Next1 == current' = current + 1
SetupDelay == armed' = TRUE /\ by' = "nobody"
GoesOn == UNCHANGED <<armed, by>>

Toward(c, target) ==
    IF c < target THEN c + 1 ELSE IF c > target THEN c - 1 ELSE c

\* ISetup: at once without smoothing, else one step closer; a colour that is
\* not reached yet keeps the chunk and asks for the timer (sltBreak).
Setup ==
    /\ IsAt("kSetup")
    /\ color' = IF Now.value = 0 THEN Now.color ELSE Toward(color, Now.color)
    /\ IF color' = Now.color
       THEN /\ Next1 /\ GoesOn
            /\ shown' = IF Len(shown) < MaxShown THEN Append(shown, Now.color) ELSE shown
       ELSE SetupDelay /\ UNCHANGED <<current, shown>>
    /\ UNCHANGED <<start, repeatCounter, main>>

\* mutant: a wait that takes time is not passed
WaitStays ==
    /\ IsAt("kWait")
    /\ IF Now.value # 0 THEN SetupDelay /\ UNCHANGED current ELSE Next1 /\ GoesOn
    /\ UNCHANGED <<start, repeatCounter, color, main, shown>>

Wait ==
    /\ IsAt("kWait")
    /\ Next1
    /\ IF Now.value # 0 THEN SetupDelay ELSE GoesOn
    /\ UNCHANGED <<start, repeatCounter, color, main, shown>>

Goto ==
    /\ IsAt("kGoto")
    /\ current' = 1 + Now.value
    /\ SetupDelay
    /\ UNCHANGED <<start, repeatCounter, color, main, shown>>

\* mutant: IPCurrentChunk is not cleared
EndKeepsPlace ==
    /\ IsAt("kEnd")
    /\ start' = Null /\ by' = "nobody"
    /\ UNCHANGED <<current, repeatCounter, armed, color, main, shown>>

End ==
    /\ IsAt("kEnd")
    /\ start' = Null /\ current' = 0 /\ by' = "nobody"
    /\ UNCHANGED <<repeatCounter, armed, color, main, shown>>

Repeat ==
    /\ IsAt("kRepeat")
    /\ LET count == IF repeatCounter = -1 THEN Now.value ELSE repeatCounter
       IN IF count = 0 THEN repeatCounter' = -1 /\ Next1
                       ELSE repeatCounter' = count - 1 /\ current' = 1
    /\ UNCHANGED <<start, armed, color, by, main, shown>>

Handler == Setup \/ Wait \/ Goto \/ End \/ Repeat

\* The virtual timer expires: the kernel disarms it and calls TmrKLCallback.
TimerFires ==
    /\ armed /\ by = "nobody"
    /\ armed' = FALSE /\ by' = "timer"
    /\ UNCHANGED <<start, current, repeatCounter, color, main, shown>>

----------------------------------------------------------------------------
(* The main loop's calls.  Only what stands between chSysLock and          *)
(* chSysUnlock is safe from the timer.                                     *)

\* mutant: a running timer is not reset
BeginKeepsTimer(n) ==
    /\ start' = n /\ current' = 1 /\ repeatCounter' = -1
    /\ by' = "main" /\ main' = Idle
    /\ shown' = <<>>
    /\ UNCHANGED <<armed, color>>

\* mutant: the repeat counter of the old sequence is kept
BeginKeepsCounter(n) ==
    /\ start' = n /\ current' = 1
    /\ armed' = FALSE /\ by' = "main" /\ main' = Idle
    /\ shown' = <<>>
    /\ UNCHANGED <<repeatCounter, color>>

\* StartOrRestart's locked part: the entry of IIrqHandler resets the timer.
Begin(n) ==
    /\ start' = n /\ current' = 1 /\ repeatCounter' = -1
    /\ armed' = FALSE /\ by' = "main" /\ main' = Idle
    /\ shown' = <<>>
    /\ UNCHANGED color

AtRest == by = "nobody" /\ main.at \in {"idle", "stopped"}

StartOrRestart(n) == AtRest /\ Begin(n)

\* StartOrContinue compares the pointers before the lock is taken.
ContinueSame(n) ==
    /\ AtRest /\ n = start
    /\ main' = Idle
    /\ UNCHANGED <<tape, armed, color, by, shown>>

ContinueDiffers(n) ==
    /\ AtRest /\ n # start
    /\ main' = [at |-> "differs", arg |-> n]
    /\ UNCHANGED <<tape, armed, color, by, shown>>

ContinueStarts == by = "nobody" /\ main.at = "differs" /\ Begin(main.arg)

At(place) == [at |-> place, arg |-> Null]

\* mutant: returns at once when no sequence runs
StopTestReturns ==
    /\ AtRest
    /\ main' = IF start # Null THEN At("stopping") ELSE At("stopped")
    /\ UNCHANGED <<tape, armed, color, by, shown>>

\* Stop: the test, the locked reset and ISwitchOff are three moments.
StopTest ==
    /\ AtRest
    /\ main' = IF start # Null THEN At("stopping") ELSE At("switchingOff")
    /\ UNCHANGED <<tape, armed, color, by, shown>>

StopReset ==
    /\ by = "nobody" /\ main = At("stopping")
    /\ armed' = FALSE
    /\ start' = Null /\ current' = 0
    /\ main' = At("switchingOff")
    /\ UNCHANGED <<repeatCounter, color, by, shown>>

SwitchOff ==
    /\ by = "nobody" /\ main = At("switchingOff")
    /\ color' = Black
    /\ main' = At("stopped")
    /\ UNCHANGED <<tape, armed, by, shown>>

InCall == ContinueStarts \/ StopReset \/ SwitchOff
Call == (\E n \in Names : StartOrRestart(n) \/ ContinueSame(n) \/ ContinueDiffers(n)) \/ StopTest

Next == Handler \/ TimerFires \/ InCall \/ Call
Spec == Init /\ [][Next]_vars

\* Code runs on and timers expire; the behaviour need not call anything.
Fairness == WF_vars(Handler) /\ WF_vars(TimerFires) /\ WF_vars(InCall)
FairSpec == Spec /\ Fairness
----------------------------------------------------------------------------
(* Properties.                                                             *)

\* A sequence is in play exactly while the timer will call the handler
\* again, or the handler is in its loop: a sequence without a timer would
\* freeze the LED forever, a timer or a loop without a sequence would read a
\* chunk at a null pointer.  Every exit of IIrqHandler's loop, the restart
\* in the middle of a wait and Stop's three unlocked moments must keep this.
TimerFollowsSequence ==
    /\ armed <=> start # Null /\ by = "nobody"
    /\ by # "nobody" => start # Null

\* From the return of Stop to the next start the LED is dark and nothing can
\* light it again (api/led.h: "Stop sequence execution ... Turns LED off."),
\* although the timer may fire before and after Stop's test.
StoppedStaysDark ==
    main.at = "stopped" => color = Black /\ start = Null /\ ~armed

\* What makes the two inductive: nothing can start again between Stop's
\* locked reset and ISwitchOff.
SwitchesOffAtRest == main.at = "switchingOff" => start = Null /\ ~armed
IInv == TypeOK /\ TimerFollowsSequence /\ StoppedStaysDark /\ SwitchesOffAtRest

\* What a sequence means, chunk by chunk: kRepeat plays all before it again,
\* kGoto what begins at its target, as long as `shown` can tell.
Times(s, n) == LET times[i \in 0..n] == IF i = 0 THEN <<>> ELSE times[i - 1] \o s IN times[n]
Adds(soFar, c) ==
    IF c.type = "kSetup" THEN Append(soFar, c.color)
    ELSE IF c.type = "kRepeat" THEN Times(soFar, c.value + 1) ELSE soFar
UpTo(s) ==
    LET upTo[i \in 0..Len(s)] == IF i = 0 THEN <<>> ELSE Adds(upTo[i - 1], s[i])
    IN upTo
Means(s) == UpTo(s)[Len(s)]
Part(s) == SubSeq(s, Last(s).value + 1, Len(s))
Circle(s) == IF Last(s).type = "kGoto" THEN Means(Part(s)) ELSE <<>>
Meaning(s) == Means(s) \o Times(Circle(s), MaxShown)

\* What the LED has shown since the last start is the beginning of what the
\* sequence means: restarts in the middle of a repeat, timers that fire
\* during a call and loops inside the handler neither skip nor add a chunk,
\* and kEnd comes after the last.
PlaysAsWritten ==
    start # Null =>
        LET meaning == Meaning(Chunks[start])
        IN /\ IsPrefix(shown, meaning)
           /\ IsAt("kEnd") => Len(shown) \in {Len(meaning), MaxShown}

\* There is one RepeatCounter, and kRepeat goes back to the first chunk: so a
\* sequence has one kRepeat at most, outside what a kGoto repeats, and kGoto
\* and kEnd are last ("<repetitive part>, kRepeat, kEnd", api/sequences.h).
PlainSequence(s) ==
    /\ \A i \in 1..Len(s) : s[i].type \in {"kGoto", "kEnd"} => i = Len(s)
    /\ \A i, j \in 1..Len(s) : s[i].type = "kRepeat" /\ s[j].type = "kRepeat" => i = j
    /\ Last(s).type = "kGoto" => \A i \in 1..Len(s) : s[i].type = "kRepeat" => i <= Last(s).value
Plain == \A n \in Names : PlainSequence(Chunks[n])

\* A sequence without kGoto comes to its kEnd, unless the behaviour starts or
\* stops something else: repeats are finite, smoothing reaches its colour,
\* and no chunk loses the timer.
Finite(n) == \A i \in 1..Len(Chunks[n]) : Chunks[n][i].type # "kGoto"
JustStarted == by = "main" /\ current = 1 /\ repeatCounter = -1
FiniteEnds ==
    \A n \in Names : Finite(n) => (start = n ~> start # n \/ JustStarted)

=============================================================================
