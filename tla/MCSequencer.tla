---------------------------- MODULE MCSequencer ----------------------------
(***************************************************************************)
(* An instance of Sequencer for TLC: sequences with every kind of chunk.   *)
(***************************************************************************)
EXTENDS Sequencer

Light(smooth, level) == [type |-> "kSetup", value |-> smooth, color |-> level]
Pause(ms) == [type |-> "kWait", value |-> ms, color |-> Black]
Jump(place) == [type |-> "kGoto", value |-> place, color |-> Black]
Again(count) == [type |-> "kRepeat", value |-> count, color |-> Black]
Finish == [type |-> "kEnd", value |-> 0, color |-> Black]

\* Waits inside the repeated part, repeats without a wait, waits of zero,
\* smooth ways up and down, introductions before endless loops.
MCChunks ==
    [blinks  |-> <<Light(0, 2), Pause(1), Light(0, 0), Pause(0), Again(2), Light(1, 1), Finish>>,
     bursts  |-> <<Light(0, 1), Light(0, 2), Again(1), Pause(1), Light(1, 0), Finish>>,
     never   |-> <<Light(0, 1), Pause(1), Again(0), Finish>>,
     forever |-> <<Light(0, 1), Pause(1), Light(1, 3), Light(2, 0), Jump(1)>>,
     intro   |-> <<Light(0, 2), Pause(1), Again(1), Pause(0), Light(1, 1), Jump(3)>>]
MCNames == DOMAIN MCChunks

ASSUME PlainAssumption == Plain

=============================================================================
