SPECIFICATION FairSpec
CONSTANTS
  EvtQLen = 3
  RMsgQLen = 2
  Bursts = 2
  Words = 2
  PowerLevels = {weak, strong}
  DefaultPower = weak
  MaxRx = 3
  MaxCalls = 2
INVARIANTS
  TypeOK
  PacketsMatchEvents
  LastPowerWins
PROPERTIES
  BurstsAreCurrent
  KeepsListening
  CommandsServed
