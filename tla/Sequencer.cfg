CONSTANTS
  Null = Null
  Chunks <- MCChunks
  Names <- MCNames
  MaxLevel = 3
  MaxShown = 8
SPECIFICATION FairSpec
INVARIANTS
  TypeOK
  TimerFollowsSequence
  StoppedStaysDark
  PlaysAsWritten
PROPERTIES
  FiniteEnds
