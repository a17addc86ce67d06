CONSTANTS
  Lockets = {0, 1, 2}
  ID_MAX = 2
  RCYCLE_CNT = 2
  SCYCLES_TO_KEEP_TIMESRC = 1
  QLen = 2
  Packets = {p1}
  Beacon = Beacon
  None = None
  MaxBoots = 3
  MaxEvents = 2
SPECIFICATION FairSpec
INVARIANTS
  TypeOK
  TxEndWakesThread
  HeardByAll
PROPERTIES
  StaysInStep
  Converges
