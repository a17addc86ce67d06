SPECIFICATION Spec
CONSTANTS
  N = 3
  LongDelay = 2
  Wrap = 5
  MaxGap = 2
  Changes = 3
  HeldAtBoot = FALSE
INVARIANTS
  LongAfterShort
