SPECIFICATION Spec
CONSTANTS
  DEFAULT_HP = 4
  DEFAULT_DAMAGE = 1
  GOD_THRESHOLD_S = 3
  GOD_PAUSE_M = 3
  HEALTH_SAVE_PAUSE = 3
  MaxRestarts = 3
INVARIANTS RestartResumes SeenAsItIs
PROPERTIES NoEarlyGod GodEnds
