SPECIFICATION Spec
CONSTANTS
  Pills = {p1, p2}
  Pages = 2
  QSize = 3
  MaxMoves = 6
  MaxFailures = 5
  MaxOther = 1
INVARIANTS ToldInTurn
PROPERTIES OkMeansWritten SettlesUnlessRefused
