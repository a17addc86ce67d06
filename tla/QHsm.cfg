SPECIFICATION Spec
CONSTANTS
  a = a
  b = b
  c = c
  d = d
  ax = ax
  ay = ay
  bx = bx
  by = by
  cx = cx
  r = r
  rx = rx
  Top = Top
  NoState = NoState
  Initial = Initial
  States <- MCStates
  Parent <- MCParent
  Ancestors <- MCAncestors
  Depth <- MCDepth
  Q_MAX_DEPTH = 5
INVARIANTS RestsConsistent PathFits
PROPERTIES ImplementsStatechart Returns
