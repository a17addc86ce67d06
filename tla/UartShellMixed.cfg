SPECIFICATION ShellSpec
CONSTANTS
  Letters = {a, b}
  CmdBufSz = 3
  RxBufSz = 8
  EvtQLen = 2
  Paced = FALSE
  MaxBytes = 4
INVARIANTS
  HandledAsTyped
