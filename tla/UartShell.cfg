SPECIFICATION FairShellSpec
CONSTANTS
  Letters = {a, b}
  CmdBufSz = 3
  RxBufSz = 8
  EvtQLen = 2
  Paced = TRUE
  MaxBytes = 5
INVARIANTS
  ShellTypeOK
  HandledAsTyped
PROPERTIES
  CmdLeftAlone
  CommandsHandled
