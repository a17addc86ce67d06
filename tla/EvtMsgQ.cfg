SPECIFICATION FairSpec
CONSTANTS
  Sz = 2
  Msgs = {m1, m2}
  NoMsg = NoMsg
  Senders = {isr, thd}
  Isrs = {isr}
  Fetchers = {main, aux}
INVARIANTS
  SemaphoresConsistent
  RingMatchesSemaphores
  NoLostWakeup
PROPERTIES
  ImplementsFifo
  SendersGetRoom
