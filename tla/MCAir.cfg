SPECIFICATION Spec
CONSTANTS
  N = 3
  Listener = {1, 3}
  Power <- Hidden
  Message = {m1}
  Airtime = {5, 6}
  KeyedTwice = TRUE
  StepMs = 2
  MaxMs = 12
  MaxPackets = 3
  PreambleMs = 6
  LockMs = 1
  SymbolMs = 1
  Capture = 1
  SlackMs = 2
INVARIANT TypeOK
INVARIANT ConcurrentComplete
INVARIANT HalfDuplex
INVARIANT OneDemodulator
INVARIANT Scored
INVARIANT JudgedOnce
INVARIANT EventsSinceNearly
CHECK_DEADLOCK FALSE
