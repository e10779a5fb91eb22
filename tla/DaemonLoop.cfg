\* Signals, wakes, ticks, timers and changes of addresses; fair.
SPECIFICATION LiveSpec
CONSTANTS
  Intervals = {1, 5}  MinWake = 2  IterMax = 2  SigCap = 2
  Addr = {a1}  MaxSignals = 3  MaxChanges = 2  MaxQueue = 2
INVARIANTS
  TypeOK
  IntervalKept
  PromptReconcile
  MissedChangeReconciled
PROPERTIES WakesAreSpaced TermEndsLoop
