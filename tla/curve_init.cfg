SPECIFICATION Spec
CONSTANTS
  Threads = {t1, t2, t3}
  Ways = {"guarded", "direct"}
  MaxCalls = 2
  NoThread = NoThread
INVARIANTS
  IInv
  GuardedCallersDoNotRace
  InitCurveWritesOnce
PROPERTY
  UsesCompleteParameters
CHECK_DEADLOCK FALSE
