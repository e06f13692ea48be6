SPECIFICATION Spec
CONSTANTS
  Task = {idle, a, b, c}
  Idle = idle
  SwtmrTask = idle
  Dummy = dummy
  NoTask = none
  FreeOrder <- MCFreeOrder
  LowestPrio = 2
  WaitObj = {}
  MaxTimeout = 2
  TIMESLICE = FALSE
  Nesting = FALSE
  Tout = 2
  MaxLock = 1
  Api = {"create", "delay", "yield", "lock", "suspend", "resume", "priset", "delete"}
  IsrApi = {"resume", "delete"}
INVARIANTS TypeOK ReadyAgrees TimerAgrees TcbAgrees NoFault HighestRuns SwitchTargetReady
PROPERTIES LockHolds SuspendedNotScheduled
