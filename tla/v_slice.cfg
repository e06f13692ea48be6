SPECIFICATION Spec
CONSTANTS
  Task = {idle, a, b}
  Idle = idle
  SwtmrTask = idle
  Dummy = dummy
  NoTask = none
  FreeOrder <- MCFreeOrder
  LowestPrio = 2
  WaitObj = {}
  MaxTimeout = 2
  TIMESLICE = TRUE
  Nesting = FALSE
  Tout = 2
  MaxLock = 1
  Api = {"create", "delay"}
  IsrApi = {}
INVARIANTS BlockedNotReady
