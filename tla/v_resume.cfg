SPECIFICATION Spec
CONSTANTS
  Task = {idle, a, b}
  Idle = idle
  SwtmrTask = idle
  Dummy = dummy
  NoTask = none
  FreeOrder <- MCFreeOrder
  LowestPrio = 2
  WaitObj = {}
  MaxTimeout = 1
  TIMESLICE = FALSE
  Nesting = TRUE
  Tout = 2
  MaxLock = 1
  Api = {"create", "delay", "suspend", "resume"}
  IsrApi = {"resume"}
INVARIANTS NoneStranded
