SPECIFICATION FairSpec
CONSTANTS
  Task = {idle, a, b}
  Idle = idle
  SwtmrTask = idle
  Dummy = dummy
  NoTask = none
  FreeOrder <- MCFreeOrder
  LowestPrio = 2
  WaitObj = {}
  MaxTimeout = 2
  TIMESLICE = TRUE
  Nesting = FALSE
  Tout = 3
  MaxLock = 2
  Api = {"create", "yield", "lock"}
  IsrApi = {"resume"}
PROPERTIES RoundRobin UrgentRuns
