SPECIFICATION FairSpec
CONSTANTS
  Task = {idle, a, b}
  Idle = idle
  SwtmrTask = idle
  Dummy = dummy
  NoTask = none
  FreeOrder <- MCFreeOrder
  LowestPrio = 2
  WaitObj = {}
  MaxTimeout = 2
  TIMESLICE = FALSE
  Nesting = FALSE
  Tout = 2
  MaxLock = 2
  Api = {"create", "delay", "yield", "lock", "suspend", "resume"}
  IsrApi = {"resume"}
PROPERTIES DelayEnds UrgentRuns
