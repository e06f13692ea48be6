SPECIFICATION FairSemSpec
CONSTANTS
  Task = {idle, a, b}
  Idle = idle
  SwtmrTask = idle
  Dummy = dummy
  NoTask = none
  FreeOrder <- MCFreeOrder
  LowestPrio = 2
  WaitObj = {s}
  MaxCount = 1
  UnusedOrder <- MCUnusedOrder
  MaxTimeout = 2
  TIMESLICE = FALSE
  Nesting = FALSE
  Tout = 2
  MaxLock = 1
  Api = {"create", "delay", "suspend", "resume", "semcreate", "sempend", "sempost", "semdelete"}
  IsrApi = {"sempost", "sempend"}
INVARIANTS SemTypeOK WaitAgrees NoIdleToken OkIffPosted
PROPERTIES TimedWaitEnds
