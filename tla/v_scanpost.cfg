SPECIFICATION SemSpec
CONSTANTS
  Task = {idle, a, b}
  Idle = idle
  SwtmrTask = idle
  Dummy = dummy
  NoTask = none
  FreeOrder <- MCFreeOrder
  LowestPrio = 2
  WaitObj = {s}
  MaxCount = 1
  UnusedOrder <- MCUnusedOrder
  MaxTimeout = 2
  TIMESLICE = FALSE
  Nesting = TRUE
  Tout = 2
  MaxLock = 1
  Api = {"create", "semcreate", "sempend"}
  IsrApi = {"sempost"}
INVARIANTS NoFault
