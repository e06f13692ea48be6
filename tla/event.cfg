SPECIFICATION EventSpec
CONSTANTS
  Task = {idle, a, b}
  Idle = idle
  SwtmrTask = idle
  Dummy = dummy
  NoTask = none
  FreeOrder <- MCFreeOrder
  LowestPrio = 2
  WaitObj = {e}
  Bit = {x, y}
  MaxTimeout = 1
  TIMESLICE = FALSE
  Nesting = FALSE
  Tout = 2
  MaxLock = 1
  Api = {"create", "eventread"}
  IsrApi = {"eventwrite", "eventclear", "resume"}
INVARIANTS EventTypeOK NoMissedEvent ZeroOnlyIfRobbed
