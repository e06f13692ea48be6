SPECIFICATION SignalSpec
CONSTANTS
  Task = {idle, a, b}
  Idle = idle
  SwtmrTask = idle
  Dummy = dummy
  NoTask = none
  FreeOrder <- MCFreeOrder
  LowestPrio = 1
  WaitObj = {idle, a, b}
  Signal = {x}
  Bit = {x, y}
  MaxTimeout = 1
  TIMESLICE = FALSE
  Nesting = FALSE
  Tout = 2
  MaxLock = 1
  Api = {"create", "signalset", "signalwait"}
  IsrApi = {"signalset"}
INVARIANT SignalKept
