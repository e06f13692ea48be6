SPECIFICATION MuxSpec
CONSTANTS
  Task = {idle, a, b, c}
  Idle = idle
  SwtmrTask = idle
  Dummy = dummy
  NoTask = none
  FreeOrder <- MCFreeOrder
  LowestPrio = 2
  WaitObj = {m}
  MaxNest = 2
  UnusedOrder <- MCUnusedOrder
  MaxTimeout = 1
  TIMESLICE = FALSE
  Nesting = FALSE
  Tout = 2
  MaxLock = 1
  Api = {"create", "suspend", "muxcreate", "muxpend", "muxpost", "muxdelete"}
  IsrApi = {"resume"}
INVARIANTS MuxTypeOK OwnerKnows WaitersHaveOwner Restored
PROPERTIES InheritsFromNewcomer
