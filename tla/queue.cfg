SPECIFICATION QueueSpec
CONSTANTS
  Task = {idle, a, b}
  Idle = idle
  SwtmrTask = idle
  Dummy = dummy
  NoTask = none
  FreeOrder <- MCFreeOrder
  LowestPrio = 2
  WaitObj <- MCWaitObj
  Queue = {q}
  MailQueue = q
  MaxLen = 2
  MCBlock = {m1, m2}
  PoolOrder <- MCPoolOrder
  MaxTimeout = 1
  TIMESLICE = FALSE
  Nesting = FALSE
  Tout = 2
  MaxLock = 1
  Api = {"create", "queuecreate", "queuedelete", "read", "write", "mailalloc", "mailfree"}
  IsrApi = {"read", "write"}
INVARIANTS QueueTypeOK WaitersServed MailOwnedOnce
PROPERTIES ImplementsChannel
