SPECIFICATION Spec
CONSTANTS
  LIMIT = 2
  MAX_TIMERID = 4
  MaxInterval = 2
  Client = {c}
  IsrApi = {"stop"}
INVARIANTS TimersAgree
