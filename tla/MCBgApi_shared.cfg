SPECIFICATION Spec
CONSTANTS
  Callers <- MCThree
  LockUse = {FALSE}
  MaxEvents = 2
  Nobody = Nobody
INVARIANT OwnResponse
CHECK_DEADLOCK FALSE
