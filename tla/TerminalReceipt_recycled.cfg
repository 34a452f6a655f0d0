CONSTANTS
  Last = 3
  Pid <- RecycledPid
  Nameless = {2}
  MaxGen = 3
SPECIFICATION ReceiptSpec
INVARIANT YesWasTrue
