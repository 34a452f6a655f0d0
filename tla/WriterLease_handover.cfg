CONSTANTS
  Last = 2
  Pid <- TwoPids
  Nameless = {1, 2}
  MaxGen = 2
  Thread = {t1}
  Timeout = 1
  MaxNow = 2
SPECIFICATION Spec
INVARIANTS TypeOK RetiredForGood LiveIsRecent PunctualKeepsLease
