SPECIFICATION FairSpec
CONSTANTS
  Threads = {t1, t2}
  MaxCalls = 3
  MaxMessages = 6
  MaxValidations = 1
INVARIANTS NoCircle
PROPERTY Answered
CHECK_DEADLOCK FALSE
