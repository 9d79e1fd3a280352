SPECIFICATION FairSpec
CONSTANTS
  NUM_MESSAGES = 3
  RETRIES = 2
  Leftovers <- FreshOrIdle
  Interruptible <- AllOf
CHECK_DEADLOCK FALSE
INVARIANTS
  UnitsAccounted
  MessageIntact
  WaitsAsLongAsNeeded
PROPERTIES
  MutexUntilSigint
  OneAddressee
  AllEnd
