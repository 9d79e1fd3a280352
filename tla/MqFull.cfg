SPECIFICATION FairSpec
CONSTANTS
  CAPACITY = 2
  Starting <- Two
  Interruptible <- Nobody
  MAX_SENDS <- TwoEach
  MAX_QUEUES = 1
  MAX_PUSHED <- TwoOfClient2
CHECK_DEADLOCK FALSE
PROPERTIES
  ForwardReturns
