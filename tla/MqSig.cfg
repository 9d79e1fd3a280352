\* Two clients of which one writes, SIGINT to the other one and to the server.
SPECIFICATION FairSpec
CONSTANTS
  CAPACITY = 2
  Starting <- Two
  Interruptible <- ServerAnd2
  MAX_SENDS <- OnlyClient1
  MAX_QUEUES = 1
  MAX_PUSHED <- TwoOfClient2
\* Processes end, and msgsnd may wait for ever.
CHECK_DEADLOCK FALSE
INVARIANTS
  InOrder
  PrintedIsSent
PROPERTIES
  ImplementsChannel
  AllArrive
  RemovalFreesInterrupted
