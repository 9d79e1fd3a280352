\* One parent and its children: reports, test of a worker, start and stop,
\* turns at a semaphore.
SPECIFICATION Spec
CONSTANTS
  MAX_CHUNKS = 2
  Exceeding <- OnlyWorker3
  MAX_READS = 2
  NUM = 2
  num_processes = 4
INVARIANTS
  SleepsForAReason
  DoneIsTrue
  SignalsCount
  NoneWithoutTurn
PROPERTIES
  WRParentEnds
  WTParentEnds
  MonitoringFamilyEnds
  TurnsAreExclusive
  EveryChildExits
\* Every program ends, and some end badly.
CHECK_DEADLOCK FALSE
