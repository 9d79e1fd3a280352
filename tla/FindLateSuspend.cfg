\* Does blocking the reports keep them until the parent is ready for them?
SPECIFICATION WRSpec
CONSTANTS
  MAX_CHUNKS = 1
  Exceeding = {3}
INVARIANTS
  SuspendsInTime
\* A program that ends, and sometimes never does.
CHECK_DEADLOCK FALSE
