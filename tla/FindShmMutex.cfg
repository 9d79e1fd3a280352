SPECIFICATION Spec
CONSTANTS
  NUM_MESSAGES = 2
  RETRIES = 2
  Leftovers <- Fresh
  Interruptible <- AllOf
CHECK_DEADLOCK FALSE
INVARIANTS
  MutualExclusion
