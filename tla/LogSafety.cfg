SPECIFICATION Spec
CONSTANTS
  BUFFER = 2
  MAX_COMMANDS = 1
  MAX_RUNS = 2
  MAX_LOGS = 1
  MAX_NUMBER = 7
CHECK_DEADLOCK FALSE
INVARIANTS
  SocketOutlivesThread
  AtMostOneLate
PROPERTIES
  ImplementsChannel
