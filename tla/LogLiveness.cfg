SPECIFICATION FairSpec
CONSTANTS
  BUFFER = 2
  MAX_COMMANDS = 2
  MAX_RUNS = 1
  MAX_LOGS = 0
  MAX_NUMBER = 3
CHECK_DEADLOCK FALSE
PROPERTIES
  CommandTakesEffect
  ServerEnds
  SimulatorEnds
