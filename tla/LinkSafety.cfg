SPECIFICATION Spec
CONSTANTS
  N = 3
  BACKLOG = 5
  NoName = NoName
  eth0 = eth0
  eth1 = eth1
  interface_names <- Repeated3
  Interruptible <- TwoMonitors
CHECK_DEADLOCK FALSE
INVARIANT OpenIffMapped
INVARIANT LockStepInv
PROPERTY LiveMonitorKept
PROPERTY ImplementsRegistry
