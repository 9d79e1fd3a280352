SPECIFICATION Spec
CONSTANTS
  N = 1
  BACKLOG = 5
  NoName = NoName
  eth0 = eth0
  eth1 = eth1
  interface_names <- Single
  Interruptible <- Everybody
CHECK_DEADLOCK FALSE
INVARIANT SendSurvivesDeadPeer
