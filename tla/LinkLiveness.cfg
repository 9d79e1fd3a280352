SPECIFICATION FairSpec
CONSTANTS
  N = 2
  BACKLOG = 5
  NoName = NoName
  eth0 = eth0
  eth1 = eth1
  interface_names <- Distinct2
  Interruptible <- FirstMonitorAndServer
CHECK_DEADLOCK FALSE
INVARIANT BlockedCallsReturn
PROPERTY DiesOnlyInCleanup
PROPERTY HandshakeEnds
PROPERTY LoneLinkDownAnswered
PROPERTY ServerEndWakes
PROPERTY StopsWithItsMonitors
