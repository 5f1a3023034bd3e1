CONSTANTS
  Threads <- MCThreads
  Addrs <- MCAddrs
  Devices <- MCDevices
  MaxDevs = 2
  Failures = FALSE
  t1 = t1
  t2 = t2
  d1 = d1
  d2 = d2
SPECIFICATION Spec
CHECK_DEADLOCK FALSE
SYMMETRY Symmetry
INVARIANTS
  Tracked
