CONSTANTS
  Threads <- MCThreads
  Addrs <- MCAddrs
  Devices <- MCDevices
  MaxDevs = 1
  Failures = TRUE
  t1 = t1
  t2 = t2
  d1 = d1
  d2 = d2
SPECIFICATION Spec
CHECK_DEADLOCK FALSE
SYMMETRY Symmetry
INVARIANTS
  ResidentOnlyOnListed
