SPECIFICATION Spec
CONSTANTS
  NTRIES = 2
  a = a
  b = b
  INADDR_ANY = INADDR_ANY
  Addrs <- MCAddrs
  Says <- MCSays
  Datagrams <- MCDatagrams
  MaxEvents = 6
INVARIANTS
  CallbackFirstIsNoticed
CHECK_DEADLOCK FALSE
