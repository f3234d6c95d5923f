(* Each controller may report two errors before its close is handled. *)
CONSTANTS
  p1 = p1  p2 = p2  x1 = x1  x2 = x2  x3 = x3  t1 = t1  t2 = t2
  NoConn = NoConn  NoThread = NoThread
  Coolers <- MCCoolers
  Conns <- MCConns
  Threads <- MCThreads
  MaxReports = 2
  MaxDrops = 0
SPECIFICATION Spec
INVARIANT NoUseAfterErase
CHECK_DEADLOCK FALSE
