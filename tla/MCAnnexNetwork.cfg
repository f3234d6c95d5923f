(* Controller failures and two broken server sessions: the reconnect cycle.
   The orchestrator only reacts to events: once the bounded failures have
   happened it is really idle, so a state without successors is no error. *)
CONSTANTS
  p1 = p1  p2 = p2  x1 = x1  x2 = x2  x3 = x3  t1 = t1  t2 = t2
  NoConn = NoConn  NoThread = NoThread
  Coolers <- MCCoolers
  Conns <- MCConns
  Threads <- MCThreads
  MaxReports = 1
  MaxDrops = 3
SPECIFICATION Spec
INVARIANT CoupledToCurrent
PROPERTY NetworkRecovers
CHECK_DEADLOCK FALSE
