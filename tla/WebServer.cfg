SPECIFICATION FairSpec
CONSTANTS
  Conn1 = Conn1
  Conn2 = Conn2
  Conn3 = Conn3
  Worker1 = Worker1
  Worker2 = Worker2
  NoConn = NoConn
  Conns <- ThreeConns
  Workers <- TwoWorkers
  KeepAliveMax = 2
INVARIANTS
  ServedOnce
  NoLostWakeup
  ClosedOnce
PROPERTIES
  ImplementsService
  AcceptedIsServed
  StopEnds
CHECK_DEADLOCK FALSE
