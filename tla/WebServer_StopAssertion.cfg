SPECIFICATION Spec
CONSTANTS
  Conn1 = Conn1
  Conn2 = Conn2
  Conn3 = Conn3
  Worker1 = Worker1
  Worker2 = Worker2
  NoConn = NoConn
  Conns <- TwoConns
  Workers <- TwoWorkers
  KeepAliveMax = 2
INVARIANT
  StopAssertion
CHECK_DEADLOCK FALSE
