\* Ten requests a minute, the minute being twelve ticks, and nobody but the
\* kubelet.
CONSTANTS
  Prober = p1
  Conns = {p1}
  Ips = {node}
  IpOf <- FromNode
  Limit = 10
  Window = 12
  MaxTime = 14
  FailureThreshold = 3
  NoConn = NoConn
SPECIFICATION ProbedSpec
INVARIANT ReadyForTraffic
CHECK_DEADLOCK FALSE
