SPECIFICATION FairSpec
CONSTANTS
  w1 = w1
  w2 = w2
  log = log
  net = net
  Workers = {w1, w2}
  Handlers = {log, net}
  MaxOps = 3
INVARIANTS
  PortOutlivesWorkers
PROPERTIES
  Serviced
  ShutDownIfWoken
CHECK_DEADLOCK FALSE
