SPECIFICATION FairSpec
CONSTANTS
  w1 = w1
  w2 = w2
  main = main
  Workers = {w1, w2}
  Main = main
  Script <- TwoRequests
  Datagrams <- OneDatagram
  MaxRefused = 1
INVARIANTS
  NoLostWakeup
  HoldersBound
PROPERTIES
  RequestSent
CHECK_DEADLOCK FALSE
