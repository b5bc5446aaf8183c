SPECIFICATION Spec
CONSTANTS
  w1 = w1
  w2 = w2
  main = main
  Workers = {w1, w2}
  Main = main
  Script <- OneRequest
  Datagrams <- FewDatagrams
  MaxRefused = 0
INVARIANTS
  ReceivedIsHandled
CHECK_DEADLOCK FALSE
