SPECIFICATION FairSpec
CONSTANTS
  w1 = w1
  w2 = w2
  main = main
  Workers = {w1, w2}
  Main = main
  Script <- NoScript
  Datagrams <- ManyDatagrams
  MaxRefused = 1
INVARIANTS
  ExclusiveWrite
  WaitNeverBlocks
PROPERTIES
  AnswersOnlyReceived
  AllAnswered
CHECK_DEADLOCK FALSE
