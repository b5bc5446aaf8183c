SPECIFICATION StartFairSpec
CONSTANTS
  w1 = w1
  w2 = w2
  w3 = w3
  main = main
  Workers = {w1, w2, w3}
  Starter = main
INVARIANTS
  ExclusiveUnlessOvertaken
PROPERTIES
  ListAlone
  Served
CHECK_DEADLOCK FALSE
