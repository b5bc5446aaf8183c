SPECIFICATION FairSpec
CONSTANTS
  t1 = t1
  t2 = t2
  main = main
  Threads = {t1, t2}
  Main = main
  MaxElems = 2
  Forever = 9
  TickMod = 3
  Params <- WaitingParams
  MaxPushed = 3
PROPERTIES
  Reclaimed
