SPECIFICATION Spec
CONSTANTS
  t1 = t1
  t2 = t2
  main = main
  Threads = {t1, t2}
  Main = main
  MaxElems = 1
  Forever = 9
  TickMod = 4
  Params <- AllParams
  MaxPushed = 4
SYMMETRY Symmetry
INVARIANTS
  FreedOnlyAfterOverrun
  SharedOnlyAfterOverrun
  CapacityOvershoot
PROPERTIES
  LedgerSpec
