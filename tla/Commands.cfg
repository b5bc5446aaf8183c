SPECIFICATION FairSpec
CONSTANTS
  Last = 4
  Lengths = {0, 2, 5}
  BufferSize = 33
INVARIANTS
  TypeOK
  Aligned
  ForgottenArrived
PROPERTIES
  AnswersOnlyReceived
  AnsweredUpToEmpty
