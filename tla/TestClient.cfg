SPECIFICATION FairSpec
CONSTANTS
  w1 = w1
  w2 = w2
  Workers = {w1, w2}
  Forever = 9
  Runs = 2
  MaxTasks = 3
  MaxBuffs = 3
INVARIANTS
  RecordHasOwner
  BrokenOnlyByTwo
PROPERTIES
  LostOnlyByTwo
  MessageDeleted
CHECK_DEADLOCK FALSE
