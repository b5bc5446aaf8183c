SPECIFICATION Spec
CONSTANTS
  c1 = c1
  NoOwner = none
  Uids = {1, 2, 3}
  Clients = {c1}
  MaxSockets = 4
INVARIANTS
  SocketsAccounted
  DataOwned
  OfferedOnce
CHECK_DEADLOCK FALSE
