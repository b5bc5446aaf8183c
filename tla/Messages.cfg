SPECIFICATION Spec
CONSTANTS
  Kinds = {"ReqEnterFishServerMessage", "ResEnterFishServerMessage",
    "ReqJoinRoomMessage", "ResJoinRoomMessage", "ResCmdFishMessage",
    "ResCmdSyncFishMessage", "ReqBulletMessage", "ResBulletMessage",
    "ResCatchedFreezeMessage", "ResCatchedMessage", "FishCatchedInfo",
    "ResClearSceneMessage", "ResPlayerJoinMessage", "PlayerData",
    "ReqChangeLauncherMessage", "ResChangeLauncherMessage",
    "ReqChangeRateMessage", "ResChangeRateMessage", "SyncBulletData",
    "ResSyncBulletDataMessage", "ReqLeaveGameMessage",
    "ResLeaveGameMessage", "ReqLookUpPlayerInfoMessage",
    "ResLookUpPlayerInfoMessage", "ResConnectFinishMessage",
    "ReqStartSyncFishMessage", "ResPlayerTickOutMessage",
    "ResSyncAddMoneyMessage"}
  MaxCalls = 3
  MaxList = 3
INVARIANTS
  TypeOK
  WrittenAsDeclared
  SizeIsExact
  ReadAsDeclared
  InitializedIfComplete
  NothingStale
CHECK_DEADLOCK FALSE
