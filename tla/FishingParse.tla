-------------------------- MODULE FishingParse --------------------------
(* MergePartialFromCodedStream of each message. A row is a case of its       *)
(* switch: the field's number, the type that is read, the tag that is        *)
(* expected next and the case that is entered when it comes (0 where none is *)
(* expected). The last case expects the end of the input.                    *)

ReqEnterFishServerMessage == <<<<1, "enum", 16, 2>>, <<2, "int64", 0, 0>>>>
ResEnterFishServerMessage == <<<<1, "enum", 16, 2>>, <<2, "int32", 0, 0>>>>
ReqJoinRoomMessage == <<<<1, "enum", 16, 2>>, <<2, "int32", 0, 0>>>>
ResJoinRoomMessage == <<<<1, "enum", 16, 2>>, <<2, "bool", 24, 3>>,
      <<3, "int32", 32, 4>>, <<4, "int32", 42, 5>>, <<5, "PlayerData", 0, 0>>>>
ResCmdFishMessage == <<<<1, "enum", 16, 2>>, <<2, "int32", 24, 3>>,
      <<3, "int32", 32, 4>>, <<4, "int32", 0, 0>>>>
ResCmdSyncFishMessage == <<<<1, "enum", 16, 2>>, <<2, "int32", 24, 3>>,
      <<3, "int32", 33, 4>>, <<4, "double", 40, 5>>, <<5, "int32", 48, 6>>,
      <<6, "int32", 56, 7>>, <<7, "bool", 64, 8>>, <<8, "int32", 72, 9>>,
      <<9, "int32", 80, 10>>, <<10, "int32", 88, 11>>, <<11, "int32", 96, 12>>,
      <<12, "int32", 104, 13>>, <<13, "int32", 112, 14>>,
      <<14, "int32", 120, 15>>, <<15, "int32", 0, 0>>>>
ReqBulletMessage == <<<<1, "enum", 16, 2>>, <<2, "int32", 24, 3>>,
      <<3, "int32", 32, 4>>, <<4, "int32", 0, 0>>>>
ResBulletMessage == <<<<1, "enum", 16, 2>>, <<2, "int32", 24, 3>>,
      <<3, "int32", 32, 4>>, <<4, "int32", 40, 5>>, <<5, "int32", 48, 6>>,
      <<6, "int32", 56, 7>>, <<7, "int32", 0, 0>>>>
ResCatchedFreezeMessage == <<<<1, "enum", 16, 2>>, <<2, "int32", 24, 3>>,
      <<3, "int32", 32, 4>>, <<4, "int32", 40, 5>>, <<5, "int32", 50, 6>>,
      <<6, "FishCatchedInfo", 50, 6>>>>
ResCatchedMessage == <<<<1, "enum", 16, 2>>, <<2, "int32", 24, 3>>,
      <<3, "int32", 32, 4>>, <<4, "int32", 40, 5>>, <<5, "int32", 50, 6>>,
      <<6, "FishCatchedInfo", 50, 6>>>>
FishCatchedInfo == <<<<1, "int32", 16, 2>>, <<2, "int32", 24, 3>>,
      <<3, "int32", 32, 4>>, <<4, "int32", 0, 0>>>>
ResClearSceneMessage == <<<<1, "enum", 16, 2>>, <<2, "int32", 0, 0>>>>
ResPlayerJoinMessage == <<<<1, "enum", 18, 2>>, <<2, "PlayerData", 0, 0>>>>
PlayerData == <<<<1, "int64", 18, 2>>, <<2, "string", 24, 3>>,
      <<3, "int32", 32, 4>>, <<4, "int32", 42, 5>>, <<5, "string", 48, 6>>,
      <<6, "int32", 56, 7>>, <<7, "int64", 64, 8>>, <<8, "int32", 72, 9>>,
      <<9, "int32", 80, 10>>, <<10, "int32", 88, 11>>, <<11, "int32", 0, 0>>>>
ReqChangeLauncherMessage == <<<<1, "enum", 16, 2>>, <<2, "int32", 24, 3>>,
      <<3, "int32", 0, 0>>>>
ResChangeLauncherMessage == <<<<1, "enum", 16, 2>>, <<2, "int32", 24, 3>>,
      <<3, "int32", 0, 0>>>>
ReqChangeRateMessage == <<<<1, "enum", 16, 2>>, <<2, "bool", 0, 0>>>>
ResChangeRateMessage == <<<<1, "enum", 16, 2>>, <<2, "int32", 24, 3>>,
      <<3, "int32", 32, 4>>, <<4, "bool", 0, 0>>>>
SyncBulletData == <<<<1, "uint32", 16, 2>>, <<2, "int32", 24, 3>>,
      <<3, "uint32", 32, 4>>, <<4, "int32", 40, 5>>, <<5, "int32", 48, 6>>,
      <<6, "int32", 56, 7>>, <<7, "uint32", 0, 0>>>>
ResSyncBulletDataMessage == <<<<1, "enum", 18, 2>>,
      <<2, "SyncBulletData", 18, 2>>>>
ReqLeaveGameMessage == <<<<1, "enum", 16, 2>>, <<2, "int32", 0, 0>>>>
ResLeaveGameMessage == <<<<1, "enum", 16, 2>>, <<2, "int32", 0, 0>>>>
ReqLookUpPlayerInfoMessage == <<<<1, "enum", 16, 2>>, <<2, "int64", 0, 0>>>>
ResLookUpPlayerInfoMessage == <<<<1, "enum", 16, 2>>, <<2, "int64", 24, 3>>,
      <<3, "int32", 34, 4>>, <<4, "string", 42, 5>>, <<5, "string", 48, 6>>,
      <<6, "int32", 56, 7>>, <<7, "int32", 65, 8>>, <<8, "double", 73, 9>>,
      <<9, "double", 80, 10>>, <<10, "int32", 90, 11>>,
      <<11, "string", 96, 12>>, <<12, "int32", 0, 0>>>>
ResConnectFinishMessage == <<<<1, "enum", 0, 0>>>>
ReqStartSyncFishMessage == <<<<1, "enum", 0, 0>>>>
ResPlayerTickOutMessage == <<<<1, "enum", 0, 0>>>>
ResSyncAddMoneyMessage == <<<<1, "enum", 16, 2>>, <<2, "int64", 32, 4>>,
      <<4, "int32", 0, 0>>>>

Table ==
  [ReqEnterFishServerMessage |-> ReqEnterFishServerMessage,
   ResEnterFishServerMessage |-> ResEnterFishServerMessage,
   ReqJoinRoomMessage |-> ReqJoinRoomMessage,
   ResJoinRoomMessage |-> ResJoinRoomMessage,
   ResCmdFishMessage |-> ResCmdFishMessage,
   ResCmdSyncFishMessage |-> ResCmdSyncFishMessage,
   ReqBulletMessage |-> ReqBulletMessage,
   ResBulletMessage |-> ResBulletMessage,
   ResCatchedFreezeMessage |-> ResCatchedFreezeMessage,
   ResCatchedMessage |-> ResCatchedMessage,
   FishCatchedInfo |-> FishCatchedInfo,
   ResClearSceneMessage |-> ResClearSceneMessage,
   ResPlayerJoinMessage |-> ResPlayerJoinMessage,
   PlayerData |-> PlayerData,
   ReqChangeLauncherMessage |-> ReqChangeLauncherMessage,
   ResChangeLauncherMessage |-> ResChangeLauncherMessage,
   ReqChangeRateMessage |-> ReqChangeRateMessage,
   ResChangeRateMessage |-> ResChangeRateMessage,
   SyncBulletData |-> SyncBulletData,
   ResSyncBulletDataMessage |-> ResSyncBulletDataMessage,
   ReqLeaveGameMessage |-> ReqLeaveGameMessage,
   ResLeaveGameMessage |-> ResLeaveGameMessage,
   ReqLookUpPlayerInfoMessage |-> ReqLookUpPlayerInfoMessage,
   ResLookUpPlayerInfoMessage |-> ResLookUpPlayerInfoMessage,
   ResConnectFinishMessage |-> ResConnectFinishMessage,
   ReqStartSyncFishMessage |-> ReqStartSyncFishMessage,
   ResPlayerTickOutMessage |-> ResPlayerTickOutMessage,
   ResSyncAddMoneyMessage |-> ResSyncAddMoneyMessage]
=============================================================================
