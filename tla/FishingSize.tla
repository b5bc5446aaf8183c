-------------------------- MODULE FishingSize --------------------------
(* ByteSize of each message. A row is a field: its number, the bytes of its   *)
(* tag, the type whose size is added, and the first of the eight has-bits    *)
(* whose mask guards it (-1 where nothing does).                             *)
EXTENDS Integers

ReqEnterFishServerMessage == <<<<1, 1, "enum", 0>>, <<2, 1, "int64", 0>>>>
ResEnterFishServerMessage == <<<<1, 1, "enum", 0>>, <<2, 1, "int32", 0>>>>
ReqJoinRoomMessage == <<<<1, 1, "enum", 0>>, <<2, 1, "int32", 0>>>>
ResJoinRoomMessage == <<<<1, 1, "enum", 0>>, <<2, 1, "fixed1", 0>>,
      <<3, 1, "int32", 0>>, <<4, 1, "int32", 0>>, <<5, 1, "PlayerData", 0>>>>
ResCmdFishMessage == <<<<1, 1, "enum", 0>>, <<2, 1, "int32", 0>>,
      <<3, 1, "int32", 0>>, <<4, 1, "int32", 0>>>>
ResCmdSyncFishMessage == <<<<1, 1, "enum", 0>>, <<2, 1, "int32", 0>>,
      <<3, 1, "int32", 0>>, <<4, 1, "fixed8", 0>>, <<5, 1, "int32", 0>>,
      <<6, 1, "int32", 0>>, <<7, 1, "fixed1", 0>>, <<8, 1, "int32", 0>>,
      <<9, 1, "int32", 8>>, <<10, 1, "int32", 8>>, <<11, 1, "int32", 8>>,
      <<12, 1, "int32", 8>>, <<13, 1, "int32", 8>>, <<14, 1, "int32", 8>>,
      <<15, 1, "int32", 8>>>>
ReqBulletMessage == <<<<1, 1, "enum", 0>>, <<2, 1, "int32", 0>>,
      <<3, 1, "int32", 0>>, <<4, 1, "int32", 0>>>>
ResBulletMessage == <<<<1, 1, "enum", 0>>, <<2, 1, "int32", 0>>,
      <<3, 1, "int32", 0>>, <<4, 1, "int32", 0>>, <<5, 1, "int32", 0>>,
      <<6, 1, "int32", 0>>, <<7, 1, "int32", 0>>>>
ResCatchedFreezeMessage == <<<<1, 1, "enum", 0>>, <<2, 1, "int32", 0>>,
      <<3, 1, "int32", 0>>, <<4, 1, "int32", 0>>, <<5, 1, "int32", 0>>,
      <<6, 1, "FishCatchedInfo", -1>>>>
ResCatchedMessage == <<<<1, 1, "enum", 0>>, <<2, 1, "int32", 0>>,
      <<3, 1, "int32", 0>>, <<4, 1, "int32", 0>>, <<5, 1, "int32", 0>>,
      <<6, 1, "FishCatchedInfo", -1>>>>
FishCatchedInfo == <<<<1, 1, "int32", 0>>, <<2, 1, "int32", 0>>,
      <<3, 1, "int32", 0>>, <<4, 1, "int32", 0>>>>
ResClearSceneMessage == <<<<1, 1, "enum", 0>>, <<2, 1, "int32", 0>>>>
ResPlayerJoinMessage == <<<<1, 1, "enum", 0>>, <<2, 1, "PlayerData", 0>>>>
PlayerData == <<<<1, 1, "int64", 0>>, <<2, 1, "string", 0>>,
      <<3, 1, "int32", 0>>, <<4, 1, "int32", 0>>, <<5, 1, "string", 0>>,
      <<6, 1, "int32", 0>>, <<7, 1, "int64", 0>>, <<8, 1, "int32", 0>>,
      <<9, 1, "int32", 8>>, <<10, 1, "int32", 8>>, <<11, 1, "int32", 8>>>>
ReqChangeLauncherMessage == <<<<1, 1, "enum", 0>>, <<2, 1, "int32", 0>>,
      <<3, 1, "int32", 0>>>>
ResChangeLauncherMessage == <<<<1, 1, "enum", 0>>, <<2, 1, "int32", 0>>,
      <<3, 1, "int32", 0>>>>
ReqChangeRateMessage == <<<<1, 1, "enum", 0>>, <<2, 1, "fixed1", 0>>>>
ResChangeRateMessage == <<<<1, 1, "enum", 0>>, <<2, 1, "int32", 0>>,
      <<3, 1, "int32", 0>>, <<4, 1, "fixed1", 0>>>>
SyncBulletData == <<<<1, 1, "uint32", 0>>, <<2, 1, "int32", 0>>,
      <<3, 1, "uint32", 0>>, <<4, 1, "int32", 0>>, <<5, 1, "int32", 0>>,
      <<6, 1, "int32", 0>>, <<7, 1, "uint32", 0>>>>
ResSyncBulletDataMessage == <<<<1, 1, "enum", 0>>,
      <<2, 1, "SyncBulletData", -1>>>>
ReqLeaveGameMessage == <<<<1, 1, "enum", 0>>, <<2, 1, "int32", 0>>>>
ResLeaveGameMessage == <<<<1, 1, "enum", 0>>, <<2, 1, "int32", 0>>>>
ReqLookUpPlayerInfoMessage == <<<<1, 1, "enum", 0>>, <<2, 1, "int64", 0>>>>
ResLookUpPlayerInfoMessage == <<<<1, 1, "enum", 0>>, <<2, 1, "int64", 0>>,
      <<3, 1, "int32", 0>>, <<4, 1, "string", 0>>, <<5, 1, "string", 0>>,
      <<6, 1, "int32", 0>>, <<7, 1, "int32", 0>>, <<8, 1, "fixed8", 0>>,
      <<9, 1, "fixed8", 8>>, <<10, 1, "int32", 8>>, <<11, 1, "string", 8>>,
      <<12, 1, "int32", 8>>>>
ResConnectFinishMessage == <<<<1, 1, "enum", 0>>>>
ReqStartSyncFishMessage == <<<<1, 1, "enum", 0>>>>
ResPlayerTickOutMessage == <<<<1, 1, "enum", 0>>>>
ResSyncAddMoneyMessage == <<<<1, 1, "enum", 0>>, <<2, 1, "int64", 0>>,
      <<4, 1, "int32", 0>>>>

Table ==
  [ReqEnterFishServerMessage |-> ReqEnterFishServerMessage,
   ResEnterFishServerMessage |-> ResEnterFishServerMessage,
   ReqJoinRoomMessage |-> ReqJoinRoomMessage,
   ResJoinRoomMessage |-> ResJoinRoomMessage,
   ResCmdFishMessage |-> ResCmdFishMessage,
   ResCmdSyncFishMessage |-> ResCmdSyncFishMessage,
   ReqBulletMessage |-> ReqBulletMessage,
   ResBulletMessage |-> ResBulletMessage,
   ResCatchedFreezeMessage |-> ResCatchedFreezeMessage,
   ResCatchedMessage |-> ResCatchedMessage,
   FishCatchedInfo |-> FishCatchedInfo,
   ResClearSceneMessage |-> ResClearSceneMessage,
   ResPlayerJoinMessage |-> ResPlayerJoinMessage,
   PlayerData |-> PlayerData,
   ReqChangeLauncherMessage |-> ReqChangeLauncherMessage,
   ResChangeLauncherMessage |-> ResChangeLauncherMessage,
   ReqChangeRateMessage |-> ReqChangeRateMessage,
   ResChangeRateMessage |-> ResChangeRateMessage,
   SyncBulletData |-> SyncBulletData,
   ResSyncBulletDataMessage |-> ResSyncBulletDataMessage,
   ReqLeaveGameMessage |-> ReqLeaveGameMessage,
   ResLeaveGameMessage |-> ResLeaveGameMessage,
   ReqLookUpPlayerInfoMessage |-> ReqLookUpPlayerInfoMessage,
   ResLookUpPlayerInfoMessage |-> ResLookUpPlayerInfoMessage,
   ResConnectFinishMessage |-> ResConnectFinishMessage,
   ReqStartSyncFishMessage |-> ReqStartSyncFishMessage,
   ResPlayerTickOutMessage |-> ResPlayerTickOutMessage,
   ResSyncAddMoneyMessage |-> ResSyncAddMoneyMessage]
=============================================================================
