-------------------------- MODULE FishingWrite --------------------------
(* SerializeWithCachedSizes and SerializeWithCachedSizesToArray of each       *)
(* message, which write the same fields in the same order. A row is a call   *)
(* of WireFormatLite::Write...: the field's number and the type. A field is  *)
(* written when its has-bit is set, a repeated one for each of its elements. *)

ReqEnterFishServerMessage == <<<<1, "enum">>, <<2, "int64">>>>
ResEnterFishServerMessage == <<<<1, "enum">>, <<2, "int32">>>>
ReqJoinRoomMessage == <<<<1, "enum">>, <<2, "int32">>>>
ResJoinRoomMessage == <<<<1, "enum">>, <<2, "bool">>, <<3, "int32">>,
      <<4, "int32">>, <<5, "PlayerData">>>>
ResCmdFishMessage == <<<<1, "enum">>, <<2, "int32">>, <<3, "int32">>,
      <<4, "int32">>>>
ResCmdSyncFishMessage == <<<<1, "enum">>, <<2, "int32">>, <<3, "int32">>,
      <<4, "double">>, <<5, "int32">>, <<6, "int32">>, <<7, "bool">>,
      <<8, "int32">>, <<9, "int32">>, <<10, "int32">>, <<11, "int32">>,
      <<12, "int32">>, <<13, "int32">>, <<14, "int32">>, <<15, "int32">>>>
ReqBulletMessage == <<<<1, "enum">>, <<2, "int32">>, <<3, "int32">>,
      <<4, "int32">>>>
ResBulletMessage == <<<<1, "enum">>, <<2, "int32">>, <<3, "int32">>,
      <<4, "int32">>, <<5, "int32">>, <<6, "int32">>, <<7, "int32">>>>
ResCatchedFreezeMessage == <<<<1, "enum">>, <<2, "int32">>, <<3, "int32">>,
      <<4, "int32">>, <<5, "int32">>, <<6, "FishCatchedInfo">>>>
ResCatchedMessage == <<<<1, "enum">>, <<2, "int32">>, <<3, "int32">>,
      <<4, "int32">>, <<5, "int32">>, <<6, "FishCatchedInfo">>>>
FishCatchedInfo == <<<<1, "int32">>, <<2, "int32">>, <<3, "int32">>,
      <<4, "int32">>>>
ResClearSceneMessage == <<<<1, "enum">>, <<2, "int32">>>>
ResPlayerJoinMessage == <<<<1, "enum">>, <<2, "PlayerData">>>>
PlayerData == <<<<1, "int64">>, <<2, "string">>, <<3, "int32">>,
      <<4, "int32">>, <<5, "string">>, <<6, "int32">>, <<7, "int64">>,
      <<8, "int32">>, <<9, "int32">>, <<10, "int32">>, <<11, "int32">>>>
ReqChangeLauncherMessage == <<<<1, "enum">>, <<2, "int32">>, <<3, "int32">>>>
ResChangeLauncherMessage == <<<<1, "enum">>, <<2, "int32">>, <<3, "int32">>>>
ReqChangeRateMessage == <<<<1, "enum">>, <<2, "bool">>>>
ResChangeRateMessage == <<<<1, "enum">>, <<2, "int32">>, <<3, "int32">>,
      <<4, "bool">>>>
SyncBulletData == <<<<1, "uint32">>, <<2, "int32">>, <<3, "uint32">>,
      <<4, "int32">>, <<5, "int32">>, <<6, "int32">>, <<7, "uint32">>>>
ResSyncBulletDataMessage == <<<<1, "enum">>, <<2, "SyncBulletData">>>>
ReqLeaveGameMessage == <<<<1, "enum">>, <<2, "int32">>>>
ResLeaveGameMessage == <<<<1, "enum">>, <<2, "int32">>>>
ReqLookUpPlayerInfoMessage == <<<<1, "enum">>, <<2, "int64">>>>
ResLookUpPlayerInfoMessage == <<<<1, "enum">>, <<2, "int64">>, <<3, "int32">>,
      <<4, "string">>, <<5, "string">>, <<6, "int32">>, <<7, "int32">>,
      <<8, "double">>, <<9, "double">>, <<10, "int32">>, <<11, "string">>,
      <<12, "int32">>>>
ResConnectFinishMessage == <<<<1, "enum">>>>
ReqStartSyncFishMessage == <<<<1, "enum">>>>
ResPlayerTickOutMessage == <<<<1, "enum">>>>
ResSyncAddMoneyMessage == <<<<1, "enum">>, <<2, "int64">>, <<4, "int32">>>>

Table ==
  [ReqEnterFishServerMessage |-> ReqEnterFishServerMessage,
   ResEnterFishServerMessage |-> ResEnterFishServerMessage,
   ReqJoinRoomMessage |-> ReqJoinRoomMessage,
   ResJoinRoomMessage |-> ResJoinRoomMessage,
   ResCmdFishMessage |-> ResCmdFishMessage,
   ResCmdSyncFishMessage |-> ResCmdSyncFishMessage,
   ReqBulletMessage |-> ReqBulletMessage,
   ResBulletMessage |-> ResBulletMessage,
   ResCatchedFreezeMessage |-> ResCatchedFreezeMessage,
   ResCatchedMessage |-> ResCatchedMessage,
   FishCatchedInfo |-> FishCatchedInfo,
   ResClearSceneMessage |-> ResClearSceneMessage,
   ResPlayerJoinMessage |-> ResPlayerJoinMessage,
   PlayerData |-> PlayerData,
   ReqChangeLauncherMessage |-> ReqChangeLauncherMessage,
   ResChangeLauncherMessage |-> ResChangeLauncherMessage,
   ReqChangeRateMessage |-> ReqChangeRateMessage,
   ResChangeRateMessage |-> ResChangeRateMessage,
   SyncBulletData |-> SyncBulletData,
   ResSyncBulletDataMessage |-> ResSyncBulletDataMessage,
   ReqLeaveGameMessage |-> ReqLeaveGameMessage,
   ResLeaveGameMessage |-> ResLeaveGameMessage,
   ReqLookUpPlayerInfoMessage |-> ReqLookUpPlayerInfoMessage,
   ResLookUpPlayerInfoMessage |-> ResLookUpPlayerInfoMessage,
   ResConnectFinishMessage |-> ResConnectFinishMessage,
   ReqStartSyncFishMessage |-> ReqStartSyncFishMessage,
   ResPlayerTickOutMessage |-> ResPlayerTickOutMessage,
   ResSyncAddMoneyMessage |-> ResSyncAddMoneyMessage]
=============================================================================
