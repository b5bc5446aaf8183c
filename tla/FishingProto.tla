-------------------------- MODULE FishingProto --------------------------
(* Game60_FishingMessage.proto: what each message is on the wire. A row is a  *)
(* field's number, its label and its type. This is the specification that   *)
(* the generated classes implement; FishingParse, FishingWrite, FishingSize, *)
(* FishingMerge, FishingClear, FishingNew, FishingClass and FishingAccess    *)
(* are what each of their functions does, read from its own code.            *)

ReqEnterFishServerMessage == <<<<1, "opt", "enum">>, <<2, "req", "int64">>>>
ResEnterFishServerMessage == <<<<1, "opt", "enum">>, <<2, "req", "int32">>>>
ReqJoinRoomMessage == <<<<1, "opt", "enum">>, <<2, "req", "int32">>>>
ResJoinRoomMessage == <<<<1, "opt", "enum">>, <<2, "req", "bool">>,
      <<3, "req", "int32">>, <<4, "opt", "int32">>,
      <<5, "opt", "PlayerData">>>>
ResCmdFishMessage == <<<<1, "opt", "enum">>, <<2, "req", "int32">>,
      <<3, "req", "int32">>, <<4, "req", "int32">>>>
ResCmdSyncFishMessage == <<<<1, "opt", "enum">>, <<2, "req", "int32">>,
      <<3, "req", "int32">>, <<4, "req", "double">>, <<5, "req", "int32">>,
      <<6, "req", "int32">>, <<7, "opt", "bool">>, <<8, "opt", "int32">>,
      <<9, "opt", "int32">>, <<10, "opt", "int32">>, <<11, "opt", "int32">>,
      <<12, "opt", "int32">>, <<13, "opt", "int32">>, <<14, "opt", "int32">>,
      <<15, "opt", "int32">>>>
ReqBulletMessage == <<<<1, "opt", "enum">>, <<2, "req", "int32">>,
      <<3, "opt", "int32">>, <<4, "req", "int32">>>>
ResBulletMessage == <<<<1, "opt", "enum">>, <<2, "req", "int32">>,
      <<3, "req", "int32">>, <<4, "req", "int32">>, <<5, "opt", "int32">>,
      <<6, "opt", "int32">>, <<7, "opt", "int32">>>>
ResCatchedFreezeMessage == <<<<1, "opt", "enum">>, <<2, "req", "int32">>,
      <<3, "req", "int32">>, <<4, "req", "int32">>, <<5, "opt", "int32">>,
      <<6, "rep", "FishCatchedInfo">>>>
ResCatchedMessage == <<<<1, "opt", "enum">>, <<2, "req", "int32">>,
      <<3, "req", "int32">>, <<4, "req", "int32">>, <<5, "opt", "int32">>,
      <<6, "rep", "FishCatchedInfo">>>>
FishCatchedInfo == <<<<1, "opt", "int32">>, <<2, "req", "int32">>,
      <<3, "opt", "int32">>, <<4, "opt", "int32">>>>
ResClearSceneMessage == <<<<1, "opt", "enum">>, <<2, "req", "int32">>>>
ResPlayerJoinMessage == <<<<1, "opt", "enum">>, <<2, "req", "PlayerData">>>>
PlayerData == <<<<1, "opt", "int64">>, <<2, "opt", "string">>,
      <<3, "opt", "int32">>, <<4, "opt", "int32">>, <<5, "opt", "string">>,
      <<6, "opt", "int32">>, <<7, "opt", "int64">>, <<8, "opt", "int32">>,
      <<9, "opt", "int32">>, <<10, "opt", "int32">>, <<11, "opt", "int32">>>>
ReqChangeLauncherMessage == <<<<1, "opt", "enum">>, <<2, "req", "int32">>,
      <<3, "req", "int32">>>>
ResChangeLauncherMessage == <<<<1, "opt", "enum">>, <<2, "req", "int32">>,
      <<3, "req", "int32">>>>
ReqChangeRateMessage == <<<<1, "opt", "enum">>, <<2, "req", "bool">>>>
ResChangeRateMessage == <<<<1, "opt", "enum">>, <<2, "req", "int32">>,
      <<3, "req", "int32">>, <<4, "req", "bool">>>>
SyncBulletData == <<<<1, "opt", "uint32">>, <<2, "opt", "int32">>,
      <<3, "opt", "uint32">>, <<4, "opt", "int32">>, <<5, "opt", "int32">>,
      <<6, "opt", "int32">>, <<7, "opt", "uint32">>>>
ResSyncBulletDataMessage == <<<<1, "opt", "enum">>,
      <<2, "rep", "SyncBulletData">>>>
ReqLeaveGameMessage == <<<<1, "opt", "enum">>, <<2, "req", "int32">>>>
ResLeaveGameMessage == <<<<1, "opt", "enum">>, <<2, "req", "int32">>>>
ReqLookUpPlayerInfoMessage == <<<<1, "opt", "enum">>, <<2, "opt", "int64">>>>
ResLookUpPlayerInfoMessage == <<<<1, "opt", "enum">>, <<2, "opt", "int64">>,
      <<3, "opt", "int32">>, <<4, "opt", "string">>, <<5, "opt", "string">>,
      <<6, "opt", "int32">>, <<7, "opt", "int32">>, <<8, "opt", "double">>,
      <<9, "opt", "double">>, <<10, "opt", "int32">>, <<11, "opt", "string">>,
      <<12, "opt", "int32">>>>
ResConnectFinishMessage == <<<<1, "opt", "enum">>>>
ReqStartSyncFishMessage == <<<<1, "opt", "enum">>>>
ResPlayerTickOutMessage == <<<<1, "opt", "enum">>>>
ResSyncAddMoneyMessage == <<<<1, "opt", "enum">>, <<2, "req", "int64">>,
      <<4, "opt", "int32">>>>

Table ==
  [ReqEnterFishServerMessage |-> ReqEnterFishServerMessage,
   ResEnterFishServerMessage |-> ResEnterFishServerMessage,
   ReqJoinRoomMessage |-> ReqJoinRoomMessage,
   ResJoinRoomMessage |-> ResJoinRoomMessage,
   ResCmdFishMessage |-> ResCmdFishMessage,
   ResCmdSyncFishMessage |-> ResCmdSyncFishMessage,
   ReqBulletMessage |-> ReqBulletMessage,
   ResBulletMessage |-> ResBulletMessage,
   ResCatchedFreezeMessage |-> ResCatchedFreezeMessage,
   ResCatchedMessage |-> ResCatchedMessage,
   FishCatchedInfo |-> FishCatchedInfo,
   ResClearSceneMessage |-> ResClearSceneMessage,
   ResPlayerJoinMessage |-> ResPlayerJoinMessage,
   PlayerData |-> PlayerData,
   ReqChangeLauncherMessage |-> ReqChangeLauncherMessage,
   ResChangeLauncherMessage |-> ResChangeLauncherMessage,
   ReqChangeRateMessage |-> ReqChangeRateMessage,
   ResChangeRateMessage |-> ResChangeRateMessage,
   SyncBulletData |-> SyncBulletData,
   ResSyncBulletDataMessage |-> ResSyncBulletDataMessage,
   ReqLeaveGameMessage |-> ReqLeaveGameMessage,
   ResLeaveGameMessage |-> ResLeaveGameMessage,
   ReqLookUpPlayerInfoMessage |-> ReqLookUpPlayerInfoMessage,
   ResLookUpPlayerInfoMessage |-> ResLookUpPlayerInfoMessage,
   ResConnectFinishMessage |-> ResConnectFinishMessage,
   ReqStartSyncFishMessage |-> ReqStartSyncFishMessage,
   ResPlayerTickOutMessage |-> ResPlayerTickOutMessage,
   ResSyncAddMoneyMessage |-> ResSyncAddMoneyMessage]
=============================================================================
