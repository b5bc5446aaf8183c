-------------------------- MODULE FishingAccess --------------------------
(* The accessors of each message: has_, set_, mutable_, clear_ and set_has_  *)
(* of its fields. A row is a field: its number, its has-bit (-1 for a list,  *)
(* which has none) and the value that clear_ gives it.                       *)
EXTENDS Integers

ReqEnterFishServerMessage == <<<<1, 0, 6001>>, <<2, 1, 0>>>>
ResEnterFishServerMessage == <<<<1, 0, 6002>>, <<2, 1, 0>>>>
ReqJoinRoomMessage == <<<<1, 0, 6003>>, <<2, 1, 0>>>>
ResJoinRoomMessage == <<<<1, 0, 6004>>, <<2, 1, 0>>, <<3, 2, 0>>, <<4, 3, 0>>,
      <<5, 4, 0>>>>
ResCmdFishMessage == <<<<1, 0, 6006>>, <<2, 1, 0>>, <<3, 2, 0>>, <<4, 3, 0>>>>
ResCmdSyncFishMessage == <<<<1, 0, 6008>>, <<2, 1, 0>>, <<3, 2, 0>>,
      <<4, 3, 0>>, <<5, 4, 0>>, <<6, 5, 0>>, <<7, 6, 0>>, <<8, 7, 0>>,
      <<9, 8, 0>>, <<10, 9, 0>>, <<11, 10, 0>>, <<12, 11, 0>>, <<13, 12, 0>>,
      <<14, 13, 0>>, <<15, 14, 0>>>>
ReqBulletMessage == <<<<1, 0, 6009>>, <<2, 1, 0>>, <<3, 2, 0>>, <<4, 3, 0>>>>
ResBulletMessage == <<<<1, 0, 6010>>, <<2, 1, 0>>, <<3, 2, 0>>, <<4, 3, 0>>,
      <<5, 4, 0>>, <<6, 5, 0>>, <<7, 6, 0>>>>
ResCatchedFreezeMessage == <<<<1, 0, 6022>>, <<2, 1, 0>>, <<3, 2, 0>>,
      <<4, 3, 0>>, <<5, 4, 0>>, <<6, -1, 0>>>>
ResCatchedMessage == <<<<1, 0, 6012>>, <<2, 1, 0>>, <<3, 2, 0>>, <<4, 3, 0>>,
      <<5, 4, 0>>, <<6, -1, 0>>>>
FishCatchedInfo == <<<<1, 0, 0>>, <<2, 1, 0>>, <<3, 2, 0>>, <<4, 3, 0>>>>
ResClearSceneMessage == <<<<1, 0, 6014>>, <<2, 1, 0>>>>
ResPlayerJoinMessage == <<<<1, 0, 6016>>, <<2, 1, 0>>>>
PlayerData == <<<<1, 0, 0>>, <<2, 1, 0>>, <<3, 2, 0>>, <<4, 3, 0>>,
      <<5, 4, 0>>, <<6, 5, 0>>, <<7, 6, 0>>, <<8, 7, 0>>, <<9, 8, 0>>,
      <<10, 9, 0>>, <<11, 10, 0>>>>
ReqChangeLauncherMessage == <<<<1, 0, 6017>>, <<2, 1, 0>>, <<3, 2, 0>>>>
ResChangeLauncherMessage == <<<<1, 0, 6018>>, <<2, 1, 0>>, <<3, 2, 0>>>>
ReqChangeRateMessage == <<<<1, 0, 6019>>, <<2, 1, 0>>>>
ResChangeRateMessage == <<<<1, 0, 6020>>, <<2, 1, 0>>, <<3, 2, 0>>,
      <<4, 3, 0>>>>
SyncBulletData == <<<<1, 0, 0>>, <<2, 1, 0>>, <<3, 2, 0>>, <<4, 3, 0>>,
      <<5, 4, 0>>, <<6, 5, 0>>, <<7, 6, 0>>>>
ResSyncBulletDataMessage == <<<<1, 0, 6024>>, <<2, -1, 0>>>>
ReqLeaveGameMessage == <<<<1, 0, 6025>>, <<2, 1, 0>>>>
ResLeaveGameMessage == <<<<1, 0, 6026>>, <<2, 1, 0>>>>
ReqLookUpPlayerInfoMessage == <<<<1, 0, 6027>>, <<2, 1, 0>>>>
ResLookUpPlayerInfoMessage == <<<<1, 0, 6028>>, <<2, 1, 0>>, <<3, 2, 0>>,
      <<4, 3, 0>>, <<5, 4, 0>>, <<6, 5, 0>>, <<7, 6, 0>>, <<8, 7, 0>>,
      <<9, 8, 0>>, <<10, 9, 0>>, <<11, 10, 0>>, <<12, 11, 0>>>>
ResConnectFinishMessage == <<<<1, 0, 6030>>>>
ReqStartSyncFishMessage == <<<<1, 0, 6031>>>>
ResPlayerTickOutMessage == <<<<1, 0, 6032>>>>
ResSyncAddMoneyMessage == <<<<1, 0, 6034>>, <<2, 1, 0>>, <<4, 2, 0>>>>

Table ==
  [ReqEnterFishServerMessage |-> ReqEnterFishServerMessage,
   ResEnterFishServerMessage |-> ResEnterFishServerMessage,
   ReqJoinRoomMessage |-> ReqJoinRoomMessage,
   ResJoinRoomMessage |-> ResJoinRoomMessage,
   ResCmdFishMessage |-> ResCmdFishMessage,
   ResCmdSyncFishMessage |-> ResCmdSyncFishMessage,
   ReqBulletMessage |-> ReqBulletMessage,
   ResBulletMessage |-> ResBulletMessage,
   ResCatchedFreezeMessage |-> ResCatchedFreezeMessage,
   ResCatchedMessage |-> ResCatchedMessage,
   FishCatchedInfo |-> FishCatchedInfo,
   ResClearSceneMessage |-> ResClearSceneMessage,
   ResPlayerJoinMessage |-> ResPlayerJoinMessage,
   PlayerData |-> PlayerData,
   ReqChangeLauncherMessage |-> ReqChangeLauncherMessage,
   ResChangeLauncherMessage |-> ResChangeLauncherMessage,
   ReqChangeRateMessage |-> ReqChangeRateMessage,
   ResChangeRateMessage |-> ResChangeRateMessage,
   SyncBulletData |-> SyncBulletData,
   ResSyncBulletDataMessage |-> ResSyncBulletDataMessage,
   ReqLeaveGameMessage |-> ReqLeaveGameMessage,
   ResLeaveGameMessage |-> ResLeaveGameMessage,
   ReqLookUpPlayerInfoMessage |-> ReqLookUpPlayerInfoMessage,
   ResLookUpPlayerInfoMessage |-> ResLookUpPlayerInfoMessage,
   ResConnectFinishMessage |-> ResConnectFinishMessage,
   ReqStartSyncFishMessage |-> ReqStartSyncFishMessage,
   ResPlayerTickOutMessage |-> ResPlayerTickOutMessage,
   ResSyncAddMoneyMessage |-> ResSyncAddMoneyMessage]
=============================================================================
