-------------------------- MODULE FishingNew --------------------------
(* SharedCtor of each message. A row is a member that is given a value: the   *)
(* field's number and the value (0 also for the empty string and for a       *)
(* nested message that is not there yet). A list begins without elements.    *)

ReqEnterFishServerMessage == <<<<1, 6001>>, <<2, 0>>>>
ResEnterFishServerMessage == <<<<1, 6002>>, <<2, 0>>>>
ReqJoinRoomMessage == <<<<1, 6003>>, <<2, 0>>>>
ResJoinRoomMessage == <<<<1, 6004>>, <<2, 0>>, <<3, 0>>, <<4, 0>>, <<5, 0>>>>
ResCmdFishMessage == <<<<1, 6006>>, <<2, 0>>, <<3, 0>>, <<4, 0>>>>
ResCmdSyncFishMessage == <<<<1, 6008>>, <<2, 0>>, <<3, 0>>, <<4, 0>>, <<5, 0>>,
      <<6, 0>>, <<7, 0>>, <<8, 0>>, <<9, 0>>, <<10, 0>>, <<11, 0>>, <<12, 0>>,
      <<13, 0>>, <<14, 0>>, <<15, 0>>>>
ReqBulletMessage == <<<<1, 6009>>, <<2, 0>>, <<3, 0>>, <<4, 0>>>>
ResBulletMessage == <<<<1, 6010>>, <<2, 0>>, <<3, 0>>, <<4, 0>>, <<5, 0>>,
      <<6, 0>>, <<7, 0>>>>
ResCatchedFreezeMessage == <<<<1, 6022>>, <<2, 0>>, <<3, 0>>, <<4, 0>>,
      <<5, 0>>>>
ResCatchedMessage == <<<<1, 6012>>, <<2, 0>>, <<3, 0>>, <<4, 0>>, <<5, 0>>>>
FishCatchedInfo == <<<<1, 0>>, <<2, 0>>, <<3, 0>>, <<4, 0>>>>
ResClearSceneMessage == <<<<1, 6014>>, <<2, 0>>>>
ResPlayerJoinMessage == <<<<1, 6016>>, <<2, 0>>>>
PlayerData == <<<<1, 0>>, <<2, 0>>, <<3, 0>>, <<4, 0>>, <<5, 0>>, <<6, 0>>,
      <<7, 0>>, <<8, 0>>, <<9, 0>>, <<10, 0>>, <<11, 0>>>>
ReqChangeLauncherMessage == <<<<1, 6017>>, <<2, 0>>, <<3, 0>>>>
ResChangeLauncherMessage == <<<<1, 6018>>, <<2, 0>>, <<3, 0>>>>
ReqChangeRateMessage == <<<<1, 6019>>, <<2, 0>>>>
ResChangeRateMessage == <<<<1, 6020>>, <<2, 0>>, <<3, 0>>, <<4, 0>>>>
SyncBulletData == <<<<1, 0>>, <<2, 0>>, <<3, 0>>, <<4, 0>>, <<5, 0>>, <<6, 0>>,
      <<7, 0>>>>
ResSyncBulletDataMessage == <<<<1, 6024>>>>
ReqLeaveGameMessage == <<<<1, 6025>>, <<2, 0>>>>
ResLeaveGameMessage == <<<<1, 6026>>, <<2, 0>>>>
ReqLookUpPlayerInfoMessage == <<<<1, 6027>>, <<2, 0>>>>
ResLookUpPlayerInfoMessage == <<<<1, 6028>>, <<2, 0>>, <<3, 0>>, <<4, 0>>,
      <<5, 0>>, <<6, 0>>, <<7, 0>>, <<8, 0>>, <<9, 0>>, <<10, 0>>, <<11, 0>>,
      <<12, 0>>>>
ResConnectFinishMessage == <<<<1, 6030>>>>
ReqStartSyncFishMessage == <<<<1, 6031>>>>
ResPlayerTickOutMessage == <<<<1, 6032>>>>
ResSyncAddMoneyMessage == <<<<1, 6034>>, <<2, 0>>, <<4, 0>>>>

Table ==
  [ReqEnterFishServerMessage |-> ReqEnterFishServerMessage,
   ResEnterFishServerMessage |-> ResEnterFishServerMessage,
   ReqJoinRoomMessage |-> ReqJoinRoomMessage,
   ResJoinRoomMessage |-> ResJoinRoomMessage,
   ResCmdFishMessage |-> ResCmdFishMessage,
   ResCmdSyncFishMessage |-> ResCmdSyncFishMessage,
   ReqBulletMessage |-> ReqBulletMessage,
   ResBulletMessage |-> ResBulletMessage,
   ResCatchedFreezeMessage |-> ResCatchedFreezeMessage,
   ResCatchedMessage |-> ResCatchedMessage,
   FishCatchedInfo |-> FishCatchedInfo,
   ResClearSceneMessage |-> ResClearSceneMessage,
   ResPlayerJoinMessage |-> ResPlayerJoinMessage,
   PlayerData |-> PlayerData,
   ReqChangeLauncherMessage |-> ReqChangeLauncherMessage,
   ResChangeLauncherMessage |-> ResChangeLauncherMessage,
   ReqChangeRateMessage |-> ReqChangeRateMessage,
   ResChangeRateMessage |-> ResChangeRateMessage,
   SyncBulletData |-> SyncBulletData,
   ResSyncBulletDataMessage |-> ResSyncBulletDataMessage,
   ReqLeaveGameMessage |-> ReqLeaveGameMessage,
   ResLeaveGameMessage |-> ResLeaveGameMessage,
   ReqLookUpPlayerInfoMessage |-> ReqLookUpPlayerInfoMessage,
   ResLookUpPlayerInfoMessage |-> ResLookUpPlayerInfoMessage,
   ResConnectFinishMessage |-> ResConnectFinishMessage,
   ReqStartSyncFishMessage |-> ReqStartSyncFishMessage,
   ResPlayerTickOutMessage |-> ResPlayerTickOutMessage,
   ResSyncAddMoneyMessage |-> ResSyncAddMoneyMessage]
=============================================================================
