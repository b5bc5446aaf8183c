-------------------------- MODULE FishingClear --------------------------
(* Clear of each message. A row is a member that is reset: the field's        *)
(* number, the value it gets (0 also for an empty string, for a list without *)
(* elements and for a nested message that is cleared), the first of the      *)
(* eight has-bits whose mask guards it (-1 where nothing does), and whether  *)
(* its own has-bit guards it, too. The has-bits and the unknown fields are   *)
(* cleared always.                                                           *)
EXTENDS Integers

ReqEnterFishServerMessage == <<<<1, 6001, 0, FALSE>>, <<2, 0, 0, FALSE>>>>
ResEnterFishServerMessage == <<<<1, 6002, 0, FALSE>>, <<2, 0, 0, FALSE>>>>
ReqJoinRoomMessage == <<<<1, 6003, 0, FALSE>>, <<2, 0, 0, FALSE>>>>
ResJoinRoomMessage == <<<<1, 6004, 0, FALSE>>, <<2, 0, 0, FALSE>>,
      <<3, 0, 0, FALSE>>, <<4, 0, 0, FALSE>>, <<5, 0, 0, TRUE>>>>
ResCmdFishMessage == <<<<1, 6006, 0, FALSE>>, <<2, 0, 0, FALSE>>,
      <<3, 0, 0, FALSE>>, <<4, 0, 0, FALSE>>>>
ResCmdSyncFishMessage == <<<<1, 6008, 0, FALSE>>, <<2, 0, 0, FALSE>>,
      <<3, 0, 0, FALSE>>, <<4, 0, 0, FALSE>>, <<5, 0, 0, FALSE>>,
      <<6, 0, 0, FALSE>>, <<7, 0, 0, FALSE>>, <<8, 0, 0, FALSE>>,
      <<9, 0, 8, FALSE>>, <<10, 0, 8, FALSE>>, <<11, 0, 8, FALSE>>,
      <<12, 0, 8, FALSE>>, <<13, 0, 8, FALSE>>, <<14, 0, 8, FALSE>>,
      <<15, 0, 8, FALSE>>>>
ReqBulletMessage == <<<<1, 6009, 0, FALSE>>, <<2, 0, 0, FALSE>>,
      <<3, 0, 0, FALSE>>, <<4, 0, 0, FALSE>>>>
ResBulletMessage == <<<<1, 6010, 0, FALSE>>, <<2, 0, 0, FALSE>>,
      <<3, 0, 0, FALSE>>, <<4, 0, 0, FALSE>>, <<5, 0, 0, FALSE>>,
      <<6, 0, 0, FALSE>>, <<7, 0, 0, FALSE>>>>
ResCatchedFreezeMessage == <<<<1, 6022, 0, FALSE>>, <<2, 0, 0, FALSE>>,
      <<3, 0, 0, FALSE>>, <<4, 0, 0, FALSE>>, <<5, 0, 0, FALSE>>,
      <<6, 0, -1, FALSE>>>>
ResCatchedMessage == <<<<1, 6012, 0, FALSE>>, <<2, 0, 0, FALSE>>,
      <<3, 0, 0, FALSE>>, <<4, 0, 0, FALSE>>, <<5, 0, 0, FALSE>>,
      <<6, 0, -1, FALSE>>>>
FishCatchedInfo == <<<<1, 0, 0, FALSE>>, <<2, 0, 0, FALSE>>,
      <<3, 0, 0, FALSE>>, <<4, 0, 0, FALSE>>>>
ResClearSceneMessage == <<<<1, 6014, 0, FALSE>>, <<2, 0, 0, FALSE>>>>
ResPlayerJoinMessage == <<<<1, 6016, 0, FALSE>>, <<2, 0, 0, TRUE>>>>
PlayerData == <<<<1, 0, 0, FALSE>>, <<2, 0, 0, TRUE>>, <<3, 0, 0, FALSE>>,
      <<4, 0, 0, FALSE>>, <<5, 0, 0, TRUE>>, <<6, 0, 0, FALSE>>,
      <<7, 0, 0, FALSE>>, <<8, 0, 0, FALSE>>, <<9, 0, 8, FALSE>>,
      <<10, 0, 8, FALSE>>, <<11, 0, 8, FALSE>>>>
ReqChangeLauncherMessage == <<<<1, 6017, 0, FALSE>>, <<2, 0, 0, FALSE>>,
      <<3, 0, 0, FALSE>>>>
ResChangeLauncherMessage == <<<<1, 6018, 0, FALSE>>, <<2, 0, 0, FALSE>>,
      <<3, 0, 0, FALSE>>>>
ReqChangeRateMessage == <<<<1, 6019, 0, FALSE>>, <<2, 0, 0, FALSE>>>>
ResChangeRateMessage == <<<<1, 6020, 0, FALSE>>, <<2, 0, 0, FALSE>>,
      <<3, 0, 0, FALSE>>, <<4, 0, 0, FALSE>>>>
SyncBulletData == <<<<1, 0, 0, FALSE>>, <<2, 0, 0, FALSE>>, <<3, 0, 0, FALSE>>,
      <<4, 0, 0, FALSE>>, <<5, 0, 0, FALSE>>, <<6, 0, 0, FALSE>>,
      <<7, 0, 0, FALSE>>>>
ResSyncBulletDataMessage == <<<<1, 6024, 0, FALSE>>, <<2, 0, -1, FALSE>>>>
ReqLeaveGameMessage == <<<<1, 6025, 0, FALSE>>, <<2, 0, 0, FALSE>>>>
ResLeaveGameMessage == <<<<1, 6026, 0, FALSE>>, <<2, 0, 0, FALSE>>>>
ReqLookUpPlayerInfoMessage == <<<<1, 6027, 0, FALSE>>, <<2, 0, 0, FALSE>>>>
ResLookUpPlayerInfoMessage == <<<<1, 6028, 0, FALSE>>, <<2, 0, 0, FALSE>>,
      <<3, 0, 0, FALSE>>, <<4, 0, 0, TRUE>>, <<5, 0, 0, TRUE>>,
      <<6, 0, 0, FALSE>>, <<7, 0, 0, FALSE>>, <<8, 0, 0, FALSE>>,
      <<9, 0, 8, FALSE>>, <<10, 0, 8, FALSE>>, <<11, 0, 8, TRUE>>,
      <<12, 0, 8, FALSE>>>>
ResConnectFinishMessage == <<<<1, 6030, 0, FALSE>>>>
ReqStartSyncFishMessage == <<<<1, 6031, 0, FALSE>>>>
ResPlayerTickOutMessage == <<<<1, 6032, 0, FALSE>>>>
ResSyncAddMoneyMessage == <<<<1, 6034, 0, FALSE>>, <<2, 0, 0, FALSE>>,
      <<4, 0, 0, FALSE>>>>

Table ==
  [ReqEnterFishServerMessage |-> ReqEnterFishServerMessage,
   ResEnterFishServerMessage |-> ResEnterFishServerMessage,
   ReqJoinRoomMessage |-> ReqJoinRoomMessage,
   ResJoinRoomMessage |-> ResJoinRoomMessage,
   ResCmdFishMessage |-> ResCmdFishMessage,
   ResCmdSyncFishMessage |-> ResCmdSyncFishMessage,
   ReqBulletMessage |-> ReqBulletMessage,
   ResBulletMessage |-> ResBulletMessage,
   ResCatchedFreezeMessage |-> ResCatchedFreezeMessage,
   ResCatchedMessage |-> ResCatchedMessage,
   FishCatchedInfo |-> FishCatchedInfo,
   ResClearSceneMessage |-> ResClearSceneMessage,
   ResPlayerJoinMessage |-> ResPlayerJoinMessage,
   PlayerData |-> PlayerData,
   ReqChangeLauncherMessage |-> ReqChangeLauncherMessage,
   ResChangeLauncherMessage |-> ResChangeLauncherMessage,
   ReqChangeRateMessage |-> ReqChangeRateMessage,
   ResChangeRateMessage |-> ResChangeRateMessage,
   SyncBulletData |-> SyncBulletData,
   ResSyncBulletDataMessage |-> ResSyncBulletDataMessage,
   ReqLeaveGameMessage |-> ReqLeaveGameMessage,
   ResLeaveGameMessage |-> ResLeaveGameMessage,
   ReqLookUpPlayerInfoMessage |-> ReqLookUpPlayerInfoMessage,
   ResLookUpPlayerInfoMessage |-> ResLookUpPlayerInfoMessage,
   ResConnectFinishMessage |-> ResConnectFinishMessage,
   ReqStartSyncFishMessage |-> ReqStartSyncFishMessage,
   ResPlayerTickOutMessage |-> ResPlayerTickOutMessage,
   ResSyncAddMoneyMessage |-> ResSyncAddMoneyMessage]
=============================================================================
