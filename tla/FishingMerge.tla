-------------------------- MODULE FishingMerge --------------------------
(* MergeFrom, CopyFrom, IsInitialized and Swap of each message. A row of      *)
(* "merged" is a field that MergeFrom takes over: its number, how, and the   *)
(* first of the eight has-bits whose mask guards it (-1 where nothing does). *)
(* "required" is the mask of IsInitialized as a set of bits, "nested" the    *)
(* fields whose own IsInitialized it asks, "swapped" the members that Swap   *)
(* exchanges; the has-bits and the unknown fields it always does.            *)
EXTENDS Integers

ReqEnterFishServerMessage ==
  [merged |-> <<<<1, "set", 0>>, <<2, "set", 0>>>>,
   required |-> {1}, nested |-> {}, swapped |-> 1..2]
ResEnterFishServerMessage ==
  [merged |-> <<<<1, "set", 0>>, <<2, "set", 0>>>>,
   required |-> {1}, nested |-> {}, swapped |-> 1..2]
ReqJoinRoomMessage ==
  [merged |-> <<<<1, "set", 0>>, <<2, "set", 0>>>>,
   required |-> {1}, nested |-> {}, swapped |-> 1..2]
ResJoinRoomMessage ==
  [merged |-> <<<<1, "set", 0>>, <<2, "set", 0>>, <<3, "set", 0>>,
      <<4, "set", 0>>, <<5, "merge", 0>>>>,
   required |-> {1, 2}, nested |-> {}, swapped |-> 1..5]
ResCmdFishMessage ==
  [merged |-> <<<<1, "set", 0>>, <<2, "set", 0>>, <<3, "set", 0>>,
      <<4, "set", 0>>>>,
   required |-> {1, 2, 3}, nested |-> {}, swapped |-> 1..4]
ResCmdSyncFishMessage ==
  [merged |-> <<<<1, "set", 0>>, <<2, "set", 0>>, <<3, "set", 0>>,
      <<4, "set", 0>>, <<5, "set", 0>>, <<6, "set", 0>>, <<7, "set", 0>>,
      <<8, "set", 0>>, <<9, "set", 8>>, <<10, "set", 8>>, <<11, "set", 8>>,
      <<12, "set", 8>>, <<13, "set", 8>>, <<14, "set", 8>>, <<15, "set", 8>>>>,
   required |-> {1, 2, 3, 4, 5}, nested |-> {}, swapped |-> 1..15]
ReqBulletMessage ==
  [merged |-> <<<<1, "set", 0>>, <<2, "set", 0>>, <<3, "set", 0>>,
      <<4, "set", 0>>>>,
   required |-> {1, 3}, nested |-> {}, swapped |-> 1..4]
ResBulletMessage ==
  [merged |-> <<<<1, "set", 0>>, <<2, "set", 0>>, <<3, "set", 0>>,
      <<4, "set", 0>>, <<5, "set", 0>>, <<6, "set", 0>>, <<7, "set", 0>>>>,
   required |-> {1, 2, 3}, nested |-> {}, swapped |-> 1..7]
ResCatchedFreezeMessage ==
  [merged |-> <<<<6, "append", -1>>, <<1, "set", 0>>, <<2, "set", 0>>,
      <<3, "set", 0>>, <<4, "set", 0>>, <<5, "set", 0>>>>,
   required |-> {1, 2, 3}, nested |-> {6}, swapped |-> 1..6]
ResCatchedMessage ==
  [merged |-> <<<<6, "append", -1>>, <<1, "set", 0>>, <<2, "set", 0>>,
      <<3, "set", 0>>, <<4, "set", 0>>, <<5, "set", 0>>>>,
   required |-> {1, 2, 3}, nested |-> {6}, swapped |-> 1..6]
FishCatchedInfo ==
  [merged |-> <<<<1, "set", 0>>, <<2, "set", 0>>, <<3, "set", 0>>,
      <<4, "set", 0>>>>,
   required |-> {1}, nested |-> {}, swapped |-> 1..4]
ResClearSceneMessage ==
  [merged |-> <<<<1, "set", 0>>, <<2, "set", 0>>>>,
   required |-> {1}, nested |-> {}, swapped |-> 1..2]
ResPlayerJoinMessage ==
  [merged |-> <<<<1, "set", 0>>, <<2, "merge", 0>>>>,
   required |-> {1}, nested |-> {}, swapped |-> 1..2]
PlayerData ==
  [merged |-> <<<<1, "set", 0>>, <<2, "set", 0>>, <<3, "set", 0>>,
      <<4, "set", 0>>, <<5, "set", 0>>, <<6, "set", 0>>, <<7, "set", 0>>,
      <<8, "set", 0>>, <<9, "set", 8>>, <<10, "set", 8>>, <<11, "set", 8>>>>,
   required |-> {}, nested |-> {}, swapped |-> 1..11]
ReqChangeLauncherMessage ==
  [merged |-> <<<<1, "set", 0>>, <<2, "set", 0>>, <<3, "set", 0>>>>,
   required |-> {1, 2}, nested |-> {}, swapped |-> 1..3]
ResChangeLauncherMessage ==
  [merged |-> <<<<1, "set", 0>>, <<2, "set", 0>>, <<3, "set", 0>>>>,
   required |-> {1, 2}, nested |-> {}, swapped |-> 1..3]
ReqChangeRateMessage ==
  [merged |-> <<<<1, "set", 0>>, <<2, "set", 0>>>>,
   required |-> {1}, nested |-> {}, swapped |-> 1..2]
ResChangeRateMessage ==
  [merged |-> <<<<1, "set", 0>>, <<2, "set", 0>>, <<3, "set", 0>>,
      <<4, "set", 0>>>>,
   required |-> {1, 2, 3}, nested |-> {}, swapped |-> 1..4]
SyncBulletData ==
  [merged |-> <<<<1, "set", 0>>, <<2, "set", 0>>, <<3, "set", 0>>,
      <<4, "set", 0>>, <<5, "set", 0>>, <<6, "set", 0>>, <<7, "set", 0>>>>,
   required |-> {}, nested |-> {}, swapped |-> 1..7]
ResSyncBulletDataMessage ==
  [merged |-> <<<<2, "append", -1>>, <<1, "set", 0>>>>,
   required |-> {}, nested |-> {}, swapped |-> 1..2]
ReqLeaveGameMessage ==
  [merged |-> <<<<1, "set", 0>>, <<2, "set", 0>>>>,
   required |-> {1}, nested |-> {}, swapped |-> 1..2]
ResLeaveGameMessage ==
  [merged |-> <<<<1, "set", 0>>, <<2, "set", 0>>>>,
   required |-> {1}, nested |-> {}, swapped |-> 1..2]
ReqLookUpPlayerInfoMessage ==
  [merged |-> <<<<1, "set", 0>>, <<2, "set", 0>>>>,
   required |-> {}, nested |-> {}, swapped |-> 1..2]
ResLookUpPlayerInfoMessage ==
  [merged |-> <<<<1, "set", 0>>, <<2, "set", 0>>, <<3, "set", 0>>,
      <<4, "set", 0>>, <<5, "set", 0>>, <<6, "set", 0>>, <<7, "set", 0>>,
      <<8, "set", 0>>, <<9, "set", 8>>, <<10, "set", 8>>, <<11, "set", 8>>,
      <<12, "set", 8>>>>,
   required |-> {}, nested |-> {}, swapped |-> 1..12]
ResConnectFinishMessage ==
  [merged |-> <<<<1, "set", 0>>>>,
   required |-> {}, nested |-> {}, swapped |-> {1}]
ReqStartSyncFishMessage ==
  [merged |-> <<<<1, "set", 0>>>>,
   required |-> {}, nested |-> {}, swapped |-> {1}]
ResPlayerTickOutMessage ==
  [merged |-> <<<<1, "set", 0>>>>,
   required |-> {}, nested |-> {}, swapped |-> {1}]
ResSyncAddMoneyMessage ==
  [merged |-> <<<<1, "set", 0>>, <<2, "set", 0>>, <<4, "set", 0>>>>,
   required |-> {1}, nested |-> {}, swapped |-> {1, 2, 4}]

Table ==
  [ReqEnterFishServerMessage |-> ReqEnterFishServerMessage,
   ResEnterFishServerMessage |-> ResEnterFishServerMessage,
   ReqJoinRoomMessage |-> ReqJoinRoomMessage,
   ResJoinRoomMessage |-> ResJoinRoomMessage,
   ResCmdFishMessage |-> ResCmdFishMessage,
   ResCmdSyncFishMessage |-> ResCmdSyncFishMessage,
   ReqBulletMessage |-> ReqBulletMessage,
   ResBulletMessage |-> ResBulletMessage,
   ResCatchedFreezeMessage |-> ResCatchedFreezeMessage,
   ResCatchedMessage |-> ResCatchedMessage,
   FishCatchedInfo |-> FishCatchedInfo,
   ResClearSceneMessage |-> ResClearSceneMessage,
   ResPlayerJoinMessage |-> ResPlayerJoinMessage,
   PlayerData |-> PlayerData,
   ReqChangeLauncherMessage |-> ReqChangeLauncherMessage,
   ResChangeLauncherMessage |-> ResChangeLauncherMessage,
   ReqChangeRateMessage |-> ReqChangeRateMessage,
   ResChangeRateMessage |-> ResChangeRateMessage,
   SyncBulletData |-> SyncBulletData,
   ResSyncBulletDataMessage |-> ResSyncBulletDataMessage,
   ReqLeaveGameMessage |-> ReqLeaveGameMessage,
   ResLeaveGameMessage |-> ResLeaveGameMessage,
   ReqLookUpPlayerInfoMessage |-> ReqLookUpPlayerInfoMessage,
   ResLookUpPlayerInfoMessage |-> ResLookUpPlayerInfoMessage,
   ResConnectFinishMessage |-> ResConnectFinishMessage,
   ReqStartSyncFishMessage |-> ReqStartSyncFishMessage,
   ResPlayerTickOutMessage |-> ResPlayerTickOutMessage,
   ResSyncAddMoneyMessage |-> ResSyncAddMoneyMessage]
=============================================================================
