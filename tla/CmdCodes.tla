------------------------------- MODULE CmdCodes -------------------------------
(***************************************************************************)
(* The members of CMD_CODE that the code names (EnumDataTypes.hpp); their  *)
(* numbers are their places in the table.  DATA_SET is the name of a type  *)
(* here, and the code of that name CODE_DATA_SET.                          *)
(***************************************************************************)
APPLY_ON_INTERVAL_FLAG == 62
PLAYER_ID              == 963
NET_ACCESS_FLAGS       == 885
DISPLAY_EULA_FLAG      == 531
PLAYER_NAME            == 965
SUCCESS                == 1236
MSG_ID                 == 878
BANNED_UNTIL_DATETIME  == 100
SESSION_GUID           == 1139
CONNECTION_HANDLE      == 219
GAME_BITS              == 624
AFK_TIMEOUT_SEC        == 28
TEXT_VALUE             == 1279
SYS_SITE_ID            == 1242
NAME_MSG_ID            == 881
MAP_GAME_ID            == 802
FRIENDLY_NAME_MSG_ID   == 610
DATA_SET_MAP_CONFIGS   == 368
VERSION                == 1334
BUFF_COUNT             == 142
USER_NAME              == 1325
BIN_BLOB               == 113
STEAM_ID               == 1221
CODE_DATA_SET          == 268
DESTROYED_ASM_ID       == 511
=============================================================================
