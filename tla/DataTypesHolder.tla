--------------------------- MODULE DataTypesHolder ---------------------------
(***************************************************************************)
(* The second table of types: filled by hand, 18 codes long, and used by   *)
(* no reader (DataTypesHolder.cpp, DataType.cpp).  A type is STATIC, with  *)
(* the size of the payload, or DYNAMIC, with the size of its size field.   *)
(***************************************************************************)
EXTENDS EnumDataTypes, CmdCodes, TLC

STATIC  == "STATIC"
DYNAMIC == "DYNAMIC"

\* Mutant: a size field has two bytes.
NarrowDataType(type, staticSize) ==
  [m_type |-> type, m_staticSize |-> IF type = DYNAMIC THEN 2 ELSE staticSize]

DataType(type, staticSize) == [m_type |-> type, m_staticSize |-> staticSize]

m_types ==
  [c \in {APPLICATION_VALUE, APPLY_ON_INTERVAL_FLAG, BUFF_COUNT, NET_ACCESS_FLAGS} |->
     DataType(STATIC, 2)]
  @@ [c \in {PLAYER_ID, SYS_SITE_ID, VERSION, DESTROYED_ASM_ID} |-> DataType(STATIC, 4)]
  @@ [c \in {STEAM_ID, BANNED_UNTIL_DATETIME} |-> DataType(STATIC, 8)]
  @@ [c \in {SESSION_GUID, TEXT_VALUE} |-> DataType(STATIC, 16)]
  @@ [c \in {SUCCESS} |-> DataType(STATIC, 1)]
  @@ [c \in {PLAYER_NAME, USER_NAME, DISPLAY_EULA_FLAG, CODE_DATA_SET} |-> DataType(DYNAMIC, 2)]
  @@ [c \in {BIN_BLOB} |-> DataType(DYNAMIC, 4)]

\* get() leaves the process for a code that is not in the table.
Exits(cmd) == cmd \notin DOMAIN m_types

get(cmd) == m_types[cmd]
=============================================================================
