--------------------------- MODULE EnumDataTypes ---------------------------
(***************************************************************************)
(* The command codes, their types and what the types say of a value's size *)
(* (EnumDataTypes.hpp, and getConfig of EntryHeader.cpp).                  *)
(***************************************************************************)
EXTENDS Integers

CONSTANT g_cmd_code_types_flags   \* the type of every command code of the table

UNKNOWN           == 0     \* CMD_CODE::UNKNOWN
APPLICATION_VALUE == 59    \* CMD_CODE::APPLICATION_VALUE, 0x3B

(***************************************************************************)
(* ENUM_TYPE, split as the switch of getConfig splits it.                  *)
(***************************************************************************)
DATA_SET      == "TYPE_TCP_DATA_SET"
PrefixedTypes == {"TYPE_TCP_WCHAR_STR", "TYPE_TCP_DYNAMIC_UINT32_SIZE", DATA_SET}
FixedTypes    == {"TYPE_TCP_FLOAT", "TYPE_TCP_DOUBLE_OR_INT_SIGNED",
                  "TYPE_TCP_UINT32", "TYPE_TCP_UINT16", "TYPE_TCP_UINT8",
                  "TYPE_TCP_UINT64", "TYPE_TCP_DATETIME", "TYPE_TCP_UUID_16_BYTES"}
ENUM_TYPE     == PrefixedTypes \cup FixedTypes

\* Bytes of a payload whose type fixes its length.
g_type_sizes(t) ==
  CASE t = "TYPE_TCP_UINT8"         -> 1
    [] t = "TYPE_TCP_UINT16"        -> 2
    [] t = "TYPE_TCP_UINT64"        -> 8
    [] t = "TYPE_TCP_DATETIME"      -> 8
    [] t = "TYPE_TCP_UUID_16_BYTES" -> 16
    [] OTHER                        -> 4

CMD_CODE == DOMAIN g_cmd_code_types_flags

ASSUME TableAssumption ==
  /\ CMD_CODE \subseteq Nat
  /\ g_cmd_code_types_flags \in [CMD_CODE -> ENUM_TYPE]
  /\ UNKNOWN \in CMD_CODE
  /\ g_cmd_code_types_flags[UNKNOWN] = "TYPE_TCP_WCHAR_STR"

(***************************************************************************)
(* The type the table lookup of getConfig finds.  A code past the end of   *)
(* the array reads whatever lies behind it, which may be no type at all.   *)
(***************************************************************************)
NoType == "no type"

\* Mutant: the table gives APPLICATION_VALUE a count.
TypesWithCount(cmd) ==
  IF cmd = APPLICATION_VALUE THEN {"TYPE_TCP_WCHAR_STR"}
  ELSE IF cmd \in CMD_CODE THEN {g_cmd_code_types_flags[cmd]} ELSE ENUM_TYPE \cup {NoType}

TypesOf(cmd) ==
  IF cmd \in CMD_CODE THEN {g_cmd_code_types_flags[cmd]} ELSE ENUM_TYPE \cup {NoType}
=============================================================================
