---------------------------- MODULE CmdCodeTypes ----------------------------
(***************************************************************************)
(* The type of every command code: the rows of g_cmd_code_types_flags as   *)
(* they stand in EnumDataTypes.hpp, with their ENUM_TYPE as the number it  *)
(* is declared with.  A definition below holds the rows of the code in its *)
(* name and of the codes that follow.                                      *)
(*                                                                         *)
(* The flags of a row are left out: nothing reads them.                    *)
(***************************************************************************)
EXTENDS Integers, Sequences

\* The enumerators of ENUM_TYPE, in the order of their values 0 .. 10.
EnumType ==
  <<"TYPE_TCP_WCHAR_STR", "TYPE_TCP_FLOAT", "TYPE_TCP_DOUBLE_OR_INT_SIGNED",
    "TYPE_TCP_UINT32", "TYPE_TCP_UINT16", "TYPE_TCP_UINT8", "TYPE_TCP_DATA_SET",
    "TYPE_TCP_DATETIME", "TYPE_TCP_UINT64", "TYPE_TCP_UUID_16_BYTES",
    "TYPE_TCP_DYNAMIC_UINT32_SIZE">>

-----------------------------------------------------------------------------
Types0 ==
  <<0, 5, 1, 5, 0, 0, 0, 0, 8, 3, 1, 7, 3, 3, 0, 3, 3, 3, 3, 7, 3, 3, 0, 3, 3,
    3, 3, 1, 3, 3, 2, 3, 0, 3, 3, 0, 0, 3, 2, 5, 5, 3, 3, 3, 0, 0, 0, 0, 5, 3,
    0, 3, 7, 3, 3, 3, 1, 7, 0, 1, 3, 1, 0, 3, 3, 3, 3, 3, 3, 5, 3, 0, 3, 0, 3,
    3, 3, 3, 3, 3, 3, 3, 3, 3, 3, 3, 3, 1, 3, 3, 7, 0, 0, 0, 3, 3, 3, 3, 3, 3,
    7, 3, 5, 1, 1, 1, 3, 3, 3, 3, 3, 7, 3, 10, 0, 0, 0, 0, 0, 3, 3, 3, 3, 0, 3,
    1, 1, 1, 1, 5, 3, 5, 1, 1, 3, 3, 3, 3, 3, 3, 0, 5, 3, 3, 3, 3, 3, 3, 3, 1>>

Types150 ==
  <<3, 5, 3, 3, 3, 3, 3, 3, 5, 0, 0, 0, 0, 5, 3, 3, 3, 1, 1, 0, 0, 3, 3, 3, 2,
    7, 3, 3, 3, 3, 0, 3, 3, 0, 3, 3, 1, 0, 5, 3, 3, 8, 3, 7, 0, 0, 3, 3, 5, 3,
    3, 3, 0, 0, 3, 0, 1, 1, 1, 1, 1, 1, 3, 0, 3, 1, 7, 3, 5, 3, 0, 0, 3, 0, 3,
    3, 3, 1, 3, 3, 3, 3, 3, 7, 3, 0, 1, 1, 1, 1, 3, 3, 2, 1, 2, 3, 3, 3, 1, 3,
    0, 3, 1, 3, 3, 1, 1, 3, 3, 3, 3, 3, 0, 0, 0, 0, 0, 3, 6, 6, 6, 6, 6, 6, 6,
    6, 6, 6, 6, 6, 6, 6, 6, 6, 6, 6, 6, 6, 6, 6, 6, 6, 6, 6, 6, 6, 6, 6, 6, 6>>

Types300 ==
  <<6, 6, 6, 6, 6, 6, 6, 6, 6, 6, 6, 6, 6, 6, 6, 6, 6, 6, 6, 6, 6, 6, 6, 6, 6,
    6, 6, 6, 6, 6, 6, 6, 6, 6, 6, 6, 6, 6, 6, 6, 6, 6, 6, 6, 6, 6, 6, 6, 6, 6,
    6, 6, 6, 6, 6, 6, 6, 6, 6, 6, 6, 6, 6, 6, 6, 6, 6, 6, 6, 6, 6, 6, 6, 6, 6,
    6, 6, 6, 6, 6, 6, 6, 6, 6, 6, 6, 6, 6, 6, 6, 6, 6, 6, 6, 6, 6, 6, 6, 6, 6,
    6, 6, 6, 6, 6, 6, 6, 6, 6, 6, 6, 6, 6, 6, 6, 6, 6, 6, 6, 6, 6, 6, 6, 6, 6,
    6, 6, 6, 6, 6, 6, 6, 6, 6, 6, 6, 6, 6, 6, 6, 6, 6, 6, 6, 6, 6, 6, 6, 6, 6>>

Types450 ==
  <<6, 6, 6, 6, 6, 6, 6, 6, 6, 6, 6, 0, 0, 0, 3, 0, 3, 3, 1, 3, 3, 1, 3, 0, 1,
    3, 3, 3, 3, 3, 3, 3, 3, 3, 1, 3, 1, 5, 3, 3, 3, 3, 3, 1, 2, 3, 3, 0, 1, 3,
    3, 3, 3, 3, 0, 3, 0, 3, 0, 3, 3, 3, 0, 0, 3, 5, 3, 0, 3, 0, 3, 0, 0, 3, 3,
    3, 0, 0, 3, 3, 0, 0, 3, 3, 3, 3, 3, 0, 0, 0, 2, 1, 5, 1, 3, 3, 10, 3, 3, 0,
    3, 3, 2, 0, 3, 3, 3, 7, 7, 3, 3, 3, 0, 3, 7, 3, 0, 3, 3, 0, 3, 3, 0, 3, 5,
    3, 3, 3, 0, 0, 3, 7, 3, 3, 3, 0, 7, 3, 0, 7, 3, 0, 3, 8, 0, 5, 5, 5, 3, 3>>

Types600 ==
  <<3, 3, 3, 3, 1, 3, 0, 3, 5, 0, 3, 0, 3, 3, 3, 7, 3, 0, 3, 3, 3, 3, 3, 3, 3,
    0, 3, 3, 3, 3, 3, 3, 5, 0, 3, 3, 3, 3, 3, 3, 3, 0, 3, 3, 3, 0, 0, 3, 0, 1,
    1, 1, 3, 3, 3, 1, 3, 3, 3, 3, 3, 3, 3, 3, 3, 3, 3, 0, 3, 3, 3, 1, 0, 3, 0,
    1, 1, 3, 3, 3, 3, 3, 0, 0, 0, 3, 0, 0, 0, 0, 8, 3, 0, 0, 0, 0, 0, 0, 0, 0,
    3, 1, 3, 3, 3, 0, 3, 3, 0, 3, 3, 0, 1, 1, 1, 3, 0, 0, 0, 2, 3, 0, 3, 3, 0,
    3, 3, 5, 3, 3, 3, 3, 0, 3, 3, 3, 3, 0, 0, 0, 0, 0, 0, 0, 0, 0, 0, 0, 0, 0>>

Types750 ==
  <<0, 0, 0, 0, 3, 3, 3, 3, 1, 1, 1, 3, 1, 3, 1, 3, 7, 7, 3, 0, 3, 3, 5, 3, 3,
    0, 1, 1, 1, 1, 1, 1, 3, 3, 3, 3, 5, 3, 7, 3, 0, 3, 3, 3, 3, 3, 3, 3, 1, 0,
    0, 0, 3, 3, 3, 3, 0, 3, 3, 3, 0, 3, 0, 3, 3, 3, 3, 1, 1, 3, 3, 3, 3, 3, 0,
    5, 3, 3, 3, 3, 3, 3, 3, 3, 3, 2, 3, 3, 3, 3, 3, 3, 3, 1, 3, 3, 3, 3, 3, 3,
    3, 0, 3, 0, 3, 3, 3, 3, 3, 3, 3, 3, 1, 3, 0, 3, 3, 3, 3, 3, 3, 3, 3, 3, 3,
    0, 3, 3, 3, 0, 0, 3, 0, 3, 3, 8, 3, 0, 3, 5, 0, 0, 3, 3, 1, 3, 5, 3, 0, 3>>

Types900 ==
  <<6, 3, 0, 3, 5, 3, 0, 0, 5, 3, 3, 3, 3, 3, 3, 3, 0, 3, 3, 0, 3, 0, 3, 1, 3,
    3, 3, 0, 3, 3, 3, 3, 3, 3, 3, 10, 0, 0, 5, 3, 3, 3, 3, 3, 3, 5, 1, 1, 1, 3,
    3, 1, 3, 5, 5, 5, 0, 3, 3, 3, 3, 3, 3, 3, 3, 0, 3, 3, 1, 0, 1, 3, 3, 3, 3,
    1, 3, 3, 3, 3, 3, 0, 3, 0, 3, 3, 3, 3, 3, 0, 3, 3, 0, 3, 0, 3, 0, 2, 3, 3,
    0, 3, 3, 1, 3, 3, 3, 1, 1, 0, 3, 0, 3, 0, 0, 8, 3, 5, 0, 0, 3, 3, 3, 3, 3,
    3, 3, 3, 7, 5, 5, 3, 3, 3, 3, 1, 3, 3, 5, 3, 3, 5, 3, 3, 3, 3, 3, 3, 3, 0>>

Types1050 ==
  <<1, 7, 3, 3, 0, 0, 0, 0, 0, 5, 3, 3, 3, 3, 1, 3, 3, 3, 5, 0, 3, 3, 3, 0, 3,
    3, 3, 3, 3, 3, 1, 0, 0, 0, 3, 3, 7, 3, 0, 3, 3, 3, 3, 1, 3, 3, 0, 3, 3, 3,
    3, 0, 3, 3, 3, 3, 3, 0, 1, 1, 1, 1, 0, 1, 3, 3, 3, 1, 1, 0, 5, 3, 3, 3, 3,
    3, 3, 3, 1, 3, 3, 3, 3, 3, 7, 3, 3, 3, 5, 9, 3, 3, 3, 3, 3, 3, 0, 3, 3, 1,
    3, 3, 3, 3, 3, 0, 3, 1, 3, 3, 3, 3, 3, 3, 3, 3, 3, 3, 3, 0, 3, 3, 3, 3, 0,
    3, 3, 3, 1, 3, 3, 3, 3, 3, 0, 3, 5, 3, 1, 0, 3, 3, 3, 0, 7, 3, 3, 1, 7, 3>>

Types1200 ==
  <<5, 0, 3, 3, 3, 5, 1, 3, 1, 5, 7, 3, 3, 5, 3, 1, 1, 3, 3, 3, 3, 8, 10, 0, 3,
    0, 0, 3, 0, 3, 0, 3, 0, 3, 3, 3, 5, 3, 1, 5, 3, 0, 3, 3, 1, 3, 0, 0, 3, 3,
    3, 3, 3, 3, 3, 1, 3, 3, 3, 3, 5, 3, 5, 3, 0, 0, 3, 3, 1, 3, 5, 5, 1, 3, 2,
    3, 4, 3, 3, 0, 3, 3, 1, 5, 7, 3, 1, 1, 3, 3, 3, 1, 3, 3, 7, 3, 3, 0, 0, 3,
    0, 3, 3, 1, 1, 1, 1, 3, 3, 3, 3, 0, 3, 3, 3, 3, 3, 3, 3, 3, 3, 0, 0, 0, 0,
    0, 3, 1, 3, 0, 0, 3, 1, 3, 3, 3, 3, 1, 1, 1, 3, 3, 3, 3, 3, 3, 3, 3, 3, 0>>

Types1350 ==
  <<3, 0, 0, 3, 3, 3, 0, 3, 1, 3, 3, 0, 1, 3, 3, 3, 3, 3, 3, 1, 1, 1, 3, 3, 3,
    2, 3, 3, 1, 3, 0, 3, 3, 3, 6, 3, 3, 3, 6, 7, 3, 0, 0, 0, 3, 5, 3, 6, 6, 3,
    3, 3, 3, 3, 3, 3, 3, 3, 3, 5, 3, 2, 3, 0, 3, 3, 3, 3, 3, 3, 3, 3, 3, 3, 3,
    3, 3, 3, 3, 3, 3, 3, 5, 3, 0, 7, 3, 2, 3, 3, 3, 6, 7, 2, 2, 4, 4, 3, 4, 4,
    4, 4, 4, 4, 3, 0, 0, 3, 3, 1, 6, 5, 0, 0, 0, 0, 6, 3, 7, 3, 6, 5, 3, 6, 6,
    3, 3, 3, 2, 3, 0, 3, 6, 3, 3, 3, 5, 5, 0, 5, 3, 6, 3, 3, 3, 3, 3, 3, 5, 3>>

Types1500 ==
  <<3, 3, 3, 0, 0, 0, 0, 5, 0, 0, 3, 1, 0, 0, 0, 8, 8, 2, 2, 2, 5, 5, 0, 5, 6,
    3, 3, 3, 3, 7, 0, 6, 0, 0, 3, 3, 3, 5, 3, 5, 0, 3, 3, 3, 3, 3, 3, 3, 5, 3,
    3, 6, 3, 3, 0>>
-----------------------------------------------------------------------------
\* The rows one after the other: the code of a row is its position, from 0.
Rows ==
  Types0 \o Types150 \o Types300 \o Types450 \o Types600 \o Types750
    \o Types900 \o Types1050 \o Types1200 \o Types1350 \o Types1500

\* What getConfig finds for a code of the table, as an enumerator.
CmdTypes == [cmd \in 0 .. Len(Rows) - 1 |-> EnumType[Rows[cmd + 1] + 1]]
=============================================================================
