--------------------------- MODULE GeneratedTypes ---------------------------
(***************************************************************************)
(* The types in the rows of g_cmd_code_types_flags as the generator has    *)
(* left them in its own directory (data-type-parser/EnumDataTypes.hpp).    *)
(* A definition holds the row of the code in its name and those behind it. *)
(***************************************************************************)
EXTENDS Sequences

Generated0 ==
  <<0, 5, 1, 5, 0, 0, 0, 0, 8, 3, 1, 7, 3, 3, 0, 3, 3, 3, 3, 7, 3, 3, 0, 3, 3, 3,
    3, 1, 3, 3, 2, 3, 0, 3, 3, 0, 0, 3, 2, 5, 5, 3, 3, 3, 0, 0, 0, 0, 5, 3,
    0, 3, 7, 3, 3, 3, 1, 7, 0, 1, 3, 1, 0, 3, 3, 3, 3, 3, 3, 5, 3, 0, 3, 0,
    3, 3, 3, 3, 3, 3, 3, 3, 3, 3, 3, 3, 3, 1, 3, 3, 7, 0, 0, 0, 3, 3, 3, 3,
    3, 3, 7, 3, 5, 1, 1, 1, 3, 3, 3, 3, 3, 7, 3, 10, 0, 0, 0, 0, 0, 3, 3, 3,
    3, 0, 3, 1, 1, 1, 1, 5, 3, 5, 1, 1, 3, 3, 3, 3, 3, 3, 0, 5, 3, 3, 3, 3,
    3, 3, 3, 1>>

Generated150 ==
  <<3, 5, 3, 3, 3, 3, 3, 3, 5, 0, 0, 0, 0, 5, 3, 3, 3, 1, 1, 0, 0, 3, 3, 3, 2, 7,
    3, 3, 3, 3, 0, 3, 3, 0, 3, 3, 1, 0, 5, 3, 3, 8, 3, 7, 0, 0, 3, 3, 5, 3,
    3, 3, 0, 0, 3, 0, 1, 1, 1, 1, 1, 1, 3, 0, 3, 1, 7, 3, 5, 3, 0, 0, 3, 0,
    3, 3, 3, 1, 3, 3, 3, 3, 3, 7, 3, 0, 1, 1, 1, 1, 3, 3, 2, 1, 2, 3, 3, 3,
    1, 3, 0, 3, 1, 3, 3, 1, 1, 3, 3, 3, 3, 3, 0, 0, 0, 0, 0, 3, 6, 6, 6, 6,
    6, 6, 6, 6, 6, 6, 6, 6, 6, 6, 6, 6, 6, 6, 6, 6, 6, 6, 6, 6, 6, 6, 6, 6,
    6, 6, 6, 6>>

Generated300 ==
  <<6, 6, 6, 6, 6, 6, 6, 6, 6, 6, 6, 6, 6, 6, 6, 6, 6, 6, 6, 6, 6, 6, 6, 6, 6, 6,
    6, 6, 6, 6, 6, 6, 6, 6, 6, 6, 6, 6, 6, 6, 6, 6, 6, 6, 6, 6, 6, 6, 6, 6,
    6, 6, 6, 6, 6, 6, 6, 6, 6, 6, 6, 6, 6, 6, 6, 6, 6, 6, 6, 6, 6, 6, 6, 6,
    6, 6, 6, 6, 6, 6, 6, 6, 6, 6, 6, 6, 6, 6, 6, 6, 6, 6, 6, 6, 6, 6, 6, 6,
    6, 6, 6, 6, 6, 6, 6, 6, 6, 6, 6, 6, 6, 6, 6, 6, 6, 6, 6, 6, 6, 6, 6, 6,
    6, 6, 6, 6, 6, 6, 6, 6, 6, 6, 6, 6, 6, 6, 6, 6, 6, 6, 6, 6, 6, 6, 6, 6,
    6, 6, 6, 6>>

Generated450 ==
  <<6, 6, 6, 6, 6, 6, 6, 6, 6, 6, 6, 0, 0, 0, 3, 0, 3, 3, 1, 3, 3, 1, 3, 0, 1, 3,
    3, 3, 3, 3, 3, 3, 3, 3, 1, 3, 1, 5, 3, 3, 3, 3, 3, 1, 2, 3, 3, 0, 1, 3,
    3, 3, 3, 3, 0, 3, 0, 3, 0, 3, 3, 3, 0, 0, 3, 5, 3, 0, 3, 0, 3, 0, 0, 3,
    3, 3, 0, 0, 3, 3, 0, 0, 3, 3, 3, 3, 3, 0, 0, 0, 2, 1, 5, 1, 3, 3, 10, 3,
    3, 0, 3, 3, 2, 0, 3, 3, 3, 7, 7, 3, 3, 3, 0, 3, 7, 3, 0, 3, 3, 0, 3, 3,
    0, 3, 5, 3, 3, 3, 0, 0, 3, 7, 3, 3, 3, 0, 7, 3, 0, 7, 3, 0, 3, 8, 0, 5,
    5, 5, 3, 3>>

Generated600 ==
  <<3, 3, 3, 3, 1, 3, 0, 3, 5, 0, 3, 0, 3, 3, 3, 7, 3, 0, 3, 3, 3, 3, 3, 3, 3, 0,
    3, 3, 3, 3, 3, 3, 5, 0, 3, 3, 3, 3, 3, 3, 3, 0, 3, 3, 3, 0, 0, 3, 0, 1,
    1, 1, 3, 3, 3, 1, 3, 3, 3, 3, 3, 3, 3, 3, 3, 3, 3, 0, 3, 3, 3, 1, 0, 3,
    0, 1, 1, 3, 3, 3, 3, 3, 0, 0, 0, 3, 0, 0, 0, 0, 8, 3, 0, 0, 0, 0, 0, 0,
    0, 0, 3, 1, 3, 3, 3, 0, 3, 3, 0, 3, 3, 0, 1, 1, 1, 3, 0, 0, 0, 2, 3, 0,
    3, 3, 0, 3, 3, 5, 3, 3, 3, 3, 0, 3, 3, 3, 3, 0, 0, 0, 0, 0, 0, 0, 0, 0,
    0, 0, 0, 0>>

Generated750 ==
  <<0, 0, 0, 0, 3, 3, 3, 3, 1, 1, 1, 3, 1, 3, 1, 3, 7, 7, 3, 0, 3, 3, 5, 3, 3, 0,
    1, 1, 1, 1, 1, 1, 3, 3, 3, 3, 5, 3, 7, 3, 0, 3, 3, 3, 3, 3, 3, 3, 1, 0,
    0, 0, 3, 3, 3, 3, 0, 3, 3, 3, 0, 3, 0, 3, 3, 3, 3, 1, 1, 3, 3, 3, 3, 3,
    0, 5, 3, 3, 3, 3, 3, 3, 3, 3, 3, 2, 3, 3, 3, 3, 3, 3, 3, 1, 3, 3, 3, 3,
    3, 3, 3, 0, 3, 0, 3, 3, 3, 3, 3, 3, 3, 3, 1, 3, 0, 3, 3, 3, 3, 3, 3, 3,
    3, 3, 3, 0, 3, 3, 3, 0, 0, 3, 0, 3, 3, 8, 3, 0, 3, 5, 0, 0, 3, 3, 1, 3,
    5, 3, 0, 3>>

Generated900 ==
  <<6, 3, 0, 3, 5, 3, 0, 0, 5, 3, 3, 3, 3, 3, 3, 3, 0, 3, 3, 0, 3, 0, 3, 1, 3, 3,
    3, 0, 3, 3, 3, 3, 3, 3, 3, 10, 0, 0, 5, 3, 3, 3, 3, 3, 3, 5, 1, 1, 1, 3,
    3, 1, 3, 5, 5, 5, 0, 3, 3, 3, 3, 3, 3, 3, 3, 0, 3, 3, 1, 0, 1, 3, 3, 3,
    3, 1, 3, 3, 3, 3, 3, 0, 3, 0, 3, 3, 3, 3, 3, 0, 3, 3, 0, 3, 0, 3, 0, 2,
    3, 3, 0, 3, 3, 1, 3, 3, 3, 1, 1, 0, 3, 0, 3, 0, 0, 8, 3, 5, 0, 0, 3, 3,
    3, 3, 3, 3, 3, 3, 7, 5, 5, 3, 3, 3, 3, 1, 3, 3, 5, 3, 3, 5, 3, 3, 3, 3,
    3, 3, 3, 0>>

Generated1050 ==
  <<1, 7, 3, 3, 0, 0, 0, 0, 0, 5, 3, 3, 3, 3, 1, 3, 3, 3, 5, 0, 3, 3, 3, 0, 3, 3,
    3, 3, 3, 3, 1, 0, 0, 0, 3, 3, 7, 3, 0, 3, 3, 3, 3, 1, 3, 3, 0, 3, 3, 3,
    3, 0, 3, 3, 3, 3, 3, 0, 1, 1, 1, 1, 0, 1, 3, 3, 3, 1, 1, 0, 5, 3, 3, 3,
    3, 3, 3, 3, 1, 3, 3, 3, 3, 3, 7, 3, 3, 3, 5, 9, 3, 3, 3, 3, 3, 3, 0, 3,
    3, 1, 3, 3, 3, 3, 3, 0, 3, 1, 3, 3, 3, 3, 3, 3, 3, 3, 3, 3, 3, 0, 3, 3,
    3, 3, 0, 3, 3, 3, 1, 3, 3, 3, 3, 3, 0, 3, 5, 3, 1, 0, 3, 3, 3, 0, 7, 3,
    3, 1, 7, 3>>

Generated1200 ==
  <<5, 0, 3, 3, 3, 5, 1, 3, 1, 5, 7, 3, 3, 5, 3, 1, 1, 3, 3, 3, 3, 8, 10, 0, 3,
    0, 0, 3, 0, 3, 0, 3, 0, 3, 3, 3, 5, 3, 1, 5, 3, 0, 3, 3, 1, 3, 0, 0, 3,
    3, 3, 3, 3, 3, 3, 1, 3, 3, 3, 3, 5, 3, 5, 3, 0, 0, 3, 3, 1, 3, 5, 5, 1,
    3, 2, 3, 4, 3, 3, 0, 3, 3, 1, 5, 7, 3, 1, 1, 3, 3, 3, 1, 3, 3, 7, 3, 3,
    0, 0, 3, 0, 3, 3, 1, 1, 1, 1, 3, 3, 3, 3, 0, 3, 3, 3, 3, 3, 3, 3, 3, 3,
    0, 0, 0, 0, 0, 3, 1, 3, 0, 0, 3, 1, 3, 3, 3, 3, 1, 1, 1, 3, 3, 3, 3, 3,
    3, 3, 3, 3, 0>>

Generated1350 ==
  <<3, 0, 0, 3, 3, 3, 0, 3, 1, 3, 3, 0, 1, 3, 3, 3, 3, 3, 3, 1, 1, 1, 3, 3, 3, 2,
    3, 3, 1, 3, 0, 3, 3, 3, 6, 3, 3, 3, 6, 7, 3, 0, 0, 0, 3, 5, 3, 6, 6, 3,
    3, 3, 3, 3, 3, 3, 3, 3, 3, 5, 3, 2, 3, 0, 3, 3, 3, 3, 3, 3, 3, 3, 3, 3,
    3, 3, 3, 3, 3, 3, 3, 3, 5, 3, 0, 7, 3, 2, 3, 3, 3, 6, 7, 2, 2, 4, 4, 3,
    4, 4, 4, 4, 4, 4, 3, 0, 0, 3, 3, 1, 6, 5, 0, 0, 0, 0, 6, 3, 7, 3, 6, 5,
    3, 6, 6, 3, 3, 3, 2, 3, 0, 3, 6, 3, 3, 3, 5, 5, 0, 5, 3, 6, 3, 3, 3, 3,
    3, 3, 5, 3>>

Generated1500 ==
  <<3, 3, 3, 0, 0, 0, 0, 5, 0, 0, 3, 1, 0, 0, 0, 8, 8, 2, 2, 2, 5, 5, 0, 5, 6, 3,
    3, 3, 3, 7, 0, 6, 0, 0, 3, 3, 3, 5, 3, 5, 0, 3, 3, 3, 3, 3, 3, 3, 5, 3,
    3, 6, 3, 3, 0, 0>>

GeneratedRows ==
  Generated0 \o Generated150 \o Generated300 \o Generated450 \o Generated600
    \o Generated750 \o Generated900 \o Generated1050 \o Generated1200 \o Generated1350
    \o Generated1500
=============================================================================
