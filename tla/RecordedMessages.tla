-------------------------- MODULE RecordedMessages --------------------------
(***************************************************************************)
(* The messages of the game that main.cpp holds: the capture its test      *)
(* parses, and those its closing comment records and takes apart.          *)
(***************************************************************************)
EXTENDS Sequences

\* The input of testNestedDataSetParsing: one frame, one packet of twelve
\* entries and two data sets.
NestedCapture ==
  <<57, 2, 62, 0, 14, 0, 195, 3, 50, 93, 16, 0, 117, 3, 248, 243, 255, 1, 0, 0,
    0, 0, 19, 2, 1, 0, 110, 197, 3, 8, 0, 84, 114, 111, 106, 97, 110, 68, 80,
    212, 4, 1, 110, 3, 73, 73, 0, 0, 100, 0, 0, 0, 0, 0, 0, 0, 0, 0, 115, 4,
    92, 73, 138, 232, 80, 245, 59, 65, 153, 124, 1, 26, 87, 117, 93, 112, 219,
    0, 36, 158, 0, 0, 112, 2, 15, 0, 0, 0, 28, 0, 132, 3, 0, 0, 255, 4, 3, 0,
    116, 97, 98, 12, 1, 3, 0, 2, 0, 218, 4, 1, 0, 0, 0, 113, 3, 111, 162, 0, 0,
    2, 0, 218, 4, 2, 0, 0, 0, 113, 3, 11, 162, 0, 0, 2, 0, 218, 4, 4, 0, 0, 0,
    113, 3, 172, 207, 0, 0, 112, 1, 30, 0, 2, 0, 34, 3, 107, 4, 0, 0, 98, 2,
    149, 171, 0, 0, 2, 0, 34, 3, 147, 4, 0, 0, 98, 2, 131, 198, 0, 0, 2, 0, 34,
    3, 89, 5, 0, 0, 98, 2, 215, 205, 0, 0, 2, 0, 34, 3, 159, 5, 0, 0, 98, 2,
    124, 252, 0, 0, 2, 0, 34, 3, 7, 5, 0, 0, 98, 2, 102, 140, 0, 0, 2, 0, 34,
    3, 88, 4, 0, 0, 98, 2, 173, 134, 0, 0, 2, 0, 34, 3, 24, 5, 0, 0, 98, 2,
    216, 143, 0, 0, 2, 0, 34, 3, 27, 3, 0, 0, 98, 2, 51, 132, 0, 0, 2, 0, 34,
    3, 248, 4, 0, 0, 98, 2, 158, 133, 0, 0, 2, 0, 34, 3, 165, 5, 0, 0, 98, 2,
    122, 253, 0, 0, 2, 0, 34, 3, 221, 4, 0, 0, 98, 2, 59, 132, 0, 0, 2, 0, 34,
    3, 137, 5, 0, 0, 98, 2, 240, 234, 0, 0, 2, 0, 34, 3, 93, 5, 0, 0, 98, 2,
    205, 216, 0, 0, 2, 0, 34, 3, 181, 4, 0, 0, 98, 2, 185, 140, 0, 0, 2, 0, 34,
    3, 11, 5, 0, 0, 98, 2, 181, 140, 0, 0, 2, 0, 34, 3, 27, 5, 0, 0, 98, 2,
    186, 144, 0, 0, 2, 0, 34, 3, 92, 5, 0, 0, 98, 2, 84, 206, 0, 0, 2, 0, 34,
    3, 23, 5, 0, 0, 98, 2, 207, 143, 0, 0, 2, 0, 34, 3, 203, 4, 0, 0, 98, 2,
    57, 132, 0, 0, 2, 0, 34, 3, 15, 5, 0, 0, 98, 2, 10, 158, 0, 0, 2, 0, 34, 3,
    158, 5, 0, 0, 98, 2, 83, 251, 0, 0, 2, 0, 34, 3, 28, 5, 0, 0, 98, 2, 188,
    144, 0, 0, 2, 0, 34, 3, 139, 5, 0, 0, 98, 2, 12, 235, 0, 0, 2, 0, 34, 3,
    200, 4, 0, 0, 98, 2, 55, 132, 0, 0, 2, 0, 34, 3, 219, 4, 0, 0, 98, 2, 56,
    132, 0, 0, 2, 0, 34, 3, 246, 4, 0, 0, 98, 2, 141, 133, 0, 0, 2, 0, 34, 3,
    195, 3, 0, 0, 98, 2, 52, 132, 0, 0, 2, 0, 34, 3, 217, 4, 0, 0, 98, 2, 53,
    132, 0, 0, 2, 0, 34, 3, 222, 4, 0, 0, 98, 2, 54, 132, 0, 0, 2, 0, 34, 3,
    170, 5, 0, 0, 98, 2, 233, 253, 0, 0>>

\* "Second response after sending uuid"
AuthMessage ==
  <<150, 0, 59, 0, 6, 0, 115, 4, 72, 71, 70, 69, 68, 67, 66, 65, 86, 85, 84,
    83, 82, 81, 80, 73, 45, 5, 8, 0, 115, 101, 114, 101, 103, 97, 57, 54, 113,
    0, 88, 0, 0, 0, 141, 77, 202, 62, 111, 16, 143, 28, 238, 116, 27, 113, 249,
    220, 27, 227, 81, 74, 70, 160, 81, 251, 92, 163, 49, 183, 188, 190, 122,
    104, 40, 102, 165, 153, 218, 109, 40, 124, 177, 246, 36, 56, 121, 143, 58,
    254, 115, 114, 147, 64, 154, 77, 45, 135, 90, 66, 173, 41, 130, 188, 210,
    134, 62, 39, 15, 207, 42, 122, 103, 196, 163, 186, 166, 142, 207, 120, 122,
    113, 110, 34, 77, 144, 179, 16, 77, 179, 177, 20, 54, 5, 1, 0, 5, 1, 218,
    4, 0, 0, 0, 0, 197, 4, 165, 166, 184, 3, 1, 0, 16, 1>>

\* What the comment says of the entries behind the count of AuthMessage: the
\* code, the width of a size field if there is one, and the payload's length.
AuthEntries ==
  <<[cmd |-> 1139, sizeWidth |-> 0, size |-> 16],    \* SESSION_GUID
    [cmd |-> 1325, sizeWidth |-> 2, size |-> 8],     \* USER_NAME
    [cmd |-> 113,  sizeWidth |-> 4, size |-> 88],    \* BIN_BLOB
    [cmd |-> 1334, sizeWidth |-> 0, size |-> 4],     \* VERSION
    [cmd |-> 1242, sizeWidth |-> 0, size |-> 4],     \* SYS_SITE_ID
    [cmd |-> 1221, sizeWidth |-> 0, size |-> 8]>>    \* STEAM_ID

VersionMessage ==
  <<10, 0, 59, 0, 1, 0, 54, 5, 1, 0, 5, 1>>

GuidMessage ==
  <<22, 0, 10, 0, 115, 4, 115, 4, 72, 71, 70, 69, 68, 67, 66, 65, 86, 85, 84,
    83, 82, 81, 80, 73>>

\* The frame that every read of the recorded session is made of.
Heartbeat == <<4, 0, 142, 0, 0, 0>>
=============================================================================
