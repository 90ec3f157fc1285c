-------------------------- MODULE MCTcpPacketParse --------------------------
(* Values for model checking TcpPacketParse.                               *)
EXTENDS TcpPacketParse

\* Codes of the table, with their types: UNKNOWN (0), ABANDON_FLAG (1),
\* ACCEPTED_FLAG (4), APPLICATION_VALUE (59) and DATA_SET (268).
MCTypes == [c \in {0, 1, 4, 59, 268} |->
              CASE c = 1   -> "TYPE_TCP_UINT8"
                [] c = 59  -> "TYPE_TCP_FLOAT"
                [] c = 268 -> DATA_SET
                [] OTHER   -> "TYPE_TCP_WCHAR_STR"]
=============================================================================
