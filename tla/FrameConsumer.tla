--------------------------- MODULE FrameConsumer ---------------------------
(***************************************************************************)
(* What the constructor TcpPacket(start, end) promises to whoever hands it *)
(* the bytes of a read, with nothing said of packets, entries and arrays.  *)
(*                                                                         *)
(* It uses bytes up, two or more at a time, and never gives one back.  It  *)
(* hands a packet out only if it has used bytes up for it.  It returns     *)
(* without a packet, or with all bytes used up.  The last byte alone is an *)
(* exception: it is never used up, and packets are made of it for ever.    *)
(***************************************************************************)
EXTENDS Integers

CONSTANTS
  Capacity,    \* the most bytes there can be
  Limit        \* packets are counted up to this number

VARIABLES
  status,      \* "new", "busy", "returned" or "failed"
  rest,        \* bytes not used up
  paid,        \* 2 if bytes have been used up since the last packet, else 0
  handed,      \* packets handed out
  given        \* history: the bytes there were to work on

vars == <<status, rest, paid, handed, given>>

\* One packet more is handed out.
OneMore(n) == IF n < Limit THEN n + 1 ELSE n

UsedUp == rest' \in 0 .. rest - 2

Init ==
  /\ status = "new"
  /\ rest \in 0 .. Capacity
  /\ paid = 0
  /\ handed = 0
  /\ given = 0

\* The frame is refused, or there is something to work on.
Open ==
  /\ status = "new"
  /\ rest' = rest \/ UsedUp
  /\ status' \in {"busy", "returned"}
  /\ status' = "busy" => rest' # 0
  /\ given' = rest'
  /\ UNCHANGED <<paid, handed>>

UseUp ==
  /\ status = "busy"
  /\ UsedUp
  /\ paid' = 2
  /\ UNCHANGED <<status, handed, given>>

HandOut ==
  /\ status = "busy" /\ paid = 2
  /\ rest' = rest \/ UsedUp
  /\ paid' = 0
  /\ handed' = OneMore(handed)
  /\ UNCHANGED <<status, given>>

Spin ==
  /\ status = "busy" /\ paid = 0
  /\ rest = 1
  /\ handed' = OneMore(handed)
  /\ UNCHANGED <<status, rest, paid, given>>

Return ==
  /\ status = "busy" /\ paid = 0
  /\ rest = 0 /\ handed # 0
  /\ status' = "returned"
  /\ UNCHANGED <<rest, paid, handed, given>>

Fail ==
  /\ status = "busy"
  /\ status' = "failed"
  /\ paid' = 0
  /\ UNCHANGED <<rest, handed, given>>

Next == Open \/ UseUp \/ HandOut \/ Spin \/ Return \/ Fail

\* It need not fail, but it does not stop.
Spec == Init /\ [][Next]_vars /\ WF_vars(Open \/ UseUp \/ HandOut \/ Return)

\* What a caller may rely on: of the bytes the consumer was given, however many
\* those were, every packet has cost two at least, and what is left was never
\* charged for, unless the consumer is at its last byte.
TwoBytesPerPacket ==
  status # "new" /\ rest # 1 => 2 * handed + rest + paid <= given
=============================================================================
