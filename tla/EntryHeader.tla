---------------------------- MODULE EntryHeader ----------------------------
(***************************************************************************)
(* The header in front of every packet, entry and data set on the wire: a  *)
(* 16-bit command code and, for the types of variable length, a 16-bit     *)
(* size (EntryHeader.cpp, ValueConverter.cpp).                             *)
(*                                                                         *)
(* A parser moves an iterator towards the end of its buffer and never back *)
(* so the only thing kept of the buffer is `left', the bytes between the   *)
(* iterator and the end.  Every byte is read at most once: what a 16-bit   *)
(* read yields is an arbitrary member of Codes where a command code is     *)
(* expected and of Counts where a size or a count is.                      *)
(***************************************************************************)
EXTENDS EnumDataTypes

CONSTANTS
  Codes,    \* the 16-bit values read as a command code
  Counts    \* the 16-bit values read as a size or a count

ASSUME InputAssumption == Codes \subseteq Nat /\ Counts \subseteq Nat

(***************************************************************************)
(* Reading from the buffer.  A 16-bit read with less than two bytes left   *)
(* yields 0 and leaves the iterator where it is.                           *)
(***************************************************************************)
isEnoughToRead(left, size) == size <= left

\* The code loads eight bytes and keeps the lower two (ValueConverter.cpp:19).
to_uint16(left, value) == IF isEnoughToRead(left, 2) THEN value ELSE 0

\* Mutants: the read does not look at the end; it stops at the end.
Past16Unchecked(left) == left - 2
Past16ToEnd(left) == IF isEnoughToRead(left, 2) THEN left - 2 ELSE 0

Past16(left) == IF isEnoughToRead(left, 2) THEN left - 2 ELSE left

(***************************************************************************)
(* EntryHeader(it, end): the header read with `left' bytes to go, and what *)
(* is left behind it.  With NoType, getConfig throws.                      *)
(***************************************************************************)
\* Mutant: the iterator is taken by value.
HeaderByValue(left, code, count, type) ==
  [cmd  |-> to_uint16(left, code),
   type |-> type,
   size |-> IF type \in PrefixedTypes THEN to_uint16(left, count) ELSE g_type_sizes(type),
   left |-> left]

HeaderOf(left, code, count, type) ==
  LET afterCmd == Past16(left)
      prefixed == type \in PrefixedTypes
  IN  [cmd  |-> to_uint16(left, code),
       type |-> type,
       size |-> IF prefixed THEN to_uint16(afterCmd, count) ELSE g_type_sizes(type),
       left |-> IF prefixed THEN Past16(afterCmd) ELSE afterCmd]

Headers(left) ==
  UNION {{HeaderOf(left, code, count, type) :
            count \in Counts, type \in TypesOf(to_uint16(left, code))} : code \in Codes}
=============================================================================
