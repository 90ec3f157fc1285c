-------------------------- MODULE ValueConverter --------------------------
(***************************************************************************)
(* Numbers as bytes, the low one first (ValueConverter.cpp).               *)
(*                                                                         *)
(* A byte has Radix values.  The code's Radix is 256; a smaller one keeps  *)
(* the arithmetic and brings the limits of a 16-bit field within reach.    *)
(***************************************************************************)
EXTENDS EnumDataTypes, Sequences

CONSTANT Radix    \* the number of values of a byte

ASSUME RadixAssumption == Radix \in Nat \ {0, 1}

Byte == 0 .. Radix - 1
Word == Radix * Radix     \* the number of values of a uint16_t

\* Mutant: the high byte is not cut off.
from_uint(v) == <<v % Radix, v \div Radix>>

\* Mutant: the high byte comes first.
from_uint16_swapped(v) == <<(v \div Radix) % Radix, v % Radix>>

from_uint16(v) == <<v % Radix, (v \div Radix) % Radix>>

\* Mutant: the high half is lost.
from_uint_halved(v, byte_width) ==
  LET shifted[i \in 0 .. byte_width] == IF i = 0 THEN v ELSE shifted[i - 1] \div Radix
  IN  [i \in 1 .. (byte_width + 1) \div 2 |-> shifted[i - 1] % Radix]

\* The values of other widths; from_bool makes one byte of 0 or 1, and
\* from_double eight zero bytes whatever it is given.
from_uint_to_vector(v, byte_width) ==
  LET shifted[i \in 0 .. byte_width] == IF i = 0 THEN v ELSE shifted[i - 1] \div Radix
  IN  [i \in 1 .. byte_width |-> shifted[i - 1] % Radix]
from_double(v) == [i \in 1 .. 8 |-> 0]

\* What the getters of DataEntry make of a payload: 0 if it is too short.
to_uint(m_data, byte_width) ==
  LET from[i \in 1 .. byte_width + 1] ==
        IF i > byte_width THEN 0 ELSE m_data[i] + Radix * from[i + 1]
  IN  IF byte_width <= Len(m_data) THEN from[1] ELSE 0

\* to_uint16 behind the first i bytes of w, and the bytes then behind.
isEnoughAt(w, i, size) == i + size <= Len(w)
uint16At(w, i) == IF isEnoughAt(w, i, 2) THEN w[i + 1] + Radix * w[i + 2] ELSE 0
after16(w, i)  == IF isEnoughAt(w, i, 2) THEN i + 2 ELSE i
=============================================================================
