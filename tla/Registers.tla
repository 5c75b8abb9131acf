------------------------------ MODULE Registers ------------------------------
(***************************************************************************)
(* Memory-mapped registers of the STM32F407, as helpers.h handles them.    *)
(* A 32-bit register is the set of the numbers of its bits that are 1, a   *)
(* mask is a set of bits, and a value written to a field is a set of bits  *)
(* counted from the field's position.                                      *)
(***************************************************************************)
EXTENDS Integers, FiniteSets, FiniteSetsExt

Bits == 0..31

\* The bits of an integer, and the integer a set of bits stands for.
BitsOf(n) == {b \in 0..30 : (n \div 2^b) % 2 = 1}
NumOf(bits) == MapThenSumSet(LAMBDA b : 2^b, bits)

\* ((uint32_t)w << pos): the field of w bits that starts at pos.
Field(pos, w) == pos..(pos + w - 1)

\* value << pos, in 32 bits
Shift(value, pos) == {b + pos : b \in value} \cap Bits

set_reg_bits(reg, value) == reg \cup value

clear_reg_bits(reg, value) == reg \ value

\* Only the bits of the mask change; the mask itself is not shifted.  With a full
\* mask the value is written as it is, whatever the position.
set_reg_value(reg, value, mask, pos) ==
    CASE pos > 31 -> reg
      [] mask = Bits /\ pos <= 31 -> value
      [] OTHER -> (reg \ mask) \cup (Shift(value, pos) \cap mask)

get_reg_value(reg, mask, pos) ==
    IF mask = {} \/ pos > 31 THEN {} ELSE {b - pos : b \in {c \in reg \cap mask : c >= pos}}

=============================================================================
