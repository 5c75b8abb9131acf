------------------------------- MODULE Numerals -------------------------------
(***************************************************************************)
(* How printf.c writes numbers, and the positional notation it should      *)
(* agree with.                                                             *)
(***************************************************************************)
EXTENDS Integers, Sequences

DigitChars == <<"0", "1", "2", "3", "4", "5", "6", "7",
                "8", "9", "a", "b", "c", "d", "e", "f">>

ring_buffer_write_digit(d) == DigitChars[d + 1]

DecimalDigits == {DigitChars[k] : k \in 1..10}

DigitValue(c) == (CHOOSE k \in 1..10 : DigitChars[k] = c) - 1

\* Faulty variant: the last digit is not counted.
NumberLenNoLast(value, base) ==
    LET rounds[v \in Nat] == IF v \div base = 0 THEN 0 ELSE 1 + rounds[v \div base]
    IN  rounds[value]

\* for (; value / base != 0; value /= base): one digit per round, and the
\* last one after the loop.
get_number_len(value, base) ==
    LET rounds[v \in Nat] == IF v \div base = 0 THEN 1 ELSE 1 + rounds[v \div base]
    IN  rounds[value]

\* The digits are found from the least significant on, and written from the
\* most significant on.
ring_buffer_write_number(value, base) ==
    LET digits[v \in Nat] ==
            IF v \div base = 0 THEN <<ring_buffer_write_digit(v % base)>>
            ELSE Append(digits[v \div base], ring_buffer_write_digit(v % base))
    IN  digits[value]

(***************************************************************************)
(* Reference: the shortest positional numeral of v, digit by digit.        *)
(***************************************************************************)
Weight(base, n) ==
    LET weight[k \in 0..n] == IF k = 0 THEN 1 ELSE base * weight[k - 1]
    IN  weight[n]

Width(v, base) == CHOOSE n \in 1..(v + 1) : /\ v < Weight(base, n)
                                            /\ n = 1 \/ v >= Weight(base, n - 1)

Numeral(v, base) ==
    LET n == Width(v, base)
    IN  [k \in 1..n |-> DigitChars[((v \div Weight(base, n - k)) % base) + 1]]

Padded(s, w) == [k \in 1..(w - Len(s)) |-> "0"] \o s
=============================================================================
