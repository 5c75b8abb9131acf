------------------------------ MODULE AesMath ------------------------------
(***************************************************************************)
(* The vocabulary of the block cipher: bytes of a field, blocks of sixteen *)
(* bytes, and the transformations of a round as FIPS-197 defines them.     *)
(* src/src/aes/affine_aes.S computes them on masked values; here they are  *)
(* on clear ones, as the reference the masked code is compared with.       *)
(*                                                                         *)
(* The field is a parameter: bytes are 0..N-1 (N is 256 in the code), Xor  *)
(* is addition and the tables are those of the assembly file.  Nothing     *)
(* below depends on N, so small fields exercise the same algorithms.       *)
(***************************************************************************)
EXTENDS Naturals

CONSTANTS N,            \* number of bytes, a power of two
          Rounds,       \* 10 for a key of 128 bits
          Xor(_, _),    \* bitwise exclusive or of two bytes
          Sbox, InvSbox, Xtime, Rcon

Byte == 0 .. N - 1

\* Bit i of a byte, and the number of bits.
Odd(a, i) == (a \div 2^i) % 2 = 1
Width == CHOOSE w \in 0 .. N : 2^w = N

ASSUME ByteAssumption == N \in Nat /\ N > 1 /\ Rounds \in Nat \ {0}

ASSUME XorAssumption ==
  \A a, b \in Byte :
    /\ Xor(a, b) \in Byte
    /\ \A i \in 0 .. Width - 1 : /\ Odd(Xor(a, b), i) <=> ~(Odd(a, i) <=> Odd(b, i))
                                 /\ ~Odd(0, i)
    /\ (\A i \in 0 .. Width - 1 : Odd(a, i) <=> Odd(b, i)) => a = b

\* The product by 2 is linear.
ASSUME TableAssumption ==
  /\ Sbox \in [Byte -> Byte] /\ InvSbox \in [Byte -> Byte]
  /\ Rcon \in [0 .. 4 * Rounds - 1 -> Byte]
  /\ Xtime \in [Byte -> Byte]
  /\ \A a, b \in Byte : Xtime[Xor(a, b)] = Xor(Xtime[a], Xtime[b])

\* A block is stored column by column: cell 4c+r is row r of column c.
Cells == 0 .. 15
Block == [Cells -> Byte]
Row(c) == c % 4
Col(c) == c \div 4

Zeros == [c \in Cells |-> 0]
Xors(a, b) == [c \in Cells |-> Xor(a[c], b[c])]
XorAll(a, byte) == [c \in Cells |-> Xor(a[c], byte)]
Map(table, a) == [c \in Cells |-> table[a[c]]]

(***************************************************************************)
(* Row r of a block is rotated left by r columns; decryption rotates right.*)
(***************************************************************************)
ShiftRows(a)    == [c \in Cells |-> a[4 * ((Col(c) + Row(c)) % 4) + Row(c)]]
InvShiftRows(a) == [c \in Cells |-> a[4 * ((Col(c) + 4 - Row(c)) % 4) + Row(c)]]

(***************************************************************************)
(* A column is multiplied by the matrix circulant in the four coefficients *)
(* 2 3 1 1, or e b d 9 for the inverse; Below(a, c, i) is the byte i rows  *)
(* below cell c, cyclically, in the column of c.                           *)
(***************************************************************************)
Below(a, c, i) == a[4 * Col(c) + ((Row(c) + i) % 4)]
Xor4(p, q, r, s) == Xor(Xor(p, q), Xor(r, s))

Times2(x) == Xtime[x]
Times4(x) == Xtime[Xtime[x]]
Times8(x) == Xtime[Xtime[Xtime[x]]]

MixColumns(a) ==
  [c \in Cells |-> Xor4(Times2(a[c]),
                        Xor(Times2(Below(a, c, 1)), Below(a, c, 1)),
                        Below(a, c, 2), Below(a, c, 3))]

InvMixColumns(a) ==
  LET e(x) == Xor(Times8(x), Xor(Times4(x), Times2(x)))
      b(x) == Xor(Times8(x), Xor(Times2(x), x))
      d(x) == Xor(Times8(x), Xor(Times4(x), x))
      n(x) == Xor(Times8(x), x)
  IN  [c \in Cells |-> Xor4(e(a[c]), b(Below(a, c, 1)),
                            d(Below(a, c, 2)), n(Below(a, c, 3)))]

(***************************************************************************)
(* Key schedule.  Chained(head, k): the first word of a new round key is   *)
(* head xor the first word of k, each later one the word before it xor the *)
(* word of k at its place.  RotWord(k)[r] is byte r of the rotated last    *)
(* word of k.                                                              *)
(***************************************************************************)
RotWord(k) == [r \in 0 .. 3 |-> k[12 + ((r + 1) % 4)]]

Chained(head, k) ==
  LET w0 == [r \in 0 .. 3 |-> Xor(head[r], k[r])]
      w1 == [r \in 0 .. 3 |-> Xor(w0[r], k[4 + r])]
      w2 == [r \in 0 .. 3 |-> Xor(w1[r], k[8 + r])]
      w3 == [r \in 0 .. 3 |-> Xor(w2[r], k[12 + r])]
  IN  [c \in Cells |-> <<w0, w1, w2, w3>>[Col(c) + 1][Row(c)]]

NextKey(k, i) ==
  Chained([r \in 0 .. 3 |-> IF r = 0 THEN Xor(Sbox[RotWord(k)[r]], Rcon[4 * i])
                                     ELSE Sbox[RotWord(k)[r]]], k)
=============================================================================
