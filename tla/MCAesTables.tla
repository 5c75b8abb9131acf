---------------------------- MODULE MCAesTables ----------------------------
(***************************************************************************)
(* The tables and table computations of the masked AES against GF(256) as  *)
(* FIPS-197 defines it, at each value of a byte.                           *)
(***************************************************************************)
EXTENDS TableWalk, AesTables

\* Polynomials over GF(2) modulo x^8 + x^4 + x^3 + x + 1.
Double(b) == IF b < 128 THEN 2 * b ELSE ByteXor(2 * b - 256, 27)
Times(a, b) ==
  LET power[i \in 0 .. 7] == IF i = 0 THEN b ELSE Double(power[i - 1])
      sum[i \in 0 .. 8] == IF i = 0 THEN 0
                           ELSE IF Bit(a, i - 1) = 1 THEN ByteXor(sum[i - 1], power[i - 1])
                           ELSE sum[i - 1]
  IN  sum[8]
InverseOf(a) == IF a = 0 THEN 0 ELSE CHOOSE b \in Byte : Times(a, b) = 1

Affine(b) ==
  LET bit(i) == (Bit(b, i) + Bit(b, (i + 4) % 8) + Bit(b, (i + 5) % 8)
                 + Bit(b, (i + 6) % 8) + Bit(b, (i + 7) % 8) + Bit(99, i)) % 2
      sum[i \in 0 .. 8] == IF i = 0 THEN 0 ELSE sum[i - 1] + bit(i - 1) * 2^(i - 1)
  IN  sum[8]

(***************************************************************************)
(* sbox is the substitution of FIPS-197 and Invsbox undoes it; the table   *)
(* that Compute_GTab builds for a multiplier is multiplication by it, its  *)
(* quotients undo it, and xtime, fourtime and eighttime are products by 2, *)
(* 4 and 8.  The multiplier 0, which aes_loadKey's header forbids, behaves *)
(* as 1 everywhere: unmasking still undoes masking.                        *)
(***************************************************************************)
TablesAreAes ==
  LET Multiplier == IF byte = 0 THEN 1 ELSE byte
      G == Compute_GTab(byte)
  IN  /\ sbox[byte] = Affine(InverseOf(byte)) /\ Invsbox[sbox[byte]] = byte
      /\ \A x \in Byte :
           /\ G[x] = Times(Multiplier, x)
           /\ x # 0 => Times(Multiplier, field_division(byte, x)) = x
      /\ \A i \in 0 .. 15 :
           LET a == [c \in Cells |-> 16 * i + c]
           IN  Multiplicative_unmasking(byte, Map(G, a)) = a
      /\ xtime[byte] = Double(byte)
      /\ fourtime[byte] = Times(4, byte) /\ eighttime[byte] = Times(8, byte)

\* ShiftRows by destination tables is ShiftRows.
ASSUME ShiftTablesAreAes ==
  LET a == [c \in Cells |-> c]
      id == [i \in Cells |-> i]
  IN  /\ Scatter(id, t_shiftRows, a, Zeros) = ShiftRows(a)
      /\ Scatter(id, t_shiftRows_D, a, Zeros) = InvShiftRows(a)
=============================================================================
