----------------------------- MODULE MaskTables -----------------------------
(***************************************************************************)
(* The subroutines of src/src/aes/affine_aes.S as functions of the memory  *)
(* they read.  A clear byte x is represented by x * rmult ^ mask: products *)
(* by rmult go through a table computed from discrete logarithms, the      *)
(* substitution box is recomputed for the masks in use, and every loop     *)
(* over bytes or columns follows a random permutation.                     *)
(***************************************************************************)
EXTENDS AesMath, Shuffle

CONSTANTS Fourtime, Eighttime,   \* products by 4 and 8
          Log, ALog    \* logarithms and powers of a generator

\* The generator is 3; 0 has the logarithm of 1.
ASSUME LogAssumption ==
  /\ Log \in [Byte -> 0 .. N - 2] /\ ALog \in [0 .. N - 1 -> 1 .. N - 1]
  /\ \A x \in 1 .. N - 1 : ALog[Log[x]] = x
  /\ \A e \in 0 .. N - 2 : /\ Log[ALog[e]] = e
                           /\ ALog[e + 1] = Xor(Xtime[ALog[e]], ALog[e])
  /\ ALog[N - 1] = ALog[0]

ASSUME TimesAssumption ==
  /\ Fourtime = [x \in Byte |-> Times4(x)]
  /\ Eighttime = [x \in Byte |-> Times8(x)]

(***************************************************************************)
(* Logarithms are added modulo N - 1 by adding the carry back (uadd8, sel, *)
(* uadd8); the sum N - 1 is left as it is and its power is 1 as well.      *)
(***************************************************************************)
\* Faulty variant: the carry is not added back.
AddLogs_NoCarry(a, b) == (a + b) % N

AddLogs(a, b) == IF a + b < N THEN a + b ELSE a + b + 1 - N
MinusLog(x) == N - 1 - Log[x]

Product(x, r)  == ALog[AddLogs(Log[x], Log[r])]
Quotient(x, r) == ALog[AddLogs(Log[x], MinusLog(r))]

Compute_GTab(rmult) == [x \in Byte |-> IF x = 0 THEN 0 ELSE Product(x, rmult)]

\* Faulty variant: divisor and dividend swapped.
field_division_Swapped(keyMult, aesMult) == Quotient(keyMult, aesMult)

field_division(keyMult, aesMult) == Quotient(aesMult, keyMult)

Multiplicative_unmasking(rmult, a) ==
  [c \in Cells |-> IF a[c] = 0 THEN 0 ELSE Quotient(a[c], rmult)]

\* The clear value of a masked block.
Clear(rmult, a, masks) == Multiplicative_unmasking(rmult, Xors(a, masks))

\* sboxMasked[G[y] ^ rin] = G[box[y]] ^ rout for every byte y.
Compute_Affine_sboxMasked(box, G, rin, rout) ==
  [i \in Byte |-> LET y == CHOOSE b \in Byte : Xor(G[b], rin) = i
                  IN  Xor(G[box[y]], rout)]

\* One byte is read and one word written per round.
Map_in_G_rcon_key(G) ==
  [i \in 0 .. 4 * Rounds - 1 |-> IF i % 4 = 0 THEN G[Rcon[i]] ELSE 0]

(***************************************************************************)
(* A loop over perm replaces the cells (or columns) it reaches.            *)
(***************************************************************************)
Visit(perm, new, old) ==
  [c \in Cells |-> IF c \in Reached(perm) THEN new[c] ELSE old[c]]
VisitColumns(perm, new, old) ==
  [c \in Cells |-> IF Col(c) \in Reached(perm) THEN new[c] ELSE old[c]]

\* One byte for the input mask and one for the output mask of the box.
SubBytesWithMask(ctx, a, masks) ==
  XorAll(Visit(ctx.permIndices,
               [c \in Cells |-> Xor(ctx.sboxMasked[Xor(a[c], masks[c])], masks[c])],
               a),
         ctx.rout)

\* The cells of old that t_shiftRows moves, in the order perm, over temp.
Scatter(perm, t_shiftRows, old, temp) ==
  [d \in Cells |->
     IF \E i \in DOMAIN perm : t_shiftRows[perm[i]] = d
     THEN old[CHOOSE c \in Cells : t_shiftRows[c] = d] ELSE temp[d]]

Add_roundkey_masked(ctx, G, k, a) ==
  Visit(ctx.permIndices, Xors(a, Map(G, k)), a)

MixColumn_masked(perm, a) ==
  LET t(c) == Xor4(a[c], Below(a, c, 1), Below(a, c, 2), Below(a, c, 3))
  IN  VisitColumns(perm, [c \in Cells |->
        Xor(Xor(Xtime[Xor(a[c], Below(a, c, 1))], a[c]), t(c))], a)

\* Faulty variant: pairs neighbours instead of alternate rows.
InvMixColumns_part2_Next(perm, a, temp) ==
  LET t(c) == Xor4(a[c], Below(a, c, 1), Below(a, c, 2), Below(a, c, 3))
  IN  VisitColumns(perm, [c \in Cells |->
        Xor(Fourtime[Xor(a[c], Below(a, c, 1))], Eighttime[t(c)])], temp)

InvMixColumns_part2(perm, a, temp) ==
  LET t(c) == Xor4(a[c], Below(a, c, 1), Below(a, c, 2), Below(a, c, 3))
  IN  VisitColumns(perm, [c \in Cells |->
        Xor(Fourtime[Xor(a[c], Below(a, c, 2))], Eighttime[t(c)])], temp)

(***************************************************************************)
(* KeyExpansion_masked: from round key i, masked by wm, to the next one    *)
(* and its masks.                                                          *)
(***************************************************************************)
KeyExpansion_masked(ctx, w, wm, i) ==
  LET temp == RotWord(w)
      mask == RotWord(wm)
      sub  == [r \in 0 .. 3 |->
                 IF r \in Reached(ctx.permIndicesMC)
                 THEN Xor(Xor(ctx.maskedSBox[Xor(Xor(temp[r], ctx.rin), mask[r])],
                              mask[r]), ctx.rout)
                 ELSE temp[r]]
  IN  Chained([r \in 0 .. 3 |-> Xor(sub[r], ctx.rcon_mult[4 * i + r])], w)

\* Faulty variant: the masks are not rotated with the word.
KeyExpansion_masks_NoRot(wm) == Chained([r \in 0 .. 3 |-> wm[12 + r]], wm)

KeyExpansion_masks(wm) == Chained(RotWord(wm), wm)
=============================================================================
