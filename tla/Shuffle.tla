------------------------------ MODULE Shuffle ------------------------------
(***************************************************************************)
(* The random orders in which the masked AES visits bytes and columns      *)
(* (src/src/aes/affine_aes.S).  A seed byte is only used through its low   *)
(* bits, so everything here is arithmetic on nibbles.                      *)
(***************************************************************************)
EXTENDS Naturals

Nibble == 0 .. 15

Bit(a, i) == (a \div 2^i) % 2
Flip(a, b, i) == ((Bit(a, i) + Bit(b, i)) % 2) * 2^i
XorNibble == [a \in Nibble |-> [b \in Nibble |->
                Flip(a, b, 0) + Flip(a, b, 1) + Flip(a, b, 2) + Flip(a, b, 3)]]

\* Faulty variant: a value typed twice.
permGFSixteen_Typo ==
  LET p == <<12, 5, 6, 11, 9, 0, 10, 13, 3, 14, 15, 8, 4, 7, 1, 1>>
  IN  [i \in Nibble |-> p[i + 1]]

permGFSixteen ==
  LET p == <<12, 5, 6, 11, 9, 0, 10, 13, 3, 14, 15, 8, 4, 7, 1, 2>>
  IN  [i \in Nibble |-> p[i + 1]]

\* One turn of the loop: p(p(p(p(i^rand1)^rand2)^rand3)^rand4).
Turn(rand, i) ==
  LET p(x, k) == permGFSixteen[XorNibble[x][rand[k] % 16]]
  IN  p(p(p(p(i, 0), 1), 2), 3)

\* permIndices and permIndicesBis of the four bytes rand[0..3].
permIndices(rand)    == [i \in Nibble |-> Turn(rand, i)]
permIndicesBis(rand) == [i \in Nibble |-> Turn(rand, Turn(rand, i))]

\* The order of the four columns drawn from one byte.
permIndicesMC(rand) == [i \in 0 .. 3 |-> XorNibble[i][rand % 4]]

\* The cells a loop over perm reaches.
Reached(perm) == {perm[i] : i \in DOMAIN perm}
=============================================================================
