----------------------------- MODULE TableWalk -----------------------------
(***************************************************************************)
(* What the random orders and the column subroutines of affine_aes.S are   *)
(* relied on for, at each value of a byte: byte walks through all of them. *)
(***************************************************************************)
EXTENDS MaskTables

VARIABLE byte

WalkInit == byte = 0
WalkNext == byte' = (byte + 1) % N
WalkSpec == WalkInit /\ [][WalkNext]_byte

(***************************************************************************)
(* Every random order visits each byte, or each column, exactly once.      *)
(***************************************************************************)
ShufflesArePermutations ==
  /\ \A r2, r3 \in Nibble :
       LET rand == <<byte % 16, byte \div 16, r2, r3>>
           from == [k \in 0 .. 3 |-> rand[k + 1]]
       IN  /\ Reached(permIndices(from)) = Nibble
           /\ Reached(permIndicesBis(from)) = Nibble
  /\ Reached(permIndicesMC(byte)) = 0 .. 3

(***************************************************************************)
(* aes_dec adds MixColumns and InvMixColumns_part2; the sum undoes         *)
(* MixColumns.  Both are linear, so one byte at a time suffices.           *)
(***************************************************************************)
InvMixColumnsSplits ==
  \A i \in Cells, perm \in {permIndicesMC(r) : r \in 0 .. 3} :
    LET a   == [Zeros EXCEPT ![i] = byte]
        mix == MixColumn_masked(perm, a)
    IN  /\ mix = MixColumns(a)
        /\ Xors(mix, InvMixColumns_part2(perm, a, Zeros)) = InvMixColumns(a)
        /\ InvMixColumns(mix) = a
=============================================================================
