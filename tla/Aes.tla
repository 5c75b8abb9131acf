-------------------------------- MODULE Aes --------------------------------
(***************************************************************************)
(* What the primitives aes_loadKey, aes_enc and aes_dec promise: AES-128   *)
(* of FIPS-197 on clear values, round by round.  Key expansion produces    *)
(* round keys 0..Rounds; a block goes through the rounds of the cipher or  *)
(* of the inverse cipher and ends in output.  Masks, shuffles and tables   *)
(* do not exist at this level.                                             *)
(***************************************************************************)
EXTENDS AesMath

CONSTANTS Keys, Inputs       \* the blocks given as keys and as texts

VARIABLES roundKeys,  \* round keys computed so far
          op,         \* "enc" or "dec", the operation running or run last
          phase,      \* next transformation of the block
          round,      \* index of the next round key to add
          block,      \* the block being processed
          output      \* the caller's result buffer

vars == <<roundKeys, op, phase, round, block, output>>

Init == /\ roundKeys = [r \in {} |-> Zeros]
        /\ op = "enc" /\ phase = "idle" /\ round = 0
        /\ block = Zeros /\ output = Zeros

LoadKey(key) ==
  /\ phase = "idle"
  /\ roundKeys' = [r \in {0} |-> key]
  /\ phase' = "expand"
  /\ UNCHANGED <<op, round, block, output>>

ExpandKey ==
  /\ phase = "expand"
  /\ \E r \in 0 .. Rounds - 1 :
       /\ DOMAIN roundKeys = 0 .. r
       /\ roundKeys' = [i \in 0 .. r + 1 |-> IF i <= r THEN roundKeys[i]
                                             ELSE NextKey(roundKeys[r], r)]
       /\ phase' = IF r + 1 = Rounds THEN "idle" ELSE "expand"
  /\ UNCHANGED <<op, round, block, output>>

Begin(o, input) ==
  /\ phase = "idle" /\ DOMAIN roundKeys = 0 .. Rounds
  /\ op' = o /\ phase' = "key" /\ block' = input
  /\ round' = IF o = "enc" THEN 0 ELSE Rounds
  /\ UNCHANGED <<roundKeys, output>>

\* The last key of either direction ends the rounds.
AddRoundKey ==
  /\ phase = "key"
  /\ block' = Xors(block, roundKeys[round])
  /\ IF op = "enc"
     THEN /\ phase' = IF round = Rounds THEN "out" ELSE "sub"
          /\ round' = IF round = Rounds THEN round ELSE round + 1
     ELSE /\ phase' = CASE round = 0      -> "out"
                        [] round = Rounds -> "shift"
                        [] OTHER          -> "mix"
          /\ round' = IF round = 0 THEN round ELSE round - 1
  /\ UNCHANGED <<roundKeys, op, output>>

SubBytes ==
  /\ phase = "sub"
  /\ block' = Map(IF op = "enc" THEN Sbox ELSE InvSbox, block)
  /\ phase' = IF op = "enc" THEN "shift" ELSE "key"
  /\ UNCHANGED <<roundKeys, op, round, output>>

ShiftRow ==
  /\ phase = "shift"
  /\ block' = IF op = "enc" THEN ShiftRows(block) ELSE InvShiftRows(block)
  /\ phase' = IF op = "dec" THEN "sub" ELSE IF round < Rounds THEN "mix" ELSE "key"
  /\ UNCHANGED <<roundKeys, op, round, output>>

MixColumn ==
  /\ phase = "mix"
  /\ block' = IF op = "enc" THEN MixColumns(block) ELSE InvMixColumns(block)
  /\ phase' = IF op = "enc" THEN "key" ELSE "shift"
  /\ UNCHANGED <<roundKeys, op, round, output>>

End == /\ phase = "out" /\ phase' = "idle"
       /\ output' = block
       /\ UNCHANGED <<roundKeys, op, round, block>>

Next == \/ \E key \in Keys : LoadKey(key)
        \/ ExpandKey
        \/ \E o \in {"enc", "dec"}, input \in Inputs : Begin(o, input)
        \/ AddRoundKey \/ SubBytes \/ ShiftRow \/ MixColumn \/ End

Spec == Init /\ [][Next]_vars
=============================================================================
