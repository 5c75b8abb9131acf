----------------------------- MODULE MaskedAes -----------------------------
(***************************************************************************)
(* The masked AES of src/src/aes/affine_aes.S: aes_loadKey, aes_init_enc,  *)
(* aes_init_dec, aes_enc and aes_dec on one key context and one AES        *)
(* context, one action per subroutine that the rounds call.  The caller    *)
(* (aes() of aes.c) runs them one at a time, in any order its state flags  *)
(* allow: box stands for those flags, expanded = Rounds + 1 for the key's. *)
(*                                                                         *)
(* Aes is the cipher on clear values; Plain maps this state to it.         *)
(***************************************************************************)
EXTENDS Integers, MaskTables

CONSTANTS Keys, Inputs,
          Seeds,                 \* tables T of 19 random bytes
          ShiftTo, ShiftTo_D      \* destination of each cell in ShiftRows

ASSUME InputAssumption ==
  Keys \subseteq Block /\ Inputs \subseteq Block /\ Seeds \subseteq [0 .. 18 -> Byte]

\* The tables say where each cell goes, ShiftRows where it comes from.
ASSUME ShiftAssumption ==
  LET cells == [c \in Cells |-> c]
  IN  \A c \in Cells :
        /\ ShiftTo[c] \in Cells /\ ShiftTo_D[c] \in Cells
        /\ ShiftTo[ShiftRows(cells)[c]] = c /\ ShiftRows(cells)[ShiftTo[c]] = c
        /\ ShiftTo_D[InvShiftRows(cells)[c]] = c /\ InvShiftRows(cells)[ShiftTo_D[c]] = c

VARIABLES key,          \* key context: masks and tables of aes_loadKey
          maskedState,  \* round keys, times key.rmult, xor masksState
          masksState,   \* their masks
          expanded,     \* number of round keys computed
          aes,          \* AES context: masks, tables and shuffles
          box,          \* direction the AES context was initialised for
          GTab_key,     \* products by aes.rmult / key.rmult
          state,        \* the block, times aes.rmult, xor state2
          state2,       \* its masks
          t_temp,       \* scratch block
          op, pc,       \* operation running, subroutine it calls next
          round,        \* index of the next round key to add
          output        \* the caller's result

keyVars == <<key, maskedState, masksState, expanded>>
aesVars == <<aes, box>>
runVars == <<op, round, GTab_key, state, state2, t_temp>>
vars == <<keyVars, aesVars, runVars, pc, output>>

ZeroTable == [x \in Byte |-> 0]
MC == [i \in 0 .. 3 |-> i]

\* Contexts before their first initialisation are memory nobody reads.
Init ==
  /\ key = [rin |-> 0, rout |-> 0, rmult |-> 0, gtab |-> ZeroTable,
            rcon_mult |-> [i \in 0 .. 4 * Rounds - 1 |-> 0],
            permIndicesMC |-> MC, maskedSBox |-> ZeroTable]
  /\ maskedState = [r \in 0 .. Rounds |-> Zeros] /\ masksState = maskedState
  /\ expanded = 0
  /\ aes = [masksState |-> Zeros, rin |-> 0, rout |-> 0, rmult |-> 0,
            GTab |-> ZeroTable, permIndicesMC |-> MC, permIndicesBisMC |-> MC,
            permIndices |-> Zeros, permIndicesBis |-> Zeros,
            sboxMasked |-> ZeroTable]
  /\ box = "none"
  /\ op = "enc" /\ round = 0 /\ GTab_key = ZeroTable
  /\ state = Zeros /\ state2 = Zeros /\ t_temp = Zeros
  /\ pc = "idle" /\ output = Zeros

\* The first sixteen bytes of T are masks, then rin, rout and rmult.
Masks(T) == [c \in Cells |-> T[c]]

(***************************************************************************)
(* aes_loadKey: everything before the expansion, then one round of it per  *)
(* step.                                                                   *)
(***************************************************************************)
KeyContext(T) ==
  LET G == Compute_GTab(T[18])
  IN  [rin |-> T[16], rout |-> T[17], rmult |-> T[18], gtab |-> G,
       rcon_mult |-> Map_in_G_rcon_key(G),
       permIndicesMC |-> permIndicesMC(T[0]),
       maskedSBox |-> Compute_Affine_sboxMasked(Sbox, G, T[16], T[17])]

aes_loadKey(masterkey, T) ==
  /\ pc = "idle"
  /\ key' = KeyContext(T)
  /\ masksState' = [masksState EXCEPT ![0] = Masks(T)]
  /\ maskedState' = [maskedState EXCEPT
                       ![0] = Xors(Map(Compute_GTab(T[18]), masterkey), Masks(T))]
  /\ expanded' = 1
  /\ pc' = "expand"
  /\ UNCHANGED <<aesVars, runVars, output>>

ExpandKey ==
  /\ pc = "expand"
  /\ LET i == expanded - 1
     IN  /\ maskedState' = [maskedState EXCEPT ![expanded] =
                              KeyExpansion_masked(key, maskedState[i], masksState[i], i)]
         /\ masksState' = [masksState EXCEPT ![expanded] =
                              KeyExpansion_masks(masksState[i])]
  /\ expanded' = expanded + 1
  /\ pc' = IF expanded = Rounds THEN "idle" ELSE "expand"
  /\ UNCHANGED <<key, aesVars, runVars, output>>

(***************************************************************************)
(* aes_init_enc and aes_init_dec differ only in the box they mask.         *)
(***************************************************************************)
AesContext(T, table) ==
  LET G == Compute_GTab(T[18])
  IN  [masksState |-> Masks(T), rin |-> T[16], rout |-> T[17], rmult |-> T[18],
       GTab |-> G,
       permIndicesMC |-> permIndicesMC(T[0]), permIndicesBisMC |-> permIndicesMC(T[1]),
       permIndices |-> permIndices(T), permIndicesBis |-> permIndicesBis(T),
       sboxMasked |-> Compute_Affine_sboxMasked(table, G, T[16], T[17])]

InitContext(direction, table, T) ==
  /\ pc = "idle"
  /\ aes' = AesContext(T, table) /\ box' = direction
  /\ UNCHANGED <<keyVars, runVars, pc, output>>

aes_init_enc(T) == InitContext("enc", Sbox, T)
aes_init_dec(T) == InitContext("dec", InvSbox, T)

(***************************************************************************)
(* The straight line at the start of aes_enc and aes_dec: load the block   *)
(* and the masks, recompute the products by aes.rmult / key.rmult, mask.   *)
(***************************************************************************)
GTabKey == Compute_GTab(field_division(key.rmult, aes.rmult))

Load_data(o, input) ==
  /\ pc = "idle" /\ expanded = Rounds + 1 /\ box = o
  /\ op' = o
  /\ round' = IF o = "enc" THEN 0 ELSE Rounds
  /\ state2' = aes.masksState
  /\ state' = Xors(Map(aes.GTab, input), aes.masksState)
  /\ GTab_key' = GTabKey
  /\ pc' = "key"
  /\ UNCHANGED <<keyVars, aesVars, t_temp, output>>

AddRoundkey ==
  /\ pc = "key"
  /\ state2' = Add_roundkey_masked(aes, GTab_key, masksState[round], state2)
  /\ state' = Add_roundkey_masked(aes, GTab_key, maskedState[round], state)
  /\ IF op = "enc"
     THEN /\ pc' = IF round = Rounds THEN "unmask" ELSE "rin"
          /\ round' = IF round = Rounds THEN round ELSE round + 1
     ELSE /\ pc' = CASE round = 0      -> "unmask"
                     [] round = Rounds -> "shift"
                     [] OTHER          -> "part2mask"
          /\ round' = IF round = 0 THEN round ELSE round - 1
  /\ UNCHANGED <<keyVars, aesVars, op, GTab_key, t_temp, output>>

Xor_Word ==
  /\ pc = "rin" /\ pc' = "sub"
  /\ state' = XorAll(state, aes.rin)
  /\ UNCHANGED <<keyVars, aesVars, op, round, GTab_key, state2, t_temp, output>>

SubBytes ==
  /\ pc = "sub"
  /\ state' = SubBytesWithMask(aes, state, state2)
  /\ pc' = IF op = "enc" THEN "shift" ELSE "key"
  /\ UNCHANGED <<keyVars, aesVars, op, round, GTab_key, state2, t_temp, output>>

\* Both halves go through t_temp, each in an order of its own.
ShiftRowsWithMasked ==
  /\ pc = "shift"
  /\ LET table == IF op = "enc" THEN ShiftTo ELSE ShiftTo_D
         temp  == Scatter(aes.permIndices, table, state, t_temp)
     IN  /\ state' = Visit(aes.permIndices, temp, state)
         /\ t_temp' = Scatter(aes.permIndicesBis, table, state2, temp)
         /\ state2' = Visit(aes.permIndicesBis, t_temp', state2)
  /\ pc' = IF op = "dec" THEN "rin" ELSE IF round < Rounds THEN "mixMask" ELSE "key"
  /\ UNCHANGED <<keyVars, aesVars, op, round, GTab_key, output>>

(***************************************************************************)
(* MixColumns of the masks, then of the masked block.  Decryption adds a   *)
(* second part, computed into t_temp before and folded in after; it swaps  *)
(* the two orders.                                                         *)
(***************************************************************************)
OrderOfMasks == IF op = "enc" THEN aes.permIndicesMC ELSE aes.permIndicesBisMC
OrderOfBlock == IF op = "enc" THEN aes.permIndicesBisMC ELSE aes.permIndicesMC

Part2Mask ==
  /\ pc = "part2mask" /\ pc' = "mixMask"
  /\ t_temp' = InvMixColumns_part2(OrderOfMasks, state2, t_temp)
  /\ UNCHANGED <<keyVars, aesVars, op, round, GTab_key, state, state2, output>>

MixMask ==
  /\ pc = "mixMask" /\ pc' = (IF op = "enc" THEN "mix" ELSE "foldMask")
  /\ state2' = MixColumn_masked(OrderOfMasks, state2)
  /\ UNCHANGED <<keyVars, aesVars, op, round, GTab_key, state, t_temp, output>>

FoldMask ==
  /\ pc = "foldMask" /\ pc' = "part2"
  /\ state2' = Xors(state2, t_temp)
  /\ UNCHANGED <<keyVars, aesVars, op, round, GTab_key, state, t_temp, output>>

Part2 ==
  /\ pc = "part2" /\ pc' = "mix"
  /\ t_temp' = InvMixColumns_part2(OrderOfBlock, state, t_temp)
  /\ UNCHANGED <<keyVars, aesVars, op, round, GTab_key, state, state2, output>>

Mix ==
  /\ pc = "mix" /\ pc' = (IF op = "enc" THEN "key" ELSE "fold")
  /\ state' = MixColumn_masked(OrderOfBlock, state)
  /\ UNCHANGED <<keyVars, aesVars, op, round, GTab_key, state2, t_temp, output>>

Fold ==
  /\ pc = "fold" /\ pc' = "shift"
  /\ state' = Xors(state, t_temp)
  /\ UNCHANGED <<keyVars, aesVars, op, round, GTab_key, state2, t_temp, output>>

\* Xor_states, Multiplicative_unmasking and State_copy end an operation.
Unmask ==
  /\ pc = "unmask" /\ pc' = "idle"
  /\ state' = Multiplicative_unmasking(aes.rmult, Xors(state, state2))
  /\ output' = state'
  /\ UNCHANGED <<keyVars, aesVars, op, round, GTab_key, state2, t_temp>>

Next ==
  \/ \E masterkey \in Keys, T \in Seeds : aes_loadKey(masterkey, T)
  \/ ExpandKey
  \/ \E T \in Seeds : aes_init_enc(T) \/ aes_init_dec(T)
  \/ \E o \in {"enc", "dec"}, input \in Inputs : Load_data(o, input)
  \/ AddRoundkey \/ Xor_Word \/ SubBytes \/ ShiftRowsWithMasked
  \/ Part2Mask \/ MixMask \/ FoldMask \/ Part2 \/ Mix \/ Fold
  \/ Unmask

Spec == Init /\ [][Next]_vars
-----------------------------------------------------------------------------
(***************************************************************************)
(* The clear value of a masked block, and the plain cipher seen through    *)
(* it.  Between Xor_Word and SubBytes the block also carries rin.  In the  *)
(* mix the masks move first: the cipher takes its step there, and the      *)
(* block's own half is mapped as if already moved.                         *)
(***************************************************************************)
PlainBlock ==
  CASE pc \in {"idle", "expand"} -> state
    [] pc = "sub"      -> Clear(aes.rmult, XorAll(state, aes.rin), state2)
    [] pc = "foldMask" -> Clear(aes.rmult, InvMixColumns(state), Xors(state2, t_temp))
    [] pc = "part2"    -> Clear(aes.rmult, InvMixColumns(state), state2)
    [] pc = "mix"      -> Clear(aes.rmult, IF op = "enc" THEN MixColumns(state)
                                           ELSE InvMixColumns(state), state2)
    [] pc = "fold"     -> Clear(aes.rmult, Xors(state, t_temp), state2)
    [] OTHER           -> Clear(aes.rmult, state, state2)

PlainPhase ==
  CASE pc \in {"idle", "expand", "key", "shift"} -> pc
    [] pc \in {"rin", "sub"}                     -> "sub"
    [] pc \in {"part2mask", "mixMask"}           -> "mix"
    [] pc = "unmask"                             -> "out"
    [] pc = "mix" /\ op = "enc"                  -> "key"
    [] OTHER                                     -> "shift"

Plain == INSTANCE Aes WITH
  roundKeys <- [r \in 0 .. expanded - 1 |->
                  Clear(key.rmult, maskedState[r], masksState[r])],
  phase <- PlainPhase,
  block <- PlainBlock

(***************************************************************************)
(* Whatever the seeds, and whatever was computed before on the same two    *)
(* contexts, unmasking turns every step into a step of AES or a stutter:   *)
(* aes_enc and aes_dec are AES, and the masked key schedule is its own.    *)
(***************************************************************************)
IsAes == Plain!Spec
=============================================================================
