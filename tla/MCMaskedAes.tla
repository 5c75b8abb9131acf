---------------------------- MODULE MCMaskedAes ----------------------------
(***************************************************************************)
(* MaskedAes at full size: the field and tables of the assembly file, and  *)
(* the key, plaintext and ciphertext of the example of FIPS-197 (C.1).     *)
(***************************************************************************)
EXTENDS MaskedAes, AesTables

Of(bytes) == [c \in Cells |-> bytes[c + 1]]
FipsKey    == [c \in Cells |-> c]
Plaintext  == [c \in Cells |-> 17 * c]
Ciphertext == Of(<<105, 196, 224, 216, 106, 123, 4, 48,
                   216, 205, 183, 128, 112, 180, 197, 90>>)
MCKeys == {FipsKey}
MCInputs == {Plaintext, Ciphertext}

\* Tables of random bytes: arbitrary ones, and the degenerate multiplier 0.
MCSeeds == {[i \in 0 .. 18 |-> (151 * i + 43) % 256],
            [i \in 0 .. 18 |-> IF i = 18 THEN 0 ELSE (29 * i * i + 200) % 256]}

\* The caller encrypts the plaintext and decrypts the ciphertext.
KnownInputs == pc = "idle" /\ pc' = "key" =>
  state' = Xors(Map(aes.GTab, IF op' = "enc" THEN Plaintext ELSE Ciphertext),
                aes.masksState)
MCSpec == Init /\ [][Next /\ KnownInputs]_vars

(***************************************************************************)
(* aes_enc and aes_dec give the answers of FIPS-197, whatever the masks    *)
(* and whatever ran before on the same contexts.                           *)
(***************************************************************************)
KnownAnswer ==
  [][pc = "unmask" => output' = IF op = "enc" THEN Ciphertext ELSE Plaintext]_vars
=============================================================================
