----------------------------- MODULE AesService -----------------------------
(***************************************************************************)
(* What a user of the AES engine relies on: a key, a direction, and blocks *)
(* processed under the latest of both.  No command modes, no state flags   *)
(* and no errors: a block is processed only when there is a key and the    *)
(* direction is the right one.  The two counters say how often the current *)
(* key masks and the current state masks have been used, modulo the range  *)
(* of the counters.  AesEngine implements this.                            *)
(***************************************************************************)
EXTENDS Naturals

CONSTANTS Keys, Inputs, None, CTR_MOD

VARIABLES
  key,         \* the key loaded last
  direction,   \* the direction chosen last
  keyUses,     \* blocks processed since the key was loaded
  boxUses,     \* blocks processed since the direction was chosen
  result       \* the last block processed

vars == <<key, direction, keyUses, boxUses, result>>

Init ==
  /\ key = None /\ direction = None
  /\ keyUses = 0 /\ boxUses = 0
  /\ result = None

Load(k) ==
  /\ key' = k
  /\ keyUses' = 0
  /\ UNCHANGED <<direction, boxUses, result>>

Choose(d) ==
  /\ direction' = d
  /\ boxUses' = 0
  /\ UNCHANGED <<key, keyUses, result>>

Process(x) ==
  /\ key # None /\ direction # None
  /\ result' = [op |-> direction, key |-> key, input |-> x]
  /\ keyUses' = (keyUses + 1) % CTR_MOD
  /\ boxUses' = (boxUses + 1) % CTR_MOD
  /\ UNCHANGED <<key, direction>>

Next ==
  \/ \E k \in Keys : Load(k)
  \/ \E d \in {"ENC", "DEC"} : Choose(d)
  \/ \E x \in Inputs : Process(x)

Spec == Init /\ [][Next]_vars
=============================================================================
