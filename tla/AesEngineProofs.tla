-------------------------- MODULE AesEngineProofs ---------------------------
(***************************************************************************)
(* Proofs about AesEngine, for all keys, blocks and random values, every   *)
(* range of the counters, and whether or not get_random may fail.          *)
(***************************************************************************)
EXTENDS AesEngine, TLAPS

-----------------------------------------------------------------------------
(* The checks of a call                                                    *)

(***************************************************************************)
(* What a command that passes test_mode cannot be: both operations, both   *)
(* initialisations, or an operation with the other one's initialisation.   *)
(***************************************************************************)
LEMMA ModeChecked ==
  ASSUME NEW m \in Mode, test_mode(m) = "NO_ERROR"
  PROVE  /\ ~(Directions \subseteq m)
         /\ ~({"AESINIT_ENC", "AESINIT_DEC"} \subseteq m)
         /\ \A d \in Directions : ~({d, InitFlag[Other[d]]} \subseteq m)
BY DEF test_mode

(***************************************************************************)
(* An operation that passes test_mode_state has its key and its tables, or *)
(* brings them along.                                                      *)
(***************************************************************************)
LEMMA StateChecked ==
  ASSUME NEW m \in Mode, NEW s \in SUBSET StateFlag, NEW d \in Directions,
         test_mode_state(m, s) = "NO_ERROR", d \in m
  PROVE  /\ "KEYINIT" \in s \cup m
         /\ InitFlag[d] \in s \cup m
BY DEF test_mode_state, Directions, InitFlag

(***************************************************************************)
(* The counters stay in their range.                                       *)
(***************************************************************************)
LEMMA IncCounter ==
  ASSUME NEW c \in Counter
  PROVE  Inc(c) \in Counter
BY EngineAssumption DEF Inc, Counter

LEMMA IncZero == 0 \in Counter /\ Inc(0) = 1
BY EngineAssumption DEF Inc, Counter

-----------------------------------------------------------------------------
(* The invariant                                                           *)

Points == {"idle", "key_random", "load_key", "aes_random", "init_aes", "process"}

\* The types, without the claim that no garbage is written.
Types ==
  /\ kctx \in KeyContext /\ actx \in AesContext
  /\ state \subseteq StateFlag
  /\ ctr_key \in Counter /\ ctr_aes \in Counter
  /\ pc \in Points
  /\ call \in [mode : Mode, key : Keys \cup {None}, input : Inputs \cup {None}]
  /\ buf \in Rand

\* The call in progress passed the checks: its arguments are there, and what
\* its operation needs is in the contexts or still to be done.
CallInv ==
  pc # "idle" =>
    /\ ~(Directions \subseteq call.mode)
    /\ ~({"AESINIT_ENC", "AESINIT_DEC"} \subseteq call.mode)
    /\ "KEYINIT" \in call.mode => call.key \in Keys
    /\ \A d \in Directions : d \in call.mode =>
         /\ call.input \in Inputs
         /\ InitFlag[Other[d]] \notin call.mode
         /\ "KEYINIT" \in IF pc \in {"key_random", "load_key"}
                          THEN state \cup call.mode ELSE state
         /\ InitFlag[d] \in IF pc # "process" THEN state \cup call.mode ELSE state

EngineInv ==
  /\ Types
  /\ out \in Result \cup {None}
  /\ ContextsMatchState
  /\ CallInv

(***************************************************************************)
(* The block written by an operation that got past the checks is an AES    *)
(* block, under the key in the key context.                                *)
(***************************************************************************)
LEMMA BlockRight ==
  ASSUME EngineInv, pc = "process", NEW op \in Directions, op \in call.mode
  PROVE  /\ actx.box = op /\ kctx.key \in Keys /\ call.input \in Inputs
         /\ Block(op) = [op |-> op, key |-> kctx.key, input |-> call.input]
         /\ Block(op) \in Result
<1>1. actx.box = op
  BY DEF EngineInv, ContextsMatchState, CallInv
<1>2. kctx.key # None /\ call.input \in Inputs
  BY DEF EngineInv, ContextsMatchState, CallInv
<1>3. kctx.key \in Keys
  BY <1>2 DEF EngineInv, Types, KeyContext
<1>. QED  BY <1>1, <1>2, <1>3 DEF Block, Result

(***************************************************************************)
(* The steps of the engine, with the bound variables of Next named.        *)
(***************************************************************************)
LEMMA EngineInit == Init => EngineInv
<1> SUFFICES ASSUME Init PROVE EngineInv
  OBVIOUS
<1>1. Types
  BY IncZero DEF Init, Types, KeyContext, AesContext, Rand, NoCall, Points, Mode
<1>2. ContextsMatchState
  BY EngineAssumption DEF Init, ContextsMatchState, Directions
<1>. QED  BY <1>1, <1>2 DEF Init, EngineInv, CallInv

LEMMA EngineStep == EngineInv /\ [Next]_vars => EngineInv'
<1> SUFFICES ASSUME EngineInv, [Next]_vars PROVE EngineInv'
  OBVIOUS
<1>0. Types /\ out \in Result \cup {None} /\ ContextsMatchState /\ CallInv
  BY DEF EngineInv
<1> USE DEF keyVars, aesVars
<1>1. ASSUME NEW e, Refuse(e) PROVE EngineInv'
  BY <1>0, <1>1
  DEF Refuse, Return, EngineInv, Types, ContextsMatchState, CallInv, NoCall, Mode, Rand, Points
<1>2. ASSUME NEW m \in Mode, NEW k, NEW x, Accept(m, k, x) PROVE EngineInv'
  <2>1. /\ k \in Keys \cup {None} /\ ("KEYINIT" \in m => k \in Keys)
        /\ x \in Inputs \cup {None} /\ (m \cap Directions # {} => x \in Inputs)
    BY <1>2 DEF Accept
  <2>2. Types'
    BY <1>0, <1>2, <2>1 DEF Accept, Types, Points
  <2>3. ContextsMatchState' /\ out' \in Result \cup {None}
    BY <1>0, <1>2 DEF Accept, ContextsMatchState
  <2>4. /\ pc' = "key_random" /\ state' = state /\ state \in SUBSET StateFlag
        /\ call' = [mode |-> m, key |-> k, input |-> x]
        /\ test_mode(m) = "NO_ERROR" /\ test_mode_state(m, state) = "NO_ERROR"
    BY <1>0, <1>2 DEF Accept, Types
  <2>5. CallInv'
    BY <2>1, <2>4, ModeChecked, StateChecked DEF CallInv
  <2>. QED  BY <2>2, <2>3, <2>5 DEF EngineInv
<1>3. CASE KeyRandom \/ AesRandom
  <2>1. buf' \in Rand /\ pc' \in Points
    BY <1>3 DEF KeyRandom, AesRandom, Fresh, Rand, Goto, Points
  <2>2. Types' /\ ContextsMatchState' /\ out' \in Result \cup {None}
    BY <1>0, <1>3, <2>1 DEF KeyRandom, AesRandom, Goto, Types, ContextsMatchState
  <2>3. CallInv'
    BY <1>0, <1>3 DEF KeyRandom, AesRandom, Goto, CallInv
  <2>. QED  BY <2>2, <2>3 DEF EngineInv
<1>4. CASE KeyRandomFails \/ AesRandomFails
  BY <1>0, <1>4
  DEF KeyRandomFails, AesRandomFails, Return, EngineInv, Types, ContextsMatchState,
      CallInv, NoCall, Mode, Rand, Points
<1>5. CASE LoadKey
  <2>1. call.key \in Keys
    BY <1>0, <1>5 DEF LoadKey, Goto, CallInv
  <2>2. Types'
    BY <1>0, <1>5, <2>1, IncZero DEF LoadKey, Goto, Types, KeyContext, StateFlag, Points
  <2>3. ContextsMatchState' /\ out' \in Result \cup {None}
    BY <1>0, <1>5, <2>1, EngineAssumption
    DEF LoadKey, Goto, ContextsMatchState, Directions, InitFlag
  <2>4. CallInv'
    BY <1>0, <1>5 DEF LoadKey, Goto, CallInv
  <2>. QED  BY <2>2, <2>3, <2>4 DEF EngineInv
<1>6. CASE KeepKey \/ KeepAes
  <2>1. Types' /\ ContextsMatchState' /\ out' \in Result \cup {None}
    BY <1>0, <1>6 DEF KeepKey, KeepAes, Goto, Types, ContextsMatchState, Points
  <2>2. CallInv'
    BY <1>0, <1>6 DEF KeepKey, KeepAes, Goto, CallInv
  <2>. QED  BY <2>1, <2>2 DEF EngineInv
<1>7. ASSUME NEW d \in Directions, InitAes(d) PROVE EngineInv'
  <2>1. Types'
    <3>1. InitFlag[d] \in StateFlag
      BY DEF Directions, InitFlag, StateFlag
    <3>2. state' \subseteq StateFlag
      BY <1>0, <1>7, <3>1 DEF InitAes, Types
    <3>3. actx' \in AesContext
      BY <1>0, <1>7 DEF InitAes, Types, AesContext
    <3>. QED
      BY <1>0, <1>7, <3>2, <3>3, IncZero DEF InitAes, Goto, Types, Points
  <2>2. ContextsMatchState' /\ out' \in Result \cup {None}
    BY <1>0, <1>7 DEF InitAes, Goto, Types, AesContext, ContextsMatchState, Directions, InitFlag, Other
  <2>3. CallInv'
    BY <1>0, <1>7 DEF InitAes, Goto, CallInv, Directions, InitFlag, Other
  <2>. QED  BY <2>1, <2>2, <2>3 DEF EngineInv
<1>8. ASSUME NEW d \in Directions, Process(d) PROVE EngineInv'
  <2>1. Block(d) \in Result
    BY <1>8, BlockRight DEF Process, Return
  <2>2. Inc(ctr_key) \in Counter /\ Inc(ctr_aes) \in Counter
    BY <1>0, IncCounter DEF Types
  <2>. QED
    BY <1>0, <1>8, <2>1, <2>2
    DEF Process, Return, EngineInv, Types, ContextsMatchState, CallInv, NoCall, Mode, Rand, Points
<1>9. CASE NoBlock
  BY <1>0, <1>9
  DEF NoBlock, Return, EngineInv, Types, ContextsMatchState, CallInv, NoCall, Mode, Rand, Points
<1>10. CASE UNCHANGED vars
  BY <1>0, <1>10 DEF vars, EngineInv, Types, ContextsMatchState, CallInv
<1>. QED
  BY <1>1, <1>2, <1>3, <1>4, <1>5, <1>6, <1>7, <1>8, <1>9, <1>10
  DEF Next, Check, RefuseMode, RefuseState, RefuseParameters

LEMMA EngineInvariant == Spec => []EngineInv
BY EngineInit, EngineStep, PTL DEF Spec

(***************************************************************************)
(* Every variable keeps its type, and no garbage is ever written.          *)
(***************************************************************************)
THEOREM TypeCorrect == Spec => []TypeOK
<1>1. EngineInv => TypeOK
  BY DEF EngineInv, Types, TypeOK, Points
<1>. QED  BY <1>1, EngineInvariant, PTL

(***************************************************************************)
(* The flags in state tell the truth about the contexts.                   *)
(***************************************************************************)
THEOREM StateCorrect == Spec => []ContextsMatchState
<1>1. EngineInv => ContextsMatchState
  BY DEF EngineInv
<1>. QED  BY <1>1, EngineInvariant, PTL

-----------------------------------------------------------------------------
(* Randomness                                                              *)

\* The buffer about to go into a context is not what the other one holds.
MasksInv ==
  /\ MasksApart
  /\ pc = "load_key" => buf # None /\ buf # actx.rand
  /\ pc = "init_aes" => buf # None /\ buf # kctx.rand

(***************************************************************************)
(* The masks of the key and those of the state never come from the same    *)
(* randomness.                                                             *)
(***************************************************************************)
THEOREM MasksCorrect == Spec => []MasksApart
<1>1. Init => MasksInv
  BY DEF Init, MasksInv, MasksApart
<1>2. EngineInv /\ MasksInv /\ [Next]_vars => MasksInv'
  <2> SUFFICES ASSUME EngineInv, MasksInv, [Next]_vars PROVE MasksInv'
    OBVIOUS
  <2> USE DEF MasksInv, MasksApart, keyVars, aesVars
  <2>1. ASSUME NEW e, Refuse(e) PROVE MasksInv'
    BY <2>1 DEF Refuse, Return
  <2>2. ASSUME NEW m, NEW k, NEW x, Accept(m, k, x) PROVE MasksInv'
    BY <2>2 DEF Accept
  <2>3. CASE KeyRandom \/ AesRandom
    BY <2>3, EngineAssumption DEF KeyRandom, AesRandom, Fresh, Goto
  <2>4. CASE KeyRandomFails \/ AesRandomFails
    BY <2>4 DEF KeyRandomFails, AesRandomFails, Return
  <2>5. CASE LoadKey \/ KeepKey
    BY <2>5 DEF LoadKey, KeepKey, Goto
  <2>6. CASE KeepAes
    BY <2>6 DEF KeepAes, Goto
  <2>7. ASSUME NEW d \in Directions, InitAes(d) PROVE MasksInv'
    BY <2>7 DEF InitAes, Goto
  <2>8. ASSUME NEW d \in Directions, Process(d) PROVE MasksInv'
    BY <2>8 DEF Process, Return
  <2>9. CASE NoBlock
    BY <2>9 DEF NoBlock, Return
  <2>10. CASE UNCHANGED vars
    BY <2>10 DEF vars
  <2>. QED
    BY <2>1, <2>2, <2>3, <2>4, <2>5, <2>6, <2>7, <2>8, <2>9, <2>10
    DEF Next, Check, RefuseMode, RefuseState, RefuseParameters
<1>3. MasksInv => MasksApart
  BY DEF MasksInv
<1>. QED  BY <1>1, <1>2, <1>3, EngineInvariant, PTL DEF Spec

-----------------------------------------------------------------------------
(* What a call has done when it returns                                    *)

\* What has changed since the call began, phase by phase.
CallHistory ==
  /\ pc # "idle" => out = before[4]
  /\ pc \notin {"idle", "process"} => aesVars = before[2]
  /\ pc \in {"key_random", "load_key"} => keyVars = before[1] /\ state = before[3]
  /\ pc \in {"aes_random", "init_aes"} =>
       IF "KEYINIT" \in call.mode THEN state = before[3] \cup {"KEYINIT"}
                                  ELSE keyVars = before[1] /\ state = before[3]
  /\ pc \in {"aes_random", "init_aes", "process"} =>
       IF "KEYINIT" \in call.mode THEN kctx.key = call.key /\ ctr_key = 0
                                  ELSE kctx = before[1][1]
  /\ pc = "process" => \A d \in Directions : InitFlag[d] \in call.mode =>
       actx.box = d /\ ctr_aes = 0

LEMMA HistoryInvariant == Spec => []CallHistory
<1>1. Init => CallHistory
  BY DEF Init, CallHistory
<1>2. EngineInv /\ CallHistory /\ [Next]_vars => CallHistory'
  <2> SUFFICES ASSUME EngineInv, CallHistory, [Next]_vars PROVE CallHistory'
    OBVIOUS
  <2> USE DEF CallHistory, keyVars, aesVars
  <2>1. ASSUME NEW e, Refuse(e) PROVE CallHistory'
    BY <2>1 DEF Refuse, Return
  <2>2. ASSUME NEW m, NEW k, NEW x, Accept(m, k, x) PROVE CallHistory'
    BY <2>2 DEF Accept, Snapshot
  <2>3. CASE KeyRandom
    BY <2>3 DEF KeyRandom, Goto
  <2>4. CASE AesRandom
    BY <2>4 DEF AesRandom, Goto
  <2>5. CASE KeyRandomFails \/ AesRandomFails
    BY <2>5 DEF KeyRandomFails, AesRandomFails, Return
  <2>6. CASE LoadKey
    BY <2>6 DEF LoadKey, Goto, EngineInv, Types, KeyContext
  <2>7. CASE KeepKey
    BY <2>7 DEF KeepKey, Goto
  <2>8. CASE KeepAes
    BY <2>8 DEF KeepAes, Goto
  <2>9. ASSUME NEW d \in Directions, InitAes(d) PROVE CallHistory'
    <3>1. \A c \in Directions : InitFlag[c] \in call.mode => c = d
      BY <2>9 DEF InitAes, Goto, EngineInv, CallInv, Directions, InitFlag
    <3>. QED  BY <2>9, <3>1 DEF InitAes, Goto
  <2>10. ASSUME NEW d \in Directions, Process(d) PROVE CallHistory'
    BY <2>10 DEF Process, Return
  <2>11. CASE NoBlock
    BY <2>11 DEF NoBlock, Return
  <2>12. CASE UNCHANGED vars
    BY <2>12 DEF vars
  <2>. QED
    BY <2>1, <2>2, <2>3, <2>4, <2>5, <2>6, <2>7, <2>8, <2>9, <2>10, <2>11, <2>12
    DEF Next, Check, RefuseMode, RefuseState, RefuseParameters
<1>. QED  BY <1>1, <1>2, EngineInvariant, PTL DEF Spec

(***************************************************************************)
(* The steps that end a call that got past the checks.                     *)
(***************************************************************************)
LEMMA ReturnSteps ==
  ASSUME Next, Returns
  PROVE  \/ KeyRandomFails \/ AesRandomFails \/ NoBlock
         \/ \E d \in Directions : Process(d)
<1> USE DEF Returns
<1>1. ~Check
  BY DEF Check, RefuseMode, RefuseState, RefuseParameters, Refuse, Return, Accept
<1>2. ~(KeyRandom \/ LoadKey \/ KeepKey \/ AesRandom \/ KeepAes)
  BY DEF KeyRandom, LoadKey, KeepKey, AesRandom, KeepAes, Goto
<1>3. \A d \in Directions : ~InitAes(d)
  BY DEF InitAes, Goto
<1>. QED  BY <1>1, <1>2, <1>3 DEF Next

(***************************************************************************)
(* A call that returns NO_ERROR has done all that its mode asks.           *)
(***************************************************************************)
THEOREM SuccessCorrect == Spec => SuccessIsComplete
<1>1. EngineInv /\ CallHistory /\ [Next]_vars
        => [Returns /\ ret' = "NO_ERROR" => Done]_vars
  <2> SUFFICES ASSUME EngineInv, CallHistory, Next, Returns, ret' = "NO_ERROR"
               PROVE  Done
    BY DEF vars
  <2>1. CASE KeyRandomFails \/ AesRandomFails
    BY <2>1 DEF KeyRandomFails, AesRandomFails, Return
  <2>2. CASE NoBlock
    BY <2>2 DEF NoBlock, Return, CallHistory, Done, keyVars, aesVars
  <2>3. ASSUME NEW op \in Directions, Process(op) PROVE Done
    <3>1. pc = "process" /\ op \in call.mode
      BY <2>3 DEF Process, Return
    <3>2. call.mode \cap Directions = {op}
      BY <3>1 DEF EngineInv, CallInv, Directions
    <3>3. out' = [op |-> op, key |-> kctx'.key, input |-> call.input]
      BY <2>3, <3>1, BlockRight DEF Process
    <3>4. /\ "KEYINIT" \in call.mode => kctx'.key = call.key /\ ctr_key' = 1
          /\ "KEYINIT" \notin call.mode => kctx' = before[1][1]
      BY <2>3, <3>1, IncZero DEF Process, CallHistory
    <3>5. \A d \in Directions : InitFlag[d] \in call.mode => actx'.box = d /\ ctr_aes' = 1
      BY <2>3, <3>1, IncZero DEF Process, CallHistory
    <3>. QED  BY <3>2, <3>3, <3>4, <3>5 DEF Done
  <2>. QED  BY <2>1, <2>2, <2>3, ReturnSteps
<1>. QED  BY <1>1, EngineInvariant, HistoryInvariant, PTL DEF Spec, SuccessIsComplete

(***************************************************************************)
(* A call that fails half-way leaves no half-done work.                    *)
(***************************************************************************)
THEOREM FailureCorrect == Spec => FailureIsClean
<1>1. CallHistory /\ [Next]_vars => [Returns /\ ret' # "NO_ERROR" => Clean]_vars
  <2> SUFFICES ASSUME CallHistory, Next, Returns, ret' # "NO_ERROR"
               PROVE  Clean
    BY DEF vars
  <2>1. CASE KeyRandomFails
    BY <2>1 DEF KeyRandomFails, Return, CallHistory, Clean, keyVars, aesVars
  <2>2. CASE AesRandomFails
    BY <2>2 DEF AesRandomFails, Return, CallHistory, Clean, keyVars, aesVars
  <2>3. ASSUME NEW d \in Directions, Process(d) PROVE FALSE
    BY <2>3 DEF Process, Return
  <2>4. ~NoBlock
    BY DEF NoBlock, Return
  <2>. QED  BY <2>1, <2>2, <2>3, <2>4, ReturnSteps
<1>. QED  BY <1>1, HistoryInvariant, PTL DEF Spec, FailureIsClean

-----------------------------------------------------------------------------
(* Refinement                                                              *)

(***************************************************************************)
(* The engine implements the service: loading the key, initialising the    *)
(* context and processing a block are its steps, the rest of a call        *)
(* changes nothing it shows.                                               *)
(***************************************************************************)
THEOREM EngineIsService == Spec => IsService
<1> USE DEF keyVars, aesVars
<1>1. Init => Service!Init
  BY DEF Init, Service!Init
<1>2. EngineInv /\ [Next]_vars => [Service!Next]_(Service!vars)
  <2> SUFFICES ASSUME EngineInv, [Next]_vars
               PROVE  Service!Next \/ UNCHANGED Service!vars
    OBVIOUS
  <2> USE DEF Service!vars
  <2>1. ASSUME NEW e, Refuse(e) PROVE UNCHANGED Service!vars
    BY <2>1 DEF Refuse
  <2>2. ASSUME NEW m, NEW k, NEW x, Accept(m, k, x) PROVE UNCHANGED Service!vars
    BY <2>2 DEF Accept
  <2>3. CASE KeyRandom \/ KeyRandomFails \/ KeepKey
    BY <2>3 DEF KeyRandom, KeyRandomFails, KeepKey
  <2>4. CASE AesRandom \/ AesRandomFails \/ KeepAes \/ NoBlock
    BY <2>4 DEF AesRandom, AesRandomFails, KeepAes, NoBlock
  <2>5. CASE LoadKey
    <3>1. call.key \in Keys
      BY <2>5 DEF LoadKey, Goto, EngineInv, CallInv
    <3>2. Service!Load(call.key)
      BY <2>5 DEF LoadKey, Service!Load
    <3>. QED  BY <3>1, <3>2 DEF Service!Next
  <2>6. ASSUME NEW d \in Directions, InitAes(d) PROVE Service!Next
    <3>1. Service!Choose(d)
      BY <2>6 DEF InitAes, Service!Choose
    <3>. QED  BY <3>1 DEF Service!Next, Directions
  <2>7. ASSUME NEW d \in Directions, Process(d) PROVE Service!Next
    <3>1. pc = "process" /\ d \in call.mode
      BY <2>7 DEF Process, Return
    <3>2. /\ actx.box = d /\ kctx.key \in Keys /\ call.input \in Inputs
          /\ Block(d) = [op |-> d, key |-> kctx.key, input |-> call.input]
      BY <3>1, BlockRight
    <3>3. kctx.key # None /\ actx.box # None
      BY <3>2, EngineAssumption DEF Directions
    <3>4. Service!Process(call.input)
      BY <2>7, <3>2, <3>3 DEF Process, Inc, Service!Process
    <3>. QED  BY <3>2, <3>4 DEF Service!Next
  <2>8. CASE UNCHANGED vars
    BY <2>8 DEF vars
  <2>. QED
    BY <2>1, <2>2, <2>3, <2>4, <2>5, <2>6, <2>7, <2>8
    DEF Next, Check, RefuseMode, RefuseState, RefuseParameters, Service!Next
<1>. QED  BY <1>1, <1>2, EngineInvariant, PTL DEF Spec, IsService, Service!Spec
=============================================================================
