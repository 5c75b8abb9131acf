----------------------------- MODULE AesEngine ------------------------------
(***************************************************************************)
(* The AES-128 engine: the function aes() of src/src/aes/aes.c, called     *)
(* again and again on one STRUCT_AES that starts zeroed.  A call is cut at *)
(* its returns: it is checked, draws randomness for the key masks, loads   *)
(* the key, draws randomness for the state masks, initialises the context  *)
(* and processes a block.                                                  *)
(*                                                                         *)
(* A mode is the set of its flags (bit 7 of the byte selects nothing and   *)
(* is left out).  The assembly primitives always return SEC_OK, so the     *)
(* branches ERR_OP_KEYINIT, ERR_OP_AESINIT, ERR_OP_ENC and ERR_OP_DEC are  *)
(* left out; get_random of platform.c never fails either, but it is what   *)
(* an integrator replaces: RandomMayFail.                                  *)
(*                                                                         *)
(* A context is the data that went into it: the key or the table (S-box or *)
(* inverse S-box) and the 19 random bytes it was masked with.  Randomness, *)
(* drawn or supplied by the caller, is taken to be fresh: it is none of    *)
(* the values in use.  (The get_random of platform.c is a deterministic    *)
(* stub whose draws repeat with period 256.)                               *)
(***************************************************************************)
EXTENDS Naturals

CONSTANTS
  Keys, Inputs,    \* 16-byte keys and blocks
  Randoms,         \* 19-byte arrays of randomness
  None,            \* a context never initialised, a zeroed buffer, no block
  CTR_MOD,         \* range of ctr_key and ctr_aes (2^32 in the code)
  RandomMayFail    \* get_random may report a failure

ASSUME EngineAssumption ==
  /\ None \notin Keys \cup Randoms \cup {"ENC", "DEC"}
  /\ CTR_MOD \in Nat /\ CTR_MOD > 1
  /\ RandomMayFail \in BOOLEAN

VARIABLES
  kctx, actx,          \* key_context, aes_context
  state,               \* which contexts are initialised
  ctr_key, ctr_aes,
  ret, out,            \* what the last call returned, the last block written
  pc, call, buf,       \* the call in progress: where it is, its arguments
                       \* and its buffer of randomness
  before               \* history: the STRUCT_AES and the output when the
                       \* call in progress began

keyVars == <<kctx, ctr_key>>
aesVars == <<actx, ctr_aes>>
vars == <<kctx, actx, state, ctr_key, ctr_aes, ret, out, pc, call, buf, before>>

Directions == {"ENC", "DEC"}
StateFlag == {"KEYINIT", "AESINIT_ENC", "AESINIT_DEC"}
Flag == StateFlag \cup Directions \cup {"RANDOM_KEY_EXT", "RANDOM_AES_EXT"}
Mode == SUBSET Flag
Params == {"key", "input", "output", "random_aes", "random_key"}

InitFlag == [ENC |-> "AESINIT_ENC", DEC |-> "AESINIT_DEC"]
Other == [ENC |-> "DEC", DEC |-> "ENC"]

NoCall == [mode |-> {}, key |-> None, input |-> None]
Snapshot == <<keyVars, aesVars, state, out>>

-----------------------------------------------------------------------------
(* The checks of a call                                                    *)

\* Faulty variant: the two conditions of l.201 are forgotten.
test_mode_NoCross(m) ==
  CASE Directions \subseteq m -> "ERR_ENC_AND_DEC"
    [] ~(Directions \subseteq m) /\ {"AESINIT_ENC", "AESINIT_DEC"} \subseteq m
         -> "ERR_ENC_AND_DEC_AESINIT"
    [] m = {} -> "ERR_NO_OPERATION"
    [] OTHER -> "NO_ERROR"

\* Is the command consistent?
test_mode(m) ==
  IF Directions \subseteq m THEN "ERR_ENC_AND_DEC"
  ELSE IF {"AESINIT_ENC", "AESINIT_DEC"} \subseteq m THEN "ERR_ENC_AND_DEC_AESINIT"
  ELSE IF \E d \in Directions : {d, InitFlag[Other[d]]} \subseteq m THEN "ERR_AESINIT_AND_OP"
  ELSE IF m = {} THEN "ERR_NO_OPERATION"
  ELSE "NO_ERROR"

\* Are the contexts that the command needs there, or in the command?
test_mode_state(m, s) ==
  LET Lacks(flag) == flag \notin s /\ flag \notin m IN
  IF m \cap Directions # {} /\ Lacks("KEYINIT") THEN "ERR_KEYINIT_MISSING"
  ELSE IF "ENC" \in m /\ "AESINIT_ENC" \notin s /\ "AESINIT_DEC" \in m THEN "ERR_AESINIT_BAD"
  ELSE IF "ENC" \in m /\ Lacks("AESINIT_ENC") THEN "ERR_AESINIT_MISSING"
  ELSE IF "DEC" \in m /\ "AESINIT_ENC" \in s /\ "AESINIT_DEC" \notin s THEN "ERR_AESINIT_BAD"
  ELSE IF "DEC" \in m /\ Lacks("AESINIT_DEC") THEN "ERR_AESINIT_MISSING"
  ELSE "NO_ERROR"

\* Are the arguments that the command needs given (not NULL)?
test_parameter_content(m, given) ==
  IF "KEYINIT" \in m /\ "key" \notin given THEN "ERR_KEY_MISSING"
  ELSE IF {"KEYINIT", "RANDOM_KEY_EXT"} \subseteq m /\ "random_key" \notin given
    THEN "ERR_RANDOM_KEY_MISSING"
  ELSE IF "RANDOM_AES_EXT" \in m /\ "random_aes" \notin given THEN "ERR_RANDOM_AES_MISSING"
  ELSE IF m \cap Directions # {} /\ ~({"input", "output"} \subseteq given)
    THEN "ERR_INPUT_MISSING"
  ELSE "NO_ERROR"

-----------------------------------------------------------------------------
Init ==
  /\ kctx = [key |-> None, rand |-> None]
  /\ actx = [box |-> None, rand |-> None]
  /\ state = {}
  /\ ctr_key = 0 /\ ctr_aes = 0
  /\ ret = "NO_ERROR" /\ out = None
  /\ pc = "idle" /\ call = NoCall /\ buf = None
  /\ before = None

-----------------------------------------------------------------------------
(* The phases of a call                                                    *)

Goto(here, there) == pc = here /\ pc' = there /\ UNCHANGED <<ret, call, before>>

Return(here, error) ==
  /\ pc = here /\ pc' = "idle"
  /\ ret' = error
  /\ call' = NoCall
  /\ buf' = None
  /\ before' = None

Refuse(error) ==
  /\ error # "NO_ERROR"
  /\ Return("idle", error)
  /\ UNCHANGED <<keyVars, aesVars, state, out>>

RefuseMode(m) == Refuse(test_mode(m))

RefuseState(m) ==
  /\ test_mode(m) = "NO_ERROR"
  /\ Refuse(test_mode_state(m, state))

RefuseParameters(m) ==
  /\ test_mode(m) = "NO_ERROR"
  /\ test_mode_state(m, state) = "NO_ERROR"
  /\ \E given \in SUBSET Params : Refuse(test_parameter_content(m, given))

\* A call passes the checks, with the key k and the block x if it needs them.
Accept(m, k, x) ==
  /\ test_mode(m) = "NO_ERROR"
  /\ test_mode_state(m, state) = "NO_ERROR"
  /\ k \in IF "KEYINIT" \in m THEN Keys ELSE {None}
  /\ x \in IF m \cap Directions # {} THEN Inputs ELSE {None}
  /\ pc = "idle" /\ pc' = "key_random"
  /\ call' = [mode |-> m, key |-> k, input |-> x]
  /\ ret' = "NO_ERROR"
  /\ before' = Snapshot
  /\ UNCHANGED <<keyVars, aesVars, state, out, buf>>

Fresh == Randoms \ {kctx.rand, actx.rand, buf}

KeyFromCaller == {"KEYINIT", "RANDOM_KEY_EXT"} \subseteq call.mode

\* The randomness of the key masks, from the caller or get_random; drawn even
\* when no key is to be loaded.
KeyRandom ==
  /\ Goto("key_random", "load_key")
  /\ buf' \in Fresh
  /\ UNCHANGED <<keyVars, aesVars, state, out>>

\* Faulty variant: the state is updated before the randomness is there.
KeyRandomFailsLate ==
  /\ RandomMayFail /\ ~KeyFromCaller
  /\ state' = state \cup {"KEYINIT"}
  /\ Return("key_random", "ERR_OP_GEN_RANDOM_KEY")
  /\ UNCHANGED <<keyVars, aesVars, out>>

KeyRandomFails ==
  /\ RandomMayFail /\ ~KeyFromCaller
  /\ Return("key_random", "ERR_OP_GEN_RANDOM_KEY")
  /\ UNCHANGED <<keyVars, aesVars, state, out>>

\* Faulty variant: the counter is not reset.
LoadKeyKeepsCounter ==
  /\ "KEYINIT" \in call.mode
  /\ Goto("load_key", "aes_random")
  /\ kctx' = [key |-> call.key, rand |-> buf]
  /\ state' = state \cup {"KEYINIT"}
  /\ UNCHANGED <<ctr_key, aesVars, out, buf>>

LoadKey ==
  /\ "KEYINIT" \in call.mode
  /\ Goto("load_key", "aes_random")
  /\ kctx' = [key |-> call.key, rand |-> buf]
  /\ state' = state \cup {"KEYINIT"}
  /\ ctr_key' = 0
  /\ UNCHANGED <<aesVars, out, buf>>

KeepKey ==
  /\ "KEYINIT" \notin call.mode
  /\ Goto("load_key", "aes_random")
  /\ UNCHANGED <<keyVars, aesVars, state, out, buf>>

AesFromCaller == "RANDOM_AES_EXT" \in call.mode

\* Faulty variant: the draw made for the key serves for the state too.
AesRandomReused ==
  /\ Goto("aes_random", "init_aes")
  /\ IF AesFromCaller THEN buf' \in Fresh ELSE UNCHANGED buf
  /\ UNCHANGED <<keyVars, aesVars, state, out>>

\* The randomness of the state masks; drawn even when no context is to be
\* initialised.
AesRandom ==
  /\ Goto("aes_random", "init_aes")
  /\ buf' \in Fresh
  /\ UNCHANGED <<keyVars, aesVars, state, out>>

\* A key loaded by this call stays loaded.
AesRandomFails ==
  /\ RandomMayFail /\ ~AesFromCaller
  /\ Return("aes_random", "ERR_OP_GEN_RANDOM_AES")
  /\ UNCHANGED <<keyVars, aesVars, state, out>>

\* Faulty variant: the flag of the other direction stays up.
InitAesKeepsFlag(d) ==
  /\ InitFlag[d] \in call.mode
  /\ Goto("init_aes", "process")
  /\ actx' = [box |-> d, rand |-> buf]
  /\ state' = state \cup {InitFlag[d]}
  /\ ctr_aes' = 0
  /\ UNCHANGED <<keyVars, out, buf>>

InitAes(d) ==
  /\ InitFlag[d] \in call.mode
  /\ Goto("init_aes", "process")
  /\ actx' = [box |-> d, rand |-> buf]
  /\ state' = (state \cup {InitFlag[d]}) \ {InitFlag[Other[d]]}
  /\ ctr_aes' = 0
  /\ UNCHANGED <<keyVars, out, buf>>

KeepAes ==
  /\ \A d \in Directions : InitFlag[d] \notin call.mode
  /\ Goto("init_aes", "process")
  /\ UNCHANGED <<keyVars, aesVars, state, out, buf>>

\* aes_enc and aes_dec run on whatever tables the contexts hold: with those of
\* the other direction or with none the block is not an AES block.
Block(op) ==
  IF actx.box = op /\ kctx.key # None
  THEN [op |-> op, key |-> kctx.key, input |-> call.input]
  ELSE [op |-> "garbage", key |-> kctx.key, input |-> call.input]

\* Faulty variant: a counter of unlimited width.
IncWide(ctr) == ctr + 1

Inc(ctr) == (ctr + 1) % CTR_MOD

Process(op) ==
  /\ op \in call.mode
  /\ out' = Block(op)
  /\ ctr_key' = Inc(ctr_key)
  /\ ctr_aes' = Inc(ctr_aes)
  /\ UNCHANGED <<kctx, actx, state>>
  /\ Return("process", "NO_ERROR")

NoBlock ==
  /\ call.mode \cap Directions = {}
  /\ Return("process", "NO_ERROR")
  /\ UNCHANGED <<keyVars, aesVars, state, out>>

-----------------------------------------------------------------------------
Check ==
  /\ pc = "idle"
  /\ \E m \in Mode :
       \/ RefuseMode(m) \/ RefuseState(m) \/ RefuseParameters(m)
       \/ \E k \in Keys \cup {None}, x \in Inputs \cup {None} : Accept(m, k, x)

Next ==
  \/ Check
  \/ KeyRandom \/ KeyRandomFails \/ LoadKey \/ KeepKey
  \/ AesRandom \/ AesRandomFails \/ KeepAes
  \/ \E d \in Directions : InitAes(d) \/ Process(d)
  \/ NoBlock

Spec == Init /\ [][Next]_vars

-----------------------------------------------------------------------------
(* Properties                                                              *)

Rand == Randoms \cup {None}
KeyContext == [key : Keys \cup {None}, rand : Rand]
AesContext == [box : Directions \cup {None}, rand : Rand]
Counter == 0 .. CTR_MOD - 1
Result == [op : Directions, key : Keys, input : Inputs]

(***************************************************************************)
(* Every variable keeps its type; no garbage is ever written to output.    *)
(***************************************************************************)
TypeOK ==
  /\ kctx \in KeyContext /\ actx \in AesContext
  /\ state \subseteq StateFlag
  /\ ctr_key \in Counter /\ ctr_aes \in Counter
  /\ out \in Result \cup {None}
  /\ pc \in {"idle", "key_random", "load_key", "aes_random", "init_aes", "process"}
  /\ call.mode \in Mode
  /\ buf \in Rand

(***************************************************************************)
(* The flags in state tell the truth about the contexts after every        *)
(* sequence of calls, failed ones included: the key flag is up exactly     *)
(* when a key is loaded, and a direction's flag exactly when the tables of *)
(* that direction are there (aes.c:70, 91-92, 102-103).  So the two        *)
(* directions are never up together, as one context holds one table.       *)
(***************************************************************************)
ContextsMatchState ==
  /\ "KEYINIT" \in state <=> kctx.key # None
  /\ \A d \in Directions : InitFlag[d] \in state <=> actx.box = d

(***************************************************************************)
(* The buffer of randomness is shared by the two phases of a call          *)
(* (aes.c:32).  All the same the masks of the key and those of the state   *)
(* never come from the same draw, or from the zeros of aes.c:34.           *)
(***************************************************************************)
MasksApart ==
  /\ kctx.key # None => kctx.rand # None
  /\ actx.box # None => actx.rand # None
  /\ kctx.key # None /\ actx.box # None => kctx.rand # actx.rand

\* A call that got past the checks returns.
Returns == pc # "idle" /\ pc' = "idle"

(***************************************************************************)
(* A call that returns NO_ERROR has done what its mode asks, whatever came *)
(* before it: the key is the given one, the tables are those of the        *)
(* direction, the counters restarted with their masks, and the block       *)
(* written is the input under the given or the kept key.                   *)
(***************************************************************************)
Done ==
  LET m == call.mode
      blocks == IF m \cap Directions = {} THEN 0 ELSE 1
  IN /\ "KEYINIT" \in m => kctx'.key = call.key /\ ctr_key' = blocks
     /\ "KEYINIT" \notin m => kctx' = before[1][1]
     /\ \A d \in Directions :
          /\ InitFlag[d] \in m => actx'.box = d /\ ctr_aes' = blocks
          /\ d \in m => out' = [op |-> d, key |-> kctx'.key, input |-> call.input]
     /\ blocks = 0 => out' = before[4]
SuccessIsComplete == [][Returns /\ ret' = "NO_ERROR" => Done]_vars

(***************************************************************************)
(* A call that fails half-way leaves no half-done work: the AES context,   *)
(* its counter and the output are those before the call, and so are the    *)
(* key context, the flags and the key counter unless the call has loaded   *)
(* its key completely.                                                     *)
(***************************************************************************)
Clean ==
  /\ <<aesVars', out'>> = <<before[2], before[4]>>
  /\ \/ <<keyVars', state'>> = <<before[1], before[3]>>
     \/ /\ "KEYINIT" \in call.mode
        /\ kctx'.key = call.key /\ ctr_key' = 0
        /\ state' = before[3] \cup {"KEYINIT"}
FailureIsClean == [][Returns /\ ret' # "NO_ERROR" => Clean]_vars

(***************************************************************************)
(* The engine implements the service: each block that leaves it is the     *)
(* result of the right direction under the key loaded last, and ctr_key    *)
(* and ctr_aes count the blocks under the same masks.                      *)
(***************************************************************************)
Service == INSTANCE AesService WITH
  key <- kctx.key, direction <- actx.box,
  keyUses <- ctr_key, boxUses <- ctr_aes, result <- out
IsService == Service!Spec

=============================================================================
