---------------------------- MODULE TestSession -----------------------------
(***************************************************************************)
(* A dynamic test session on the STM32F4 board: the script                 *)
(* src/scripts/test_aes.py on the host, the protocol line, the test runner *)
(* perform_aes_tests (src/src/tests/test.c) and the AES engine it calls    *)
(* (module AesEngine).                                                     *)
(*                                                                         *)
(* The host sends units: 'b' begins a session, 'e' ends it, and 't' is     *)
(* followed by a serialized test of PAYLOAD bytes.  The line is the        *)
(* reliable channel CommRing is shown to be (ByteFifo), so it is a cursor  *)
(* of the host and one of the runner in the same stream.  A byte is a      *)
(* place: offset o of unit u.  The runner does not know the places: it     *)
(* counts the bytes it reads, and takes for a tag whatever byte comes when *)
(* it expects one.                                                         *)
(***************************************************************************)
EXTENDS Naturals, Sequences, FiniteSets

CONSTANTS
  Script,        \* the units the host sends
  Cases,         \* the key and message pairs of the script
  Randoms, None, CTR_MOD,       \* of AesEngine
  PAYLOAD        \* bytes of a serialized test after its tag (155)

VARIABLES
  sent,          \* the place of the next byte the host sends
  waiting,       \* the host is in ser.read(18)
  mismatches,    \* tests whose answer the host has rejected
  read,          \* the place of the next byte the runner reads
  answers,       \* answers on their way to the host
  at,            \* where the runner is in perform_aes_tests
  payload,       \* the bytes of the test received so far
  test,          \* the test being run
  ran,           \* history: the tests run, with the verdict on each
  kctx, actx, state, ctr_key, ctr_aes, ret, out, pc, call, buf, before

hostVars == <<sent, waiting, mismatches>>
contextVars == <<kctx, actx, state, ctr_key, ctr_aes>>
engineVars == <<contextVars, ret, out, pc, call, buf, before>>
runnerVars == <<at, payload, test, ran>>
vars == <<hostVars, read, answers, runnerVars, engineVars>>

Engine == INSTANCE AesEngine WITH
  Keys <- Cases, Inputs <- Cases, RandomMayFail <- FALSE

-----------------------------------------------------------------------------
(* What the script sends                                                   *)

Begin == [tag |-> "b"]
End == [tag |-> "e"]

\* Faulty variant: the tests are generated without comm_line_output.
TestSilent(c, mode, checks, exp_ret, exp_out) ==
  [tag |-> "t", case |-> c, mode |-> mode, to_check |-> checks,
   exp_ret |-> exp_ret, exp_out |-> exp_out,
   exp_state |-> {}, exp_ctr_key |-> 0, exp_ctr_aes |-> 0,
   comm_line_output |-> FALSE]

\* gen_aes_test: a serialized test on the case c.  What the caller does not
\* give is sent as zeros (None for the output).
Test(c, mode, checks, exp_ret, exp_out) ==
  [tag |-> "t", case |-> c, mode |-> mode, to_check |-> checks,
   exp_ret |-> exp_ret, exp_out |-> exp_out,
   exp_state |-> {}, exp_ctr_key |-> 0, exp_ctr_aes |-> 0,
   comm_line_output |-> TRUE]

\* generate_aes_test_case: the whole operation, then with the initialisation
\* apart, then with the two initialisations apart.
TestCase(c, d) ==
  LET init == Engine!InitFlag[d]
      block == [op |-> d, key |-> c, input |-> c]
      Prepare(flags) == Test(c, flags, {"ret"}, 0, None)
      Run(flags) == Test(c, flags, {"ret", "output"}, 0, block)
  IN <<Begin, Run({"KEYINIT", init, d}), End,
       Begin, Prepare({"KEYINIT", init}), Run({d}), End,
       Begin, Prepare({"KEYINIT"}), Prepare({init}), Run({d}), End>>

Unit ==
  {Begin, End} \cup
  [tag : {"t"}, case : Cases, mode : SUBSET (Engine!StateFlag \cup Engine!Directions),
   to_check : SUBSET {"ret", "output", "key_ctr", "aes_ctr", "state"},
   exp_ret : Nat, exp_out : Engine!Result \cup {None},
   exp_state : SUBSET Engine!StateFlag, exp_ctr_key : Nat, exp_ctr_aes : Nat,
   comm_line_output : BOOLEAN]

\* No test asks for the caller's randomness; between two tests the script sends
\* at most an 'e' and a 'b'.
ASSUME ScriptAssumption ==
  /\ Script \in Seq(Unit)
  /\ \A u \in DOMAIN Script : u + 2 \in DOMAIN Script =>
       \E v \in u .. u + 2 : Script[v].tag = "t"
  /\ PAYLOAD \in Nat \ {0}

ASSUME ContextAssumption ==
  /\ None \notin Cases \cup Randoms \cup {"ENC", "DEC"}
  /\ CTR_MOD \in Nat /\ CTR_MOD > 1

Length(u) == IF Script[u].tag = "t" THEN 1 + PAYLOAD ELSE 1

\* A place is a unit and an offset; the place after p.
After(p) == IF p[2] + 1 = Length(p[1]) THEN <<p[1] + 1, 0>> ELSE <<p[1], p[2] + 1>>

AtEnd(p) == p[1] > Len(Script)

-----------------------------------------------------------------------------
(***************************************************************************)
(* The context is a local of perform_aes_tests that nothing sets before    *)
(* the first 'b': its keys, tables, masks, flags and counters are what the *)
(* stack holds.  (The test is one too, but 't' clears it before use.)      *)
(***************************************************************************)
Uninitialized ==
  /\ kctx \in Engine!KeyContext /\ actx \in Engine!AesContext
  /\ state \in SUBSET Engine!StateFlag
  /\ ctr_key \in Engine!Counter /\ ctr_aes \in Engine!Counter

NoCallYet ==
  /\ ret = "NO_ERROR" /\ out = None
  /\ pc = "idle" /\ call = Engine!NoCall /\ buf = None /\ before = None

Init ==
  /\ sent = <<1, 0>> /\ waiting = FALSE /\ mismatches = {}
  /\ read = <<1, 0>>
  /\ answers = <<>>
  /\ at = "tag" /\ payload = <<>> /\ test = None /\ ran = <<>>
  /\ Uninitialized /\ NoCallYet

-----------------------------------------------------------------------------
(* The host                                                                *)

HostDone == AtEnd(sent) /\ ~waiting

\* Faulty variant: the host does not wait.
HostSendAhead ==
  /\ ~waiting /\ ~AtEnd(sent)
  /\ sent' = After(sent)
  /\ UNCHANGED <<waiting, mismatches, read, answers, runnerVars, engineVars>>

\* After the last byte of a test the host waits for its answer.
HostSend ==
  /\ ~waiting /\ ~AtEnd(sent)
  /\ sent' = After(sent)
  /\ waiting' = (Script[sent[1]].tag = "t" /\ sent'[2] = 0)
  /\ UNCHANGED <<mismatches, read, answers, runnerVars, engineVars>>

\* The test sent last.
Awaited == Script[sent[1] - 1]

\* The host compares the output in the answer with the one it expected.
HostRead ==
  /\ waiting /\ answers # <<>>
  /\ waiting' = FALSE
  /\ answers' = Tail(answers)
  /\ mismatches' = IF Head(answers).out = Awaited.exp_out
                   THEN mismatches ELSE mismatches \cup {Awaited}
  /\ UNCHANGED <<sent, read, runnerVars, engineVars>>

-----------------------------------------------------------------------------
(* The test runner                                                         *)

\* get_buffer returns the next byte; until there is one it polls.
ReadByte ==
  /\ read # sent
  /\ read' = After(read)
  /\ UNCHANGED <<hostVars, answers>>

Poll ==
  /\ read = sent
  /\ at \in {"tag", "payload"}
  /\ UNCHANGED vars

\* The character the runner sees: the tag, or any byte of a test's fields.
Sees(c) == IF read[2] = 0 THEN c = Script[read[1]].tag ELSE c \in {"b", "e", "t", "other"}

\* Faulty variant: the context of the last session is kept.
BeginKeepsContext ==
  /\ at = "tag" /\ ReadByte /\ Sees("b")
  /\ UNCHANGED <<runnerVars, engineVars>>

\* 'b': the AES context and the test are cleared.
RunnerBegin ==
  /\ at = "tag" /\ ReadByte /\ Sees("b")
  /\ kctx' = [key |-> None, rand |-> None] /\ actx' = [box |-> None, rand |-> None]
  /\ state' = {} /\ ctr_key' = 0 /\ ctr_aes' = 0
  /\ test' = None /\ out' = None
  /\ UNCHANGED <<at, payload, ran, ret, pc, call, buf, before>>

\* 'e' and characters that mean nothing.
RunnerSkip ==
  /\ at = "tag" /\ ReadByte
  /\ \E c \in {"e", "other"} : Sees(c)
  /\ UNCHANGED <<runnerVars, engineVars>>

\* 't': the test is cleared, its output included.
RunnerTest ==
  /\ at = "tag" /\ ReadByte /\ Sees("t")
  /\ at' = "payload" /\ payload' = <<>> /\ test' = None
  /\ out' = None
  /\ UNCHANGED <<ran, contextVars, ret, pc, call, buf, before>>

RunnerField ==
  /\ at = "payload" /\ Len(payload) < PAYLOAD /\ ReadByte
  /\ payload' = Append(payload, read)
  /\ UNCHANGED <<at, test, ran, engineVars>>

\* Faulty variant: one byte of the fields is not read.
TestReceivedShort ==
  /\ at = "payload" /\ Len(payload) = PAYLOAD - 1
  /\ at' = "call"
  /\ test' = Script[payload[1][1]]
  /\ payload' = <<>>
  /\ UNCHANGED <<hostVars, read, answers, ran, engineVars>>

\* All the fields are there.
TestReceived ==
  /\ at = "payload" /\ Len(payload) = PAYLOAD
  /\ at' = "call"
  /\ test' = Script[payload[1][1]]
  /\ payload' = <<>>
  /\ UNCHANGED <<hostVars, read, answers, ran, engineVars>>

\* perform_aes_basic_test calls aes(): all the arguments are there except the
\* external randomness, which no test of the script asks for, so the call is
\* refused by the first two checks or not at all.
CallAes ==
  /\ at = "call" /\ at' = "aes"
  /\ \/ Engine!RefuseMode(test.mode)
     \/ Engine!RefuseState(test.mode)
     \/ \E k, x \in {test.case, None} : Engine!Accept(test.mode, k, x)
  /\ UNCHANGED <<hostVars, read, answers, payload, test, ran>>

AesRuns ==
  /\ at = "aes" /\ pc # "idle"
  /\ Engine!Next
  /\ UNCHANGED <<hostVars, read, answers, runnerVars>>

\* The error codes of aes.h.
Code(error) ==
  CASE error = "NO_ERROR" -> 0
    [] error = "ERR_NO_OPERATION" -> 1
    [] error = "ERR_ENC_AND_DEC" -> 2
    [] error = "ERR_ENC_AND_DEC_AESINIT" -> 4
    [] error = "ERR_AESINIT_AND_OP" -> 8
    [] error = "ERR_AESINIT_MISSING" -> 131072
    [] error = "ERR_KEYINIT_MISSING" -> 262144
    [] error = "ERR_AESINIT_BAD" -> 524288

\* perform_aes_basic_test keeps the return value of aes() in an unsigned char.
UChar(n) == n % 256

\* The checks asked for that fail.  (CHECK_AES_CTX compares with exp_aes_ctx,
\* which perform_aes_tests always sets to NULL: it never fails.)
FailedChecks == {
  c \in test.to_check :
    \/ c = "ret" /\ UChar(Code(ret)) # test.exp_ret
    \/ c = "output" /\ out # test.exp_out
    \/ c = "key_ctr" /\ ctr_key # test.exp_ctr_key
    \/ c = "aes_ctr" /\ ctr_aes # test.exp_ctr_aes
    \/ c = "state" /\ state # test.exp_state }

\* ret_err of each check: the first that fails decides.
CheckNumber == [ret |-> 1, output |-> 2, key_ctr |-> 3, aes_ctr |-> 4, state |-> 6]

Verdict ==
  IF FailedChecks = {} THEN 0
  ELSE CHOOSE n \in {CheckNumber[c] : c \in FailedChecks} :
         \A c \in FailedChecks : n <= CheckNumber[c]

\* The verdict and the output go to the host, if the test asks for it.
Answer ==
  /\ at = "aes" /\ pc = "idle"
  /\ at' = "tag"
  /\ answers' = IF test.comm_line_output
                THEN Append(answers, [ret |-> Verdict, out |-> out]) ELSE answers
  /\ ran' = Append(ran, [test |-> test, error |-> ret, verdict |-> Verdict])
  /\ UNCHANGED <<hostVars, read, payload, test, engineVars>>

-----------------------------------------------------------------------------
Host == HostSend \/ HostRead

Runner ==
  \/ Poll
  \/ RunnerBegin \/ RunnerSkip \/ RunnerTest \/ RunnerField \/ TestReceived
  \/ CallAes \/ AesRuns \/ Answer

Next == Host \/ Runner

Spec == Init /\ [][Next]_vars

(***************************************************************************)
(* Both programs run: the script sends and reads without pausing, the main *)
(* thread of the board polls its line and executes.                        *)
(***************************************************************************)
FairSpec == Spec /\ WF_vars(Host) /\ WF_vars(Runner)

-----------------------------------------------------------------------------
(* Properties                                                              *)

(***************************************************************************)
(* Host and runner agree on where tests begin, though nothing in the       *)
(* stream marks it: the runner takes a byte for a tag only when it is one, *)
(* and what it makes a test of is one test of the host, every byte in its  *)
(* field (test.c:105-160 against gen_aes_test).                            *)
(***************************************************************************)
InSync ==
  /\ at = "tag" => read[2] = 0
  /\ \A n \in DOMAIN payload : payload[n] = <<payload[1][1], n>>

-----------------------------------------------------------------------------
(* What a session should answer, test by test.  A context is what a test   *)
(* finds: the key, the table, the flags and the two counters.              *)

Cleared == [key |-> None, box |-> None, flags |-> {}, keyUses |-> 0, boxUses |-> 0]

\* The error that aes() answers to the test t in the context x.
Error(x, t) ==
  IF Engine!test_mode(t.mode) # "NO_ERROR" THEN Engine!test_mode(t.mode)
  ELSE Engine!test_mode_state(t.mode, x.flags)

\* The contexts once the test's initialisations are done.
Loaded(x, t) ==
  IF "KEYINIT" \in t.mode
  THEN [key |-> t.case, keyUses |-> 0, flags |-> x.flags \cup {"KEYINIT"},
        box |-> x.box, boxUses |-> x.boxUses]
  ELSE x
Boxed(y, d) ==
  [key |-> y.key, keyUses |-> y.keyUses, box |-> d, boxUses |-> 0,
   flags |-> (y.flags \cup {Engine!InitFlag[d]}) \ {Engine!InitFlag[Engine!Other[d]]}]
Prepared(x, t) ==
  IF "AESINIT_ENC" \in t.mode THEN Boxed(Loaded(x, t), "ENC")
  ELSE IF "AESINIT_DEC" \in t.mode THEN Boxed(Loaded(x, t), "DEC") ELSE Loaded(x, t)

Computes(t) == t.mode \cap Engine!Directions # {}

\* The context that the test t leaves, and the block that it answers.
Left(x, t) ==
  LET y == Prepared(x, t) IN
  IF Error(x, t) # "NO_ERROR" THEN x
  ELSE IF Computes(t)
  THEN [key |-> y.key, keyUses |-> Engine!Inc(y.keyUses), flags |-> y.flags,
        box |-> y.box, boxUses |-> Engine!Inc(y.boxUses)]
  ELSE y
Answered(x, t) ==
  IF Error(x, t) # "NO_ERROR" \/ ~Computes(t) THEN None
  ELSE [op |-> IF "ENC" \in t.mode THEN "ENC" ELSE "DEC",
        key |-> Prepared(x, t).key, input |-> t.case]

\* What the test expects is what it should be answered in the context x.
Expects(x, t) ==
  /\ t.exp_out = Answered(x, t)
  /\ "ret" \in t.to_check => t.exp_ret = UChar(Code(Error(x, t)))
  /\ "key_ctr" \in t.to_check => t.exp_ctr_key = Left(x, t).keyUses
  /\ "aes_ctr" \in t.to_check => t.exp_ctr_aes = Left(x, t).boxUses
  /\ "state" \in t.to_check => t.exp_state = Left(x, t).flags

\* A 'b' came before the unit u.
Begun(u) == \E b \in 1 .. u - 1 : Script[b].tag = "b"

\* No test comes before the first 'b'; from there on context[u] is what the unit
\* u of the script finds, and every test expects what it should.
IsScriptOf(context) ==
  \A u \in DOMAIN Script :
    LET unit == Script[u] IN
    /\ unit.tag = "b" => context[u + 1] = Cleared
    /\ unit.tag = "e" => context[u + 1] = context[u]
    /\ unit.tag = "t" => /\ Begun(u) /\ Expects(context[u], unit)
                         /\ context[u + 1] = Left(context[u], unit)

(***************************************************************************)
(* All tests of the generated script pass, on the board and on the host:   *)
(* whatever the stack held at the start and whatever operations a session  *)
(* splits, the context of one session leaves nothing to the next, and a    *)
(* test that computes no block answers with zeros and not with the block   *)
(* of an earlier one.                                                      *)
(***************************************************************************)
AllPass ==
  /\ mismatches = {}
  /\ \A n \in DOMAIN ran : ran[n].verdict = 0

\* The number of bytes before a place.
Before(p) == LET S == {u \in DOMAIN Script : u < p[1]} IN
  Cardinality(S) + PAYLOAD * Cardinality({u \in S : Script[u].tag = "t"}) + p[2]
Unread == Before(sent) - Before(read)

(***************************************************************************)
(* The host never runs further ahead than a test and the tags before it:   *)
(* this is why the ring of platform.c (4095 bytes) does not fill, and the  *)
(* Window that CommRing needs.                                             *)
(***************************************************************************)
InFlight == Unread <= PAYLOAD + 3

(***************************************************************************)
(* Neither waits for the other for ever: the script ends.                  *)
(***************************************************************************)
Completes == <>HostDone

=============================================================================
