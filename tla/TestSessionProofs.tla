-------------------------- MODULE TestSessionProofs --------------------------
(***************************************************************************)
(* A dynamic test session, for every script of well-formed units, every    *)
(* length of a test, all keys, random values and ranges of the counters:   *)
(* host and runner stay in step, the host never runs far ahead, and the    *)
(* tests of a script that begins its session and expects what the contexts *)
(* then give all pass, whatever the stack held before.                     *)
(*                                                                         *)
(* Three invariants, each resting on the one before: Stream, where the     *)
(* runner is in the stream of bytes; Turns, who waits for whom; and Run,   *)
(* what aes() has done of the test in hand, context by context.            *)
(***************************************************************************)
EXTENDS TestSession, FiniteSetTheorems, TLAPS

-----------------------------------------------------------------------------
(* Places in the stream                                                    *)

IsTest(u) == u \in DOMAIN Script /\ Script[u].tag = "t"

Places == {p \in (1 .. Len(Script) + 1) \X Nat :
             IF AtEnd(p) THEN p[2] = 0 ELSE p[2] < Length(p[1])}

AtMost(p, q) == p[1] < q[1] \/ (p[1] = q[1] /\ p[2] <= q[2])

\* The unit of the test in hand, once its bytes have begun.
InHand == IF at = "payload" /\ Len(payload) < PAYLOAD THEN read[1] ELSE read[1] - 1

Stream ==
  /\ sent \in Places /\ read \in Places /\ AtMost(read, sent)
  /\ at \in {"tag", "payload", "call", "aes"}
  /\ payload \in Seq(Places)
  /\ at # "payload" => read[2] = 0 /\ payload = <<>>
  /\ at = "payload" =>
       /\ IsTest(InHand)
       /\ Len(payload) <= PAYLOAD
       /\ \A n \in DOMAIN payload : payload[n] = <<InHand, n>>
       /\ read[2] = IF Len(payload) < PAYLOAD THEN Len(payload) + 1 ELSE 0
  /\ at \in {"call", "aes"} => IsTest(InHand) /\ test = Script[InHand]

-----------------------------------------------------------------------------
(* Who waits for whom                                                      *)

Complete == at \in {"call", "aes"} \/ (at = "payload" /\ Len(payload) = PAYLOAD)

Turns ==
  /\ waiting \in BOOLEAN
  /\ waiting => sent[2] = 0 /\ IsTest(sent[1] - 1)
  /\ \A u \in read[1] .. sent[1] - 1 : IsTest(u) => waiting /\ u = sent[1] - 1
  /\ Complete => waiting /\ read = sent
  /\ answers # <<>> => waiting /\ at = "tag" /\ read = sent /\ answers = <<answers[1]>>

-----------------------------------------------------------------------------
(* What aes() has done                                                     *)

Holds(x) ==
  /\ kctx.key = x.key /\ ctr_key = x.keyUses
  /\ actx.box = x.box /\ ctr_aes = x.boxUses
  /\ state = x.flags

\* The unit whose context the engine has: the test in hand, or the next unit.
Current == IF at = "tag" THEN read[1] ELSE InHand

IsContext(x) ==
  x = [key |-> x.key, box |-> x.box, flags |-> x.flags,
       keyUses |-> x.keyUses, boxUses |-> x.boxUses]

\* A call of the test t, accepted in the context x.
Calling(x, t) ==
  /\ Error(x, t) = "NO_ERROR" /\ ret = "NO_ERROR"
  /\ call.mode = t.mode /\ out = None
  /\ "KEYINIT" \in t.mode => call.key = t.case
  /\ Computes(t) => call.input = t.case
  /\ pc \in {"key_random", "load_key"} => Holds(x)
  /\ pc \in {"aes_random", "init_aes"} => Holds(Loaded(x, t))
  /\ pc = "process" => Holds(Prepared(x, t))
  /\ pc \in {"key_random", "load_key", "aes_random", "init_aes", "process"}

Answering(x, t) ==
  /\ Holds(Left(x, t)) /\ ret = Error(x, t) /\ out = Answered(x, t)

\* The records of the tests run, all passed.
Passed(context) ==
  [test : Unit, error : {Error(context[u], Script[u]) : u \in {v \in DOMAIN Script : IsTest(v)}},
   verdict : {0}]

Truthful == state \subseteq Engine!StateFlag /\ Engine!ContextsMatchState

\* Before the first 'b' the engine holds what the stack held.
Run(context) ==
  /\ Begun(Current) =>
       /\ IsContext(context[Current]) /\ Truthful
       /\ at # "aes" => Holds(context[Current])
  /\ at # "aes" => pc = "idle"
  /\ at \in {"payload", "call"} => out = None
  /\ at = "aes" => IF pc = "idle" THEN Answering(context[Current], test)
                                  ELSE Calling(context[Current], test)
  /\ answers # <<>> => answers[1].out = Script[sent[1] - 1].exp_out
  /\ mismatches = {} /\ ran \in Seq(Passed(context))

-----------------------------------------------------------------------------
(* Host and runner stay in step                                            *)

LEMMA Lengths ==
  ASSUME NEW u \in DOMAIN Script
  PROVE  /\ u \in Nat \ {0} /\ u <= Len(Script) /\ Len(Script) \in Nat
         /\ Script[u].tag \in {"b", "e", "t"}
         /\ Length(u) = IF IsTest(u) THEN 1 + PAYLOAD ELSE 1
         /\ Length(u) \in Nat \ {0} /\ PAYLOAD \in Nat \ {0}
<1>1. Script \in Seq(Unit) /\ PAYLOAD \in Nat \ {0}
  BY ScriptAssumption
<1>2. Script[u] \in Unit /\ u \in 1 .. Len(Script) /\ Len(Script) \in Nat
  BY <1>1
<1>3. Script[u].tag \in {"b", "e", "t"}
  <2>1. CASE Script[u] \in {Begin, End}
    BY <2>1 DEF Begin, End
  <2>2. CASE Script[u] \notin {Begin, End}
    BY <1>2, <2>2, SMT DEF Unit
  <2>. QED  BY <2>1, <2>2
<1>. QED  BY <1>1, <1>2, <1>3 DEF Length, IsTest

LEMMA Units == DOMAIN Script = 1 .. Len(Script) /\ Len(Script) \in Nat
<1>1. Script \in Seq(Unit)
  BY ScriptAssumption
<1>. QED  BY <1>1

LEMMA PlaceIs ==
  ASSUME NEW p \in Places
  PROVE  /\ p = <<p[1], p[2]>> /\ p[1] \in 1 .. Len(Script) + 1 /\ p[2] \in Nat
         /\ AtEnd(p) <=> p[1] = Len(Script) + 1
         /\ AtEnd(p) => p[2] = 0
         /\ ~AtEnd(p) => p[1] \in DOMAIN Script /\ p[2] < Length(p[1])
BY Units DEF Places, AtEnd

LEMMA NextPlace ==
  ASSUME NEW p \in Places, ~AtEnd(p)
  PROVE  After(p) \in Places
<1>1. /\ p[1] \in DOMAIN Script /\ p[1] \in Nat /\ p[1] <= Len(Script) /\ p[2] \in Nat
      /\ p[2] < Length(p[1]) /\ Length(p[1]) \in Nat
  BY PlaceIs, Lengths
<1>2. CASE p[2] + 1 = Length(p[1])
  <2> DEFINE q == <<p[1] + 1, 0>>
  <2>1. After(p) = q
    BY <1>2 DEF After
  <2>2. q \in (1 .. Len(Script) + 1) \X Nat /\ q[1] = p[1] + 1 /\ q[2] = 0
    BY <1>1, Units
  <2>3. ~AtEnd(q) => 0 < Length(p[1] + 1)
    BY <1>1, <2>2, Units, Lengths DEF AtEnd
  <2>. QED  BY <2>1, <2>2, <2>3 DEF Places
<1>3. CASE p[2] + 1 # Length(p[1])
  <2> DEFINE q == <<p[1], p[2] + 1>>
  <2>1. After(p) = q
    BY <1>3 DEF After
  <2>2. q \in (1 .. Len(Script) + 1) \X Nat /\ q[1] = p[1] /\ q[2] = p[2] + 1
    BY <1>1, Units
  <2>3. ~AtEnd(q) /\ q[2] < Length(q[1])
    BY <1>1, <1>3, <2>2 DEF AtEnd
  <2>. QED  BY <2>1, <2>2, <2>3 DEF Places
<1>. QED  BY <1>2, <1>3

\* A place before another one: so is the next, or it is that one.
LEMMA NotPast ==
  ASSUME NEW p \in Places, NEW q \in Places, AtMost(p, q), p # q
  PROVE  ~AtEnd(p) /\ AtMost(After(p), q)
<1>1. ~AtEnd(p)
  <2> SUFFICES ASSUME AtEnd(p)
               PROVE  FALSE
    OBVIOUS
  <2>1. p[1] = Len(Script) + 1 /\ p[2] = 0 /\ q[1] <= p[1] /\ q[2] \in Nat /\ q[1] \in Nat
    BY PlaceIs, Units
  <2>2. q[1] = p[1]
    BY <2>1, Units DEF AtMost
  <2>3. q[2] = 0
    BY <2>1, <2>2, PlaceIs
  <2>. QED  BY <2>1, <2>2, <2>3, PlaceIs
<1>2. /\ p[1] \in Nat /\ p[2] \in Nat /\ q[1] \in Nat /\ q[2] \in Nat
      /\ p[2] < Length(p[1]) /\ Length(p[1]) \in Nat
  BY <1>1, PlaceIs, Lengths, Units
<1>3. CASE p[1] < q[1]
  BY <1>1, <1>2, <1>3 DEF After, AtMost
<1>4. CASE p[1] = q[1]
  <2>1. p[2] # q[2]
    BY <1>4, PlaceIs
  <2>2. p[2] < q[2]
    BY <1>2, <1>4, <2>1 DEF AtMost
  <2>3. q[2] < Length(p[1])
    BY <1>1, <1>4, PlaceIs, Units
  <2>4. After(p) = <<p[1], p[2] + 1>>
    BY <1>2, <2>2, <2>3 DEF After
  <2>. QED  BY <1>1, <1>2, <1>4, <2>2, <2>4 DEF AtMost
<1>. QED  BY <1>2, <1>3, <1>4 DEF AtMost

LEMMA StreamInit == Init => Stream
<1> SUFFICES ASSUME Init
             PROVE  Stream
  OBVIOUS
<1>1. <<1, 0>> \in Places
  <2>1. <<1, 0>> \in (1 .. Len(Script) + 1) \X Nat
    BY Units
  <2>2. ~AtEnd(<<1, 0>>) => 0 < Length(1)
    BY Units, Lengths DEF AtEnd
  <2>. QED  BY <2>1, <2>2 DEF Places
<1>. QED  BY <1>1 DEF Init, Stream, AtMost

LEMMA Further ==
  ASSUME NEW p \in Places, NEW q \in Places, AtMost(p, q), ~AtEnd(q)
  PROVE  AtMost(p, After(q))
<1>1. p[1] \in Nat /\ p[2] \in Nat /\ q[1] \in Nat /\ q[2] \in Nat
  BY PlaceIs, Units
<1>. QED  BY <1>1 DEF AtMost, After

\* What every step of the runner that reads a byte knows.
LEMMA Reading ==
  ASSUME Stream, ReadByte
  PROVE  /\ read[1] \in DOMAIN Script /\ read[2] < Length(read[1])
         /\ read' = After(read) /\ read' \in Places /\ AtMost(read', sent)
         /\ sent' = sent /\ waiting' = waiting /\ mismatches' = mismatches /\ answers' = answers
BY NotPast, NextPlace, PlaceIs DEF Stream, ReadByte, hostVars

LEMMA StreamStep ==
  ASSUME Stream, [Next]_vars
  PROVE  Stream'
<1> USE DEF hostVars, runnerVars, contextVars, engineVars
<1>1. CASE HostSend
  <2>1. sent' = After(sent) /\ sent' \in Places /\ AtMost(read, sent')
    BY <1>1, NextPlace, Further DEF HostSend, Stream
  <2>2. UNCHANGED <<read, runnerVars>>
    BY <1>1 DEF HostSend
  <2>. QED  BY <2>1, <2>2 DEF Stream, InHand
<1>2. CASE UNCHANGED <<sent, read, runnerVars>>
  BY <1>2 DEF Stream, InHand
<1>3. CASE RunnerBegin \/ RunnerSkip
  <2>1. at = "tag" /\ ReadByte /\ UNCHANGED <<at, payload>>
    BY <1>3 DEF RunnerBegin, RunnerSkip
  <2>2. ~IsTest(read[1])
    BY <1>3, <2>1 DEF RunnerBegin, RunnerSkip, Sees, Stream, IsTest
  <2>3. read' = <<read[1] + 1, 0>>
    BY <2>1, <2>2, Reading, Lengths DEF Stream, After
  <2>. QED  BY <2>1, <2>3, Reading DEF Stream
<1>4. CASE RunnerTest
  <2>1. at = "tag" /\ ReadByte /\ at' = "payload" /\ payload' = <<>> /\ read[2] = 0
    BY <1>4 DEF RunnerTest, Stream
  <2>2. IsTest(read[1])
    BY <1>4, <2>1, Reading DEF RunnerTest, Sees, IsTest
  <2>3. read' = <<read[1], 1>> /\ PAYLOAD \in Nat \ {0}
    BY <2>1, <2>2, Reading, Lengths DEF After
  <2>4. Len(payload') = 0 /\ InHand' = read[1] /\ payload' \in Seq(Places) /\ DOMAIN payload' = {}
    BY <2>1, <2>3 DEF InHand
  <2>. QED  BY <2>1, <2>2, <2>3, <2>4, Reading DEF Stream
<1>5. CASE RunnerField
  <2>1. /\ at = "payload" /\ at' = "payload" /\ Len(payload) < PAYLOAD /\ ReadByte
        /\ payload' = Append(payload, read)
    BY <1>5 DEF RunnerField
  <2>2. /\ IsTest(read[1]) /\ read[2] = Len(payload) + 1 /\ Len(payload) \in Nat
        /\ payload \in Seq(Places) /\ read \in Places /\ PAYLOAD \in Nat
        /\ \A n \in DOMAIN payload : payload[n] = <<read[1], n>>
    BY <2>1, ScriptAssumption DEF Stream, InHand
  <2>3. /\ payload' \in Seq(Places) /\ Len(payload') = Len(payload) + 1
        /\ Len(payload') <= PAYLOAD
    BY <2>1, <2>2
  <2>4. read' = IF Len(payload') < PAYLOAD THEN <<read[1], read[2] + 1>> ELSE <<read[1] + 1, 0>>
    <3>1. Length(read[1]) = 1 + PAYLOAD
      BY <2>2, Lengths DEF IsTest
    <3>. QED  BY <2>1, <2>2, <2>3, <3>1, Reading DEF After
  <2>5. read[1] \in Nat
    BY <2>2, PlaceIs, Units
  <2>6. InHand' = read[1]
    BY <2>1, <2>3, <2>4, <2>5 DEF InHand
  <2>7. read = <<read[1], Len(payload) + 1>>
    BY <2>2, PlaceIs
  <2>8. \A n \in DOMAIN payload' : payload'[n] = <<read[1], n>>
    BY <2>1, <2>2, <2>7
  <2>9. read'[2] = IF Len(payload') < PAYLOAD THEN Len(payload') + 1 ELSE 0
    BY <2>2, <2>3, <2>4
  <2>. QED  BY <2>1, <2>2, <2>3, <2>6, <2>8, <2>9, Reading DEF Stream
<1>6. CASE TestReceived
  <2>1. /\ at = "payload" /\ Len(payload) = PAYLOAD /\ at' = "call" /\ payload' = <<>>
        /\ test' = Script[payload[1][1]] /\ UNCHANGED <<sent, read>>
    BY <1>6 DEF TestReceived, hostVars
  <2>2. PAYLOAD \in Nat \ {0} /\ payload \in Seq(Places) /\ IsTest(read[1] - 1)
        /\ read[2] = 0 /\ InHand = read[1] - 1
        /\ \A n \in DOMAIN payload : payload[n] = <<read[1] - 1, n>>
    BY <2>1, ScriptAssumption DEF Stream, InHand
  <2>3. payload[1][1] = read[1] - 1
    BY <2>1, <2>2
  <2>4. InHand' = read[1] - 1
    BY <2>1 DEF InHand
  <2>. QED  BY <2>1, <2>2, <2>3, <2>4 DEF Stream
<1>7. CASE CallAes
  BY <1>7 DEF CallAes, Stream, InHand
<1>8. CASE Answer
  BY <1>8 DEF Answer, Stream
<1>. QED
  BY <1>1, <1>2, <1>3, <1>4, <1>5, <1>6, <1>7, <1>8
  DEF Next, Host, HostRead, Runner, Poll, AesRuns, vars

(***************************************************************************)
(* The runner takes a byte for a tag only when it is one, and makes a test *)
(* of the bytes of one test of the host, each in its field                 *)
(* (test.c:105-160 against gen_aes_test).                                  *)
(***************************************************************************)
THEOREM InStep == Spec => []InSync
<1>1. Stream => InSync
  <2> SUFFICES ASSUME Stream
               PROVE  InSync
    OBVIOUS
  <2>1. CASE payload = <<>>
    BY <2>1 DEF Stream, InSync
  <2>2. CASE payload # <<>>
    <3>1. payload \in Seq(Places) /\ at = "payload"
      BY <2>2 DEF Stream
    <3>2. 1 \in DOMAIN payload /\ \A n \in DOMAIN payload : payload[n] = <<InHand, n>>
      BY <2>2, <3>1 DEF Stream
    <3>. QED  BY <3>1, <3>2 DEF InSync
  <2>. QED  BY <2>1, <2>2
<1>. QED  BY <1>1, StreamInit, StreamStep, PTL DEF Spec

-----------------------------------------------------------------------------
(* The host never runs far ahead                                           *)

LEMMA TurnsInit == Init => Turns
<1> SUFFICES ASSUME Init
             PROVE  Turns
  OBVIOUS
<1>1. sent[1] = 1 /\ read[1] = 1 /\ waiting = FALSE /\ answers = <<>> /\ at = "tag"
  BY DEF Init
<1>2. waiting \in BOOLEAN /\ ~waiting /\ ~Complete
  BY <1>1, Zenon DEF Complete
<1>3. 1 .. 1 - 1 = {}
  OBVIOUS
<1>. QED  BY <1>1, <1>2, <1>3, Zenon DEF Turns

\* A step of the runner on an unread byte: no answer is on its way.
LEMMA Unanswered ==
  ASSUME Stream, Turns, ReadByte
  PROVE  answers = <<>> /\ answers' = <<>> /\ read'[1] >= read[1]
BY Reading, PlaceIs, Units DEF Turns, ReadByte, hostVars, Stream, After

LEMMA TurnsStep ==
  ASSUME Stream, Turns, [Next]_vars
  PROVE  Turns'
<1> USE DEF hostVars, runnerVars, contextVars, engineVars
<1>0. read[1] \in Nat /\ sent[1] \in Nat /\ sent'[1] \in Nat /\ read'[1] \in Nat
  BY StreamStep, PlaceIs, Units DEF Stream
<1>1. CASE HostSend
  <2>1. /\ ~waiting /\ ~AtEnd(sent) /\ sent' = After(sent) /\ UNCHANGED <<read, answers, runnerVars>>
        /\ waiting' = (Script[sent[1]].tag = "t" /\ sent'[2] = 0)
    BY <1>1 DEF HostSend
  <2>2. sent[1] \in DOMAIN Script /\ sent[2] \in Nat
    BY <2>1, PlaceIs DEF Stream
  <2>3. answers = <<>> /\ ~Complete /\ ~Complete'
    BY <2>1 DEF Turns, Complete
  <2>4. \A u \in read[1] .. sent[1] - 1 : ~IsTest(u)
    BY <2>1 DEF Turns
  <2>5. CASE sent'[1] = sent[1]
    <3>1. sent'[2] # 0
      BY <1>0, <2>1, <2>2, <2>5 DEF After
    <3>. QED  BY <2>1, <2>3, <2>4, <2>5, <3>1 DEF Turns
  <2>6. CASE sent'[1] # sent[1]
    <3>1. sent'[1] = sent[1] + 1 /\ sent'[2] = 0
      BY <2>1, <2>6 DEF After
    <3>2. \A u \in read[1] .. sent'[1] - 1 : IsTest(u) => u = sent[1]
      BY <1>0, <2>4, <3>1
    <3>3. waiting' <=> IsTest(sent[1])
      BY <2>1, <2>2, <3>1 DEF IsTest
    <3>4. sent'[1] - 1 = sent[1]
      BY <1>0, <3>1
    <3>. QED  BY <2>1, <2>3, <3>1, <3>2, <3>3, <3>4 DEF Turns
  <2>. QED  BY <2>5, <2>6
<1>2. CASE HostRead
  <2>1. waiting /\ answers # <<>> /\ waiting' = FALSE /\ answers' = Tail(answers)
        /\ UNCHANGED <<sent, read, runnerVars>>
    BY <1>2 DEF HostRead
  <2>2. read = sent /\ at = "tag" /\ answers = <<answers[1]>> /\ ~Complete'
    BY <2>1 DEF Turns, Complete
  <2>3. answers' = <<>>
    <3> DEFINE a == answers[1]
    <3>1. answers = <<a>>
      BY <2>2
    <3> HIDE DEF a
    <3>. QED  BY <2>1, <3>1
  <2>4. read'[1] .. sent'[1] - 1 = {}
    BY <1>0, <2>1, <2>2
  <2>. QED  BY <2>1, <2>2, <2>3, <2>4, Zenon DEF Turns
<1>3. CASE RunnerBegin \/ RunnerSkip \/ RunnerTest \/ RunnerField
  <2>1. ReadByte /\ waiting' = waiting /\ sent' = sent
    BY <1>3 DEF RunnerBegin, RunnerSkip, RunnerTest, RunnerField, ReadByte
  <2>2. answers' = <<>> /\ read'[1] >= read[1] /\ waiting \in BOOLEAN
    BY <2>1, Unanswered DEF Turns
  <2>3. \A u \in read'[1] .. sent[1] - 1 : IsTest(u) => waiting /\ u = sent[1] - 1
    BY <1>0, <2>2 DEF Turns
  <2>4. ASSUME Complete' PROVE waiting /\ read' = sent
    <3>1. /\ at' = "payload" /\ Len(payload') = PAYLOAD
      <4>1. at \notin {"call", "aes"} /\ at' \notin {"call", "aes"}
        BY <1>3 DEF RunnerBegin, RunnerSkip, RunnerTest, RunnerField
      <4>. QED  BY <2>4, <4>1 DEF Complete
    <3>2. RunnerField
      <4>1. ~RunnerTest
        BY <3>1, ScriptAssumption DEF RunnerTest
      <4>. QED  BY <1>3, <3>1, <4>1 DEF RunnerBegin, RunnerSkip
    <3>3. IsTest(InHand') /\ read'[2] = 0 /\ InHand' = read'[1] - 1
      BY <3>1, StreamStep DEF Stream, InHand
    <3>4. InHand' = read[1]
      BY <1>0, <2>1, <3>2, <3>3, Reading DEF RunnerField, After, Stream, InHand
    <3>5. AtMost(read', sent) /\ read' \in Places /\ sent \in Places
      BY <2>1, Reading DEF Stream
    <3>6. read[1] <= sent[1] - 1
      BY <1>0, <3>3, <3>4, <3>5 DEF AtMost
    <3>7. waiting /\ read[1] = sent[1] - 1 /\ sent[2] = 0
      BY <1>0, <3>3, <3>4, <3>6 DEF Turns
    <3>. QED  BY <1>0, <3>3, <3>4, <3>5, <3>7, PlaceIs
  <2>. QED  BY <2>1, <2>2, <2>3, <2>4 DEF Turns
<1>4. CASE TestReceived \/ CallAes \/ AesRuns
  <2>1. Complete /\ UNCHANGED <<waiting, sent, read, answers>> /\ answers = <<>>
    BY <1>4 DEF TestReceived, CallAes, AesRuns, Complete, Turns
  <2>. QED  BY <2>1 DEF Turns
<1>5. CASE Answer
  <2>1. /\ Complete /\ UNCHANGED <<waiting, sent, read>> /\ at' = "tag" /\ at = "aes"
        /\ \/ answers' = answers
           \/ answers' = Append(answers, [ret |-> Verdict, out |-> out])
    BY <1>5 DEF Answer, Complete
  <2>2. answers = <<>> /\ waiting /\ read = sent
    BY <2>1 DEF Turns
  <2>3. answers' = <<>> \/ answers' = <<answers'[1]>>
    BY <2>1, <2>2
  <2>. QED  BY <2>1, <2>2, <2>3 DEF Turns, Complete
<1>6. CASE UNCHANGED vars \/ Poll
  BY <1>6 DEF vars, Poll, Turns, Complete
<1>. QED  BY <1>1, <1>2, <1>3, <1>4, <1>5, <1>6 DEF Next, Host, Runner

\* The units before u, and the tests among them.
UnitsBefore(u) == {v \in DOMAIN Script : v < u}
TestsBefore(u) == {v \in UnitsBefore(u) : Script[v].tag = "t"}

LEMMA Counts ==
  ASSUME NEW u \in 1 .. Len(Script) + 1
  PROVE  /\ IsFiniteSet(UnitsBefore(u)) /\ Cardinality(UnitsBefore(u)) \in Nat
         /\ IsFiniteSet(TestsBefore(u)) /\ Cardinality(TestsBefore(u)) \in Nat
<1>1. IsFiniteSet(1 .. Len(Script))
  BY Units, FS_Interval
<1>2. IsFiniteSet(UnitsBefore(u))
  BY <1>1, Units, FS_Subset DEF UnitsBefore
<1>3. IsFiniteSet(TestsBefore(u))
  BY <1>2, FS_Subset DEF TestsBefore
<1>. QED  BY <1>2, <1>3, FS_CardinalityType

\* One unit more.
LEMMA CountNext ==
  ASSUME NEW u \in DOMAIN Script
  PROVE  /\ Cardinality(UnitsBefore(u + 1)) = Cardinality(UnitsBefore(u)) + 1
         /\ Cardinality(TestsBefore(u + 1))
              = Cardinality(TestsBefore(u)) + (IF IsTest(u) THEN 1 ELSE 0)
<1>0. u \in 1 .. Len(Script) + 1 /\ u \in Nat /\ \A v \in DOMAIN Script : v \in Nat
  BY Units
<1>1. UnitsBefore(u + 1) = UnitsBefore(u) \cup {u} /\ u \notin UnitsBefore(u)
  BY <1>0 DEF UnitsBefore
<1>2. TestsBefore(u + 1) = IF IsTest(u) THEN TestsBefore(u) \cup {u} ELSE TestsBefore(u)
  BY <1>1 DEF TestsBefore, IsTest
<1>3. u \notin TestsBefore(u)
  BY <1>1 DEF TestsBefore
<1>4. Cardinality(UnitsBefore(u + 1)) = Cardinality(UnitsBefore(u)) + 1
  BY <1>0, <1>1, Counts, FS_AddElement
<1>5. CASE IsTest(u)
  BY <1>0, <1>2, <1>3, <1>4, <1>5, Counts, FS_AddElement
<1>6. CASE ~IsTest(u)
  BY <1>0, <1>2, <1>4, <1>6, Counts
<1>. QED  BY <1>5, <1>6

LEMMA BeforeIs ==
  ASSUME NEW p
  PROVE  Before(p) = Cardinality(UnitsBefore(p[1]))
                       + PAYLOAD * Cardinality(TestsBefore(p[1])) + p[2]
BY Zenon DEF Before, UnitsBefore, TestsBefore

\* The bytes before the unit u.
Start(u) == Cardinality(UnitsBefore(u)) + PAYLOAD * Cardinality(TestsBefore(u))

LEMMA StartType ==
  ASSUME NEW u \in 1 .. Len(Script) + 1
  PROVE  Start(u) \in Nat
<1> DEFINE c == Cardinality(UnitsBefore(u))
           t == Cardinality(TestsBefore(u))
<1>1. c \in Nat /\ t \in Nat /\ PAYLOAD \in Nat
  BY Counts, ScriptAssumption
<1>2. Start(u) = c + PAYLOAD * t
  BY DEF Start
<1> HIDE DEF c, t
<1>. QED  BY <1>1, <1>2

LEMMA StartNext ==
  ASSUME NEW u \in DOMAIN Script
  PROVE  Start(u + 1) = Start(u) + (IF IsTest(u) THEN 1 + PAYLOAD ELSE 1)
<1> DEFINE c == Cardinality(UnitsBefore(u))
           t == Cardinality(TestsBefore(u))
<1>1. c \in Nat /\ t \in Nat /\ PAYLOAD \in Nat
  BY Units, Counts, ScriptAssumption
<1>2. PAYLOAD * t \in Nat /\ PAYLOAD * (t + 1) = PAYLOAD * t + PAYLOAD
  <2> HIDE DEF t
  <2>. QED  BY <1>1
<1>3. Cardinality(UnitsBefore(u + 1)) = c + 1
      /\ Cardinality(TestsBefore(u + 1)) = t + (IF IsTest(u) THEN 1 ELSE 0)
  BY CountNext
<1>4. Start(u) = c + PAYLOAD * t
  BY DEF Start
<1>5. CASE IsTest(u)
  <2>1. Start(u + 1) = (c + 1) + PAYLOAD * (t + 1)
    BY <1>3, <1>5 DEF Start
  <2> HIDE DEF c, t
  <2>. QED  BY <1>1, <1>2, <1>4, <1>5, <2>1
<1>6. CASE ~IsTest(u)
  <2>0. t + 0 = t
    BY <1>1
  <2>1. Start(u + 1) = (c + 1) + PAYLOAD * t
    BY <1>3, <1>6, <2>0 DEF Start
  <2> HIDE DEF c, t
  <2>. QED  BY <1>1, <1>2, <1>4, <1>6, <2>1
<1>. QED  BY <1>5, <1>6

\* Units without a test: at most two of them, as many bytes.
LEMMA FewTags ==
  ASSUME NEW r \in 1 .. Len(Script) + 1, NEW s \in 1 .. Len(Script) + 1, r <= s,
         \A u \in r .. s - 1 : ~IsTest(u)
  PROVE  Start(s) <= Start(r) + 2
<1>1. r \in Nat /\ s \in Nat /\ Len(Script) \in Nat /\ DOMAIN Script = 1 .. Len(Script)
  BY Units
<1>2. s <= r + 2
  <2> SUFFICES ASSUME s > r + 2
               PROVE  FALSE
    BY <1>1
  <2>1. r \in DOMAIN Script /\ r + 2 \in DOMAIN Script
    BY <1>1
  <2>2. PICK v \in r .. r + 2 : Script[v].tag = "t"
    BY <2>1, ScriptAssumption
  <2>. QED  BY <1>1, <2>1, <2>2 DEF IsTest
<1>3. Start(r) \in Nat /\ (s > r => r \in DOMAIN Script)
  BY <1>1, StartType
<1>4. CASE s = r
  BY <1>3, <1>4
<1>5. CASE s = r + 1
  <2>1. ~IsTest(r)
    BY <1>1, <1>5
  <2>. QED  BY <1>1, <1>3, <1>5, <2>1, StartNext
<1>6. CASE s = r + 2
  <2>1. ~IsTest(r) /\ ~IsTest(r + 1) /\ r \in DOMAIN Script /\ r + 1 \in DOMAIN Script /\ r + 2 = (r + 1) + 1
    BY <1>1, <1>6
  <2>2. Start(r + 1) = Start(r) + 1
    BY <1>3, <2>1, StartNext
  <2>3. Start((r + 1) + 1) = Start(r + 1) + 1
    BY <2>1, StartNext
  <2>. QED  BY <1>3, <1>6, <2>1, <2>2, <2>3
<1>. QED  BY <1>1, <1>2, <1>4, <1>5, <1>6

LEMMA InFlightBound ==
  ASSUME Stream, Turns
  PROVE  InFlight
<1> DEFINE r == read[1]
           s == sent[1]
<1>1. /\ r \in 1 .. Len(Script) + 1 /\ s \in 1 .. Len(Script) + 1 /\ r <= s
      /\ read[2] \in Nat /\ sent[2] \in Nat /\ PAYLOAD \in Nat \ {0} /\ Len(Script) \in Nat
  BY PlaceIs, Units, ScriptAssumption DEF Stream, AtMost
<1>2. Before(sent) = Start(s) + sent[2] /\ Before(read) = Start(r) + read[2]
  BY BeforeIs DEF Start
<1>3. Start(r) \in Nat /\ Start(s) \in Nat
  BY <1>1, StartType
<1>4. sent[2] <= PAYLOAD
  <2>1. AtEnd(sent) => sent[2] = 0
    BY PlaceIs DEF Stream
  <2>2. ~AtEnd(sent) => sent[2] < Length(s) /\ s \in DOMAIN Script
    BY PlaceIs DEF Stream
  <2>3. ~AtEnd(sent) => Length(s) <= 1 + PAYLOAD /\ Length(s) \in Nat
    <3> HIDE DEF s
    <3>. QED  BY <2>2, Lengths
  <2> HIDE DEF s
  <2>. QED  BY <1>1, <2>1, <2>2, <2>3
<1>5. CASE ~waiting
  <2>1. \A u \in r .. s - 1 : ~IsTest(u)
    BY <1>5 DEF Turns
  <2> HIDE DEF r, s
  <2>2. Start(s) <= Start(r) + 2
    BY <1>1, <2>1, FewTags
  <2>3. Before(sent) \in Nat /\ Before(read) \in Nat /\ Start(r) <= Before(read)
    BY <1>1, <1>2, <1>3
  <2>4. Before(sent) <= Start(s) + PAYLOAD
    BY <1>1, <1>2, <1>3, <1>4
  <2>. QED  BY <1>1, <1>3, <2>2, <2>3, <2>4 DEF InFlight, Unread
<1>6. CASE waiting
  <2>1. sent[2] = 0 /\ IsTest(s - 1) /\ \A u \in r .. s - 1 : IsTest(u) => u = s - 1
    BY <1>6 DEF Turns
  <2> HIDE DEF r, s
  <2>2. s - 1 \in DOMAIN Script /\ s - 1 \in 1 .. Len(Script) + 1 /\ (s - 1) + 1 = s
    BY <1>1, <2>1, Units DEF IsTest
  <2>3. Start(s) = Start(s - 1) + (1 + PAYLOAD) /\ Start(s - 1) \in Nat
    BY <2>1, <2>2, StartNext, StartType
  <2>4. CASE r = s
    BY <1>1, <1>2, <1>3, <2>1, <2>4 DEF InFlight, Unread
  <2>5. CASE r <= s - 1
    <3>1. \A u \in r .. (s - 1) - 1 : ~IsTest(u)
      BY <1>1, <2>1
    <3>2. Start(s - 1) <= Start(r) + 2
      BY <1>1, <2>2, <2>5, <3>1, FewTags
    <3>3. Before(sent) <= (Start(r) + 2) + (1 + PAYLOAD)
      BY <1>1, <1>2, <1>3, <2>1, <2>3, <3>2
    <3>4. Unread <= 2 + (1 + PAYLOAD)
      <4>1. Before(sent) \in Nat /\ Before(read) \in Nat /\ Start(r) <= Before(read)
        BY <1>1, <1>2, <1>3
      <4>. QED  BY <1>1, <1>3, <3>3, <4>1 DEF Unread
    <3>. QED  BY <1>1, <3>4 DEF InFlight
  <2>. QED  BY <1>1, <2>4, <2>5
<1>. QED  BY <1>5, <1>6

(***************************************************************************)
(* The host never runs further ahead than a test and the tags before it:   *)
(* the ring of platform.c never holds more than PAYLOAD + 3 bytes.         *)
(***************************************************************************)
THEOREM NeverFarAhead == Spec => []InFlight
<1>1. Init => Stream /\ Turns
  BY StreamInit, TurnsInit
<1>2. Stream /\ Turns /\ [Next]_vars => (Stream /\ Turns)'
  BY StreamStep, TurnsStep
<1>. QED  BY <1>1, <1>2, InFlightBound, PTL DEF Spec

-----------------------------------------------------------------------------
(* The tests pass                                                          *)

\* What a test whose command aes() accepts is.
LEMMA Accepted ==
  ASSUME NEW x, NEW t, Error(x, t) = "NO_ERROR"
  PROVE  /\ Engine!test_mode(t.mode) = "NO_ERROR"
         /\ Engine!test_mode_state(t.mode, x.flags) = "NO_ERROR"
         /\ ~({"ENC", "DEC"} \subseteq t.mode)
         /\ ~({"AESINIT_ENC", "AESINIT_DEC"} \subseteq t.mode)
         /\ ~({"ENC", "AESINIT_DEC"} \subseteq t.mode) /\ ~({"DEC", "AESINIT_ENC"} \subseteq t.mode)
         /\ "ENC" \in t.mode => "KEYINIT" \in x.flags \cup t.mode /\ "AESINIT_ENC" \in x.flags \cup t.mode
         /\ "DEC" \in t.mode => "KEYINIT" \in x.flags \cup t.mode /\ "AESINIT_DEC" \in x.flags \cup t.mode
<1>1. /\ Engine!test_mode(t.mode) = "NO_ERROR"
      /\ Engine!test_mode_state(t.mode, x.flags) = "NO_ERROR"
  BY DEF Error
<1>2. /\ ~({"ENC", "DEC"} \subseteq t.mode)
      /\ ~({"AESINIT_ENC", "AESINIT_DEC"} \subseteq t.mode)
      /\ ~({"ENC", "AESINIT_DEC"} \subseteq t.mode) /\ ~({"DEC", "AESINIT_ENC"} \subseteq t.mode)
  BY <1>1 DEF Engine!test_mode, Engine!Directions, Engine!InitFlag, Engine!Other
<1>3. /\ "ENC" \in t.mode => "KEYINIT" \in x.flags \cup t.mode /\ "AESINIT_ENC" \in x.flags \cup t.mode
      /\ "DEC" \in t.mode => "KEYINIT" \in x.flags \cup t.mode /\ "AESINIT_DEC" \in x.flags \cup t.mode
  BY <1>1 DEF Engine!test_mode_state, Engine!Directions
<1>. QED  BY <1>1, <1>2, <1>3

LEMMA Flags ==
  /\ Engine!InitFlag["ENC"] = "AESINIT_ENC" /\ Engine!InitFlag["DEC"] = "AESINIT_DEC"
  /\ Engine!Other["ENC"] = "DEC" /\ Engine!Other["DEC"] = "ENC"
BY DEF Engine!InitFlag, Engine!Other

\* One step of a call keeps what Calling says, and the last one answers.
LEMMA EngineStep ==
  ASSUME NEW CONSTANT x, NEW CONSTANT t, t.case \in Cases,
         pc # "idle", Calling(x, t), Truthful, Engine!Next
  PROVE  /\ Truthful'
         /\ pc' = "idle" => Answering(x, t)'
         /\ pc' # "idle" => Calling(x, t)'
<1> USE DEF Engine!keyVars, Engine!aesVars, Engine!Goto, Engine!Return
<1>0. /\ Error(x, t) = "NO_ERROR" /\ ret = "NO_ERROR" /\ call.mode = t.mode /\ out = None
      /\ "KEYINIT" \in t.mode => call.key = t.case
      /\ Computes(t) => call.input = t.case
      /\ t.case # None
  BY ContextAssumption DEF Calling
<1>1. CASE Engine!KeyRandom
  <2>1. pc = "key_random" /\ pc' = "load_key" /\ UNCHANGED <<kctx, ctr_key, actx, ctr_aes, state, out, ret, call>>
    BY <1>1 DEF Engine!KeyRandom
  <2>. QED  BY <1>0, <2>1 DEF Calling, Holds, Truthful, Engine!ContextsMatchState
<1>2. CASE Engine!LoadKey \/ Engine!KeepKey
  <2>1. pc = "load_key" /\ pc' = "aes_random" /\ UNCHANGED <<actx, ctr_aes, out, ret, call>> /\ Holds(x)
    BY <1>2 DEF Engine!LoadKey, Engine!KeepKey, Calling
  <2>2. Holds(Loaded(x, t))'
    BY <1>0, <1>2, <2>1 DEF Engine!LoadKey, Engine!KeepKey, Holds, Loaded
  <2>3. Truthful'
    <3>1. CASE Engine!LoadKey
      <4>1. kctx'.key = t.case /\ state' = state \cup {"KEYINIT"} /\ actx' = actx
        BY <1>0, <2>1, <3>1 DEF Engine!LoadKey
      <4>. QED  BY <1>0, <4>1, Flags DEF Truthful, Engine!ContextsMatchState, Engine!StateFlag, Engine!Directions
    <3>2. CASE Engine!KeepKey
      BY <2>1, <3>2 DEF Engine!KeepKey, Truthful, Engine!ContextsMatchState
    <3>. QED  BY <1>2, <3>1, <3>2
  <2>. QED  BY <1>0, <2>1, <2>2, <2>3 DEF Calling
<1>3. CASE Engine!AesRandom
  <2>1. pc = "aes_random" /\ pc' = "init_aes" /\ UNCHANGED <<kctx, ctr_key, actx, ctr_aes, state, out, ret, call>>
    BY <1>3 DEF Engine!AesRandom
  <2>. QED  BY <1>0, <2>1 DEF Calling, Holds, Truthful, Engine!ContextsMatchState
<1>4. CASE Engine!KeepAes \/ \E d \in Engine!Directions : Engine!InitAes(d)
  <2>1. pc = "init_aes" /\ pc' = "process" /\ UNCHANGED <<kctx, ctr_key, out, ret, call>>
        /\ Holds(Loaded(x, t))
    BY <1>4 DEF Engine!InitAes, Engine!KeepAes, Calling
  <2>2. ~({"AESINIT_ENC", "AESINIT_DEC"} \subseteq t.mode)
    BY <1>0, Accepted
  <2>3. Holds(Prepared(x, t))'
    BY <1>0, <1>4, <2>1, <2>2 DEF Engine!InitAes, Engine!KeepAes, Holds, Prepared, Boxed,
      Engine!Directions, Engine!InitFlag, Engine!Other
  <2>4. Truthful'
    <3>1. CASE Engine!KeepAes
      BY <3>1 DEF Engine!KeepAes, Truthful, Engine!ContextsMatchState
    <3>2. ASSUME NEW d \in Engine!Directions, Engine!InitAes(d)
          PROVE  Truthful'
      <4>1. /\ actx'.box = d /\ kctx' = kctx
            /\ state' = (state \cup {Engine!InitFlag[d]}) \ {Engine!InitFlag[Engine!Other[d]]}
        BY <3>2 DEF Engine!InitAes
      <4>2. d = "ENC" \/ d = "DEC"
        BY DEF Engine!Directions
      <4>. QED  BY <4>1, <4>2, Flags DEF Truthful, Engine!ContextsMatchState, Engine!StateFlag, Engine!Directions
    <3>. QED  BY <1>4, <3>1, <3>2
  <2>. QED  BY <1>0, <2>1, <2>3, <2>4 DEF Calling
<1>5. ASSUME NEW d \in Engine!Directions, Engine!Process(d)
      PROVE  Answering(x, t)' /\ Truthful' /\ pc' = "idle"
  <2>1. /\ pc = "process" /\ pc' = "idle" /\ ret' = "NO_ERROR" /\ d \in t.mode
        /\ UNCHANGED <<kctx, actx, state>> /\ Holds(Prepared(x, t))
        /\ ctr_key' = Engine!Inc(ctr_key) /\ ctr_aes' = Engine!Inc(ctr_aes)
    BY <1>0, <1>5 DEF Engine!Process, Calling
  <2>2. d = IF "ENC" \in t.mode THEN "ENC" ELSE "DEC"
    BY <1>0, <2>1, Accepted DEF Engine!Directions
  <2>3. "KEYINIT" \in Prepared(x, t).flags /\ Engine!InitFlag[d] \in Prepared(x, t).flags
    BY <1>0, <2>1, Accepted DEF Prepared, Loaded, Boxed, Engine!Directions, Engine!InitFlag, Engine!Other
  <2>4. actx.box = d /\ kctx.key # None
    BY <2>1, <2>3 DEF Holds, Truthful, Engine!ContextsMatchState
  <2>5. Computes(t)
    BY <2>1 DEF Computes
  <2>6. out' = Answered(x, t)
    BY <1>0, <1>5, <2>1, <2>2, <2>4, <2>5 DEF Engine!Process, Engine!Block, Answered, Holds
  <2>7. Holds(Left(x, t))'
    BY <1>0, <2>1, <2>5 DEF Holds, Left
  <2>8. Truthful'
    BY <2>1 DEF Truthful, Engine!ContextsMatchState
  <2>. QED  BY <1>0, <2>1, <2>6, <2>7, <2>8 DEF Answering
<1>6. CASE Engine!NoBlock
  <2>1. /\ pc = "process" /\ pc' = "idle" /\ ret' = "NO_ERROR" /\ Holds(Prepared(x, t))
        /\ UNCHANGED <<kctx, ctr_key, actx, ctr_aes, state, out>>
    BY <1>6 DEF Engine!NoBlock, Calling
  <2>2. ~Computes(t)
    BY <1>0, <1>6 DEF Engine!NoBlock, Computes
  <2>3. Holds(Left(x, t))' /\ out' = Answered(x, t)
    BY <1>0, <2>1, <2>2 DEF Holds, Left, Answered
  <2>4. Truthful'
    BY <2>1 DEF Truthful, Engine!ContextsMatchState
  <2>. QED  BY <1>0, <2>1, <2>3, <2>4 DEF Answering
<1>7. ~Engine!Check /\ ~Engine!KeyRandomFails /\ ~Engine!AesRandomFails
  BY DEF Engine!Check, Engine!KeyRandomFails, Engine!AesRandomFails
<1>. QED  BY <1>1, <1>2, <1>3, <1>4, <1>5, <1>6, <1>7 DEF Engine!Next

LEMMA TestIs ==
  ASSUME NEW u, IsTest(u)
  PROVE  Script[u] \in Unit /\ Script[u].case \in Cases /\ u \in DOMAIN Script
<1>1. Script \in Seq(Unit) /\ u \in DOMAIN Script
  BY ScriptAssumption DEF IsTest
<1>2. Script[u] \in Unit /\ Script[u] \notin {Begin, End}
  BY <1>1 DEF IsTest, Begin, End
<1>. QED  BY <1>1, <1>2, SMT DEF Unit

LEMMA NextContext ==
  ASSUME NEW x, IsContext(x), NEW t
  PROVE  IsContext(Left(x, t))
BY DEF IsContext, Left, Prepared, Boxed, Loaded

\* While a test is in hand the runner stays on it.
LEMMA InHandStays ==
  ASSUME Stream, RunnerField \/ TestReceived \/ CallAes \/ AesRuns
  PROVE  /\ InHand' = InHand /\ Current = InHand /\ Current' = InHand
         /\ at \in {"payload", "call", "aes"} /\ at' \in {"payload", "call", "aes"}
<1> USE DEF Current
<1>1. CASE RunnerField
  <2>1. /\ at = "payload" /\ at' = "payload" /\ Len(payload) < PAYLOAD /\ ReadByte
        /\ payload' = Append(payload, read)
    BY <1>1 DEF RunnerField
  <2>2. /\ InHand = read[1] /\ Len(payload') = Len(payload) + 1 /\ Len(payload) \in Nat
        /\ read[2] = Len(payload) + 1 /\ read[1] \in Nat /\ PAYLOAD \in Nat /\ IsTest(read[1])
        /\ read \in Places
    BY <2>1, ScriptAssumption, PlaceIs, Units DEF Stream, InHand
  <2>3. Length(read[1]) = 1 + PAYLOAD
    BY <2>2, Lengths DEF IsTest
  <2>4. read'[1] = IF Len(payload') < PAYLOAD THEN read[1] ELSE read[1] + 1
    BY <2>1, <2>2, <2>3, Reading DEF After
  <2>. QED  BY <2>1, <2>2, <2>4 DEF InHand
<1>2. CASE TestReceived
  BY <1>2 DEF TestReceived, InHand
<1>3. CASE CallAes \/ AesRuns
  BY <1>3 DEF CallAes, AesRuns, runnerVars, InHand
<1>. QED  BY <1>1, <1>2, <1>3

\* A unit more has been received: the session may have begun with it.
LEMMA BegunNext ==
  ASSUME NEW u \in DOMAIN Script
  PROVE  Begun(u + 1) <=> Begun(u) \/ Script[u].tag = "b"
<1>1. u \in Nat \ {0}
  BY Lengths
<1>2. 1 .. u + 1 - 1 = (1 .. u - 1) \cup {u}
  BY <1>1
<1>. QED  BY <1>2 DEF Begun

LEMMA TestBegun ==
  ASSUME NEW CONSTANT context, IsScriptOf(context), NEW u, IsTest(u)
  PROVE  /\ Begun(u) /\ Expects(context[u], Script[u])
         /\ context[u + 1] = Left(context[u], Script[u])
BY DEF IsScriptOf, IsTest

LEMMA RunInit ==
  ASSUME NEW CONSTANT context, IsScriptOf(context), Init
  PROVE  Run(context)
<1>1. /\ at = "tag" /\ Current = 1 /\ answers = <<>> /\ mismatches = {} /\ ran = <<>>
      /\ pc = "idle"
  BY DEF Init, NoCallYet, Current
<1>2. ~Begun(Current)
  BY <1>1 DEF Begun
<1>. QED  BY <1>1, <1>2 DEF Run

\* A tag that is not a test's.
LEMMA TagStep ==
  ASSUME NEW CONSTANT context, IsScriptOf(context), Stream, Turns, Run(context),
         RunnerBegin \/ RunnerSkip
  PROVE  Run(context)'
<1>1. /\ at = "tag" /\ at' = "tag" /\ ReadByte /\ pc = "idle" /\ pc' = "idle" /\ ran' = ran
  BY DEF RunnerBegin, RunnerSkip, runnerVars, engineVars, Run
<1>2. /\ read[1] \in DOMAIN Script /\ read[2] = 0 /\ answers' = <<>> /\ mismatches' = mismatches
      /\ read' = After(read)
      /\ Begun(read[1]) =>
           Holds(context[read[1]]) /\ Truthful /\ IsContext(context[read[1]])
  BY <1>1, Reading, Unanswered DEF Stream, Run, Current
<1>3. Script[read[1]].tag # "t" /\ (Script[read[1]].tag = "b" <=> ~RunnerSkip)
  BY <1>1, <1>2, Lengths DEF RunnerBegin, RunnerSkip, Sees
<1>4. Current' = read[1] + 1
  <2>1. read' = <<read[1] + 1, 0>>
    BY <1>2, <1>3, Lengths DEF After, IsTest
  <2>. QED  BY <1>1, <2>1 DEF Current
<1>5. PICK u \in DOMAIN Script : u = read[1]
  BY <1>2
<1>6. CASE Script[u].tag = "b"
  <2>1. context[u + 1] = Cleared
    BY <1>6 DEF IsScriptOf
  <2>2. /\ kctx'.key = None /\ actx'.box = None /\ state' = {} /\ ctr_key' = 0 /\ ctr_aes' = 0
    BY <1>3, <1>5, <1>6 DEF RunnerBegin
  <2>3. Holds(Cleared)' /\ IsContext(Cleared) /\ Truthful'
    BY <2>2, ContextAssumption
    DEF Holds, Cleared, IsContext, Truthful, Engine!ContextsMatchState, Engine!Directions
  <2>. QED  BY <1>1, <1>2, <1>4, <1>5, <2>1, <2>3 DEF Run
<1>7. CASE Script[u].tag # "b"
  <2>1. Script[u].tag = "e"
    BY <1>3, <1>5, <1>7, Lengths
  <2>2. context[u + 1] = context[u]
    BY <2>1 DEF IsScriptOf
  <2>3. UNCHANGED engineVars
    BY <1>3, <1>5, <1>7 DEF RunnerSkip
  <2>4. Begun(u) => Holds(context[u])' /\ Truthful' /\ IsContext(context[u])
    BY <1>2, <1>5, <2>3
    DEF Holds, engineVars, contextVars, Truthful, Engine!ContextsMatchState
  <2>5. Begun(u + 1) => Begun(u)
    BY <1>7, BegunNext
  <2>. QED  BY <1>1, <1>2, <1>4, <1>5, <2>2, <2>4, <2>5 DEF Run
<1>. QED  BY <1>6, <1>7

\* The call of the test in hand: refused, or accepted.
LEMMA CallStep ==
  ASSUME NEW CONSTANT x, NEW CONSTANT t, t.case \in Cases, IsContext(x),
         test = t, Holds(x), Truthful, out = None, CallAes
  PROVE  /\ Truthful' /\ test' = t
         /\ pc' = "idle" => Answering(x, t)'
         /\ pc' # "idle" => Calling(x, t)'
<1> USE DEF Engine!keyVars, Engine!aesVars
<1>1. state = x.flags /\ test' = t
  BY DEF Holds, CallAes
<1>2. ASSUME NEW e, Engine!Refuse(e), e = Error(x, t)
      PROVE  Answering(x, t)' /\ Truthful' /\ pc' = "idle"
  <2>1. /\ pc' = "idle" /\ ret' = e /\ e # "NO_ERROR"
        /\ UNCHANGED <<kctx, ctr_key, actx, ctr_aes, state, out>>
    BY <1>2 DEF Engine!Refuse, Engine!Return
  <2>2. Left(x, t) = x /\ Answered(x, t) = None
    BY <1>2, <2>1 DEF Left, Answered
  <2>. QED  BY <1>2, <2>1, <2>2 DEF Answering, Holds, Truthful, Engine!ContextsMatchState
<1>3. CASE Engine!RefuseMode(t.mode)
  <2>1. Engine!Refuse(Engine!test_mode(t.mode)) /\ Engine!test_mode(t.mode) # "NO_ERROR"
    BY <1>3 DEF Engine!RefuseMode, Engine!Refuse
  <2>. QED  BY <1>1, <1>2, <2>1 DEF Error
<1>4. CASE Engine!RefuseState(t.mode)
  <2>1. Engine!Refuse(Engine!test_mode_state(t.mode, x.flags)) /\ Engine!test_mode(t.mode) = "NO_ERROR"
    BY <1>1, <1>4 DEF Engine!RefuseState
  <2>. QED  BY <1>1, <1>2, <2>1 DEF Error
<1>5. ASSUME NEW k, NEW i, k \in {t.case, None}, i \in {t.case, None}, Engine!Accept(t.mode, k, i)
      PROVE  Calling(x, t)' /\ Truthful' /\ pc' # "idle"
  <2>1. /\ Engine!test_mode(t.mode) = "NO_ERROR" /\ Engine!test_mode_state(t.mode, x.flags) = "NO_ERROR"
        /\ pc' = "key_random" /\ call' = [mode |-> t.mode, key |-> k, input |-> i] /\ ret' = "NO_ERROR"
        /\ UNCHANGED <<kctx, ctr_key, actx, ctr_aes, state, out>>
    BY <1>1, <1>5 DEF Engine!Accept
  <2>2. ("KEYINIT" \in t.mode => k = t.case) /\ (Computes(t) => i = t.case)
    BY <1>5, ContextAssumption DEF Engine!Accept, Computes
  <2>3. Error(x, t) = "NO_ERROR"
    BY <2>1 DEF Error
  <2>. QED  BY <2>1, <2>2, <2>3 DEF Calling, Holds, Truthful, Engine!ContextsMatchState
<1>. QED  BY <1>1, <1>3, <1>4, <1>5 DEF CallAes

LEMMA RunStep ==
  ASSUME NEW CONSTANT context, IsScriptOf(context), Stream, Turns, Run(context), [Next]_vars
  PROVE  Run(context)'
<1> USE DEF hostVars, runnerVars, contextVars, engineVars
<1>1. CASE HostSend \/ HostRead
  <2>1. /\ UNCHANGED <<read, at, payload, test, ran, kctx, actx, state, ctr_key, ctr_aes, ret, out, pc, call>>
    BY <1>1 DEF HostSend, HostRead
  <2>2. answers' = <<>> /\ mismatches' = {}
    <3>1. CASE HostSend
      BY <3>1 DEF HostSend, Turns, Run
    <3>2. CASE HostRead
      <4>1. answers # <<>> /\ answers' = Tail(answers) /\ waiting' = FALSE
            /\ mismatches' = IF Head(answers).out = Awaited.exp_out
                             THEN mismatches ELSE mismatches \cup {Awaited}
        BY <3>2 DEF HostRead
      <4>2. answers' = <<>>
        BY <4>1, TurnsStep DEF Turns
      <4>3. Head(answers) = answers[1]
        BY <4>1 DEF Turns
      <4>. QED  BY <4>1, <4>2, <4>3 DEF Run, Awaited
    <3>. QED  BY <1>1, <3>1, <3>2
  <2>3. Current' = Current
    BY <2>1 DEF Current, InHand
  <2>. QED  BY <2>1, <2>2, <2>3
    DEF Run, Truthful, Engine!ContextsMatchState, Holds, Answering, Calling
<1>2. CASE RunnerBegin \/ RunnerSkip
  BY <1>2, TagStep
<1>3. CASE RunnerTest \/ RunnerField \/ TestReceived
  <2>1. /\ at \in {"tag", "payload"} /\ at' \in {"payload", "call"} /\ answers' = <<>>
        /\ UNCHANGED <<mismatches, ran, kctx, actx, state, ctr_key, ctr_aes, pc>>
        /\ out' = None
    <3>1. CASE RunnerTest
      BY <3>1, Unanswered DEF RunnerTest, ReadByte
    <3>2. CASE RunnerField
      BY <3>2, Unanswered DEF RunnerField, ReadByte, Run
    <3>3. CASE TestReceived
      BY <3>3 DEF TestReceived, Turns, Run
    <3>. QED  BY <1>3, <3>1, <3>2, <3>3
  <2>2. Current' = Current
    <3>1. CASE RunnerTest
      <4>1. at = "tag" /\ ReadByte /\ at' = "payload" /\ payload' = <<>> /\ read[2] = 0
        BY <3>1 DEF RunnerTest, Stream
      <4>2. IsTest(read[1])
        BY <3>1, <4>1, Reading DEF RunnerTest, Sees, IsTest
      <4>3. read' = <<read[1], 1>> /\ PAYLOAD \in Nat \ {0}
        BY <4>1, <4>2, Reading, Lengths DEF After, IsTest
      <4>. QED  BY <4>1, <4>3 DEF Current, InHand
    <3>2. CASE RunnerField \/ TestReceived
      BY <3>2, InHandStays
    <3>. QED  BY <1>3, <3>1, <3>2
  <2>. QED  BY <2>1, <2>2 DEF Run, Truthful, Engine!ContextsMatchState, Holds
<1>4. CASE CallAes \/ AesRuns
  <2>1. /\ at' = "aes" /\ Current' = Current /\ Current = InHand /\ IsTest(InHand) /\ test = Script[InHand]
        /\ UNCHANGED <<sent, answers, mismatches, ran, test>>
    BY <1>4, InHandStays DEF CallAes, AesRuns, Stream
  <2>2. answers = <<>>
    BY <1>4 DEF CallAes, AesRuns, Turns
  <2>3. PICK u \in DOMAIN Script : u = InHand
    BY <2>1, TestIs
  <2>4. PICK x : x = context[u]
    OBVIOUS
  <2>5. PICK t : t = Script[u]
    OBVIOUS
  <2>6. t.case \in Cases /\ test = t /\ IsContext(x) /\ Truthful /\ Begun(Current)
    BY <2>1, <2>3, <2>4, <2>5, TestIs, TestBegun DEF Run
  <2>7. CASE CallAes
    <3>1. Holds(x) /\ out = None
      BY <2>1, <2>3, <2>4, <2>6, <2>7 DEF CallAes, Run
    <3>2. /\ Truthful' /\ test' = t
          /\ pc' = "idle" => Answering(x, t)'
          /\ pc' # "idle" => Calling(x, t)'
      BY <2>6, <2>7, <3>1, CallStep
    <3>. QED  BY <2>1, <2>2, <2>3, <2>4, <2>5, <2>6, <3>2 DEF Run
  <2>8. CASE AesRuns
    <3>1. pc # "idle" /\ Calling(x, t) /\ Engine!Next
      BY <2>1, <2>3, <2>4, <2>5, <2>6, <2>8 DEF AesRuns, Run
    <3>2. /\ Truthful'
          /\ pc' = "idle" => Answering(x, t)'
          /\ pc' # "idle" => Calling(x, t)'
      BY <2>6, <3>1, EngineStep
    <3>. QED  BY <2>1, <2>2, <2>3, <2>4, <2>5, <2>6, <3>2 DEF Run
  <2>. QED  BY <1>4, <2>7, <2>8
<1>5. CASE Answer
  <2>1. /\ at = "aes" /\ pc = "idle" /\ at' = "tag" /\ Complete
        /\ answers' = IF test.comm_line_output
                      THEN Append(answers, [ret |-> Verdict, out |-> out]) ELSE answers
        /\ ran' = Append(ran, [test |-> test, error |-> ret, verdict |-> Verdict])
        /\ UNCHANGED <<sent, read, mismatches, kctx, actx, state, ctr_key, ctr_aes, pc>>
    BY <1>5 DEF Answer, Complete
  <2>2. read = sent /\ answers = <<>> /\ IsTest(read[1] - 1) /\ test = Script[read[1] - 1]
        /\ Current = read[1] - 1 /\ read[1] \in Nat
    BY <2>1, PlaceIs, Units DEF Turns, Stream, Current, InHand
  <2>3. PICK u \in DOMAIN Script : u = read[1] - 1
    BY <2>2, TestIs
  <2>4. /\ test = Script[u] /\ Script[u].tag = "t" /\ test \in Unit /\ u + 1 = read[1]
        /\ IsContext(context[u]) /\ Truthful /\ Answering(context[u], test)
    <3>1. Begun(Current) /\ Current = u
      BY <2>2, <2>3, TestBegun
    <3>2. IsContext(context[u]) /\ Truthful /\ Answering(context[u], test)
      BY <2>1, <3>1 DEF Run
    <3>. QED  BY <2>2, <2>3, <3>2, TestIs DEF IsTest
  <2>5. Expects(context[u], test) /\ context[u + 1] = Left(context[u], test)
    BY <2>2, <2>3, <2>4, TestBegun
  <2>6. Verdict = 0
    <3>1. FailedChecks = {}
      BY <2>4, <2>5 DEF FailedChecks, Expects, Answering, Holds
    <3>. QED  BY <3>1 DEF Verdict
  <2>7. out = test.exp_out /\ ret = Error(context[u], test)
    BY <2>4, <2>5 DEF Expects, Answering
  <2>8. ran' \in Seq(Passed(context))
    <3>1. [test |-> test, error |-> ret, verdict |-> Verdict] \in Passed(context)
      BY <2>3, <2>4, <2>6, <2>7 DEF Passed, IsTest
    <3>. QED  BY <2>1, <3>1 DEF Run
  <2>9. answers' # <<>> => answers'[1].out = Script[sent[1] - 1].exp_out
    BY <2>1, <2>2, <2>7
  <2>10. Current' = u + 1 /\ Truthful'
    <3>1. Current' = u + 1
      BY <2>1, <2>4 DEF Current
    <3>2. Truthful'
      BY <2>1, <2>4 DEF Truthful, Engine!ContextsMatchState
    <3>. QED  BY <3>1, <3>2
  <2>11. IsContext(context[u + 1])
    BY <2>4, <2>5, NextContext
  <2>12. Holds(context[u + 1])'
    BY <2>1, <2>4, <2>5 DEF Answering, Holds
  <2>. QED  BY <2>1, <2>8, <2>9, <2>10, <2>11, <2>12 DEF Run
<1>6. CASE UNCHANGED vars \/ Poll
  BY <1>6 DEF vars, Poll, Run, Current, InHand, Truthful, Engine!ContextsMatchState, Holds,
    Answering, Calling
<1>. QED  BY <1>1, <1>2, <1>3, <1>4, <1>5, <1>6 DEF Next, Host, Runner

(***************************************************************************)
(* All tests pass, on the board and on the host, whatever the stack held   *)
(* at the start, whatever operations the sessions split and whatever the   *)
(* keys and the randomness: for every script that sends a 'b' before its   *)
(* first test and whose tests expect what the contexts built from there    *)
(* give (test.c:62-100, 105-178).                                          *)
(***************************************************************************)
THEOREM TestsPass ==
  ASSUME NEW CONSTANT context, IsScriptOf(context)
  PROVE  Spec => []AllPass
<1>1. Init => Stream /\ Turns /\ Run(context)
  BY StreamInit, TurnsInit, RunInit
<1>2. Stream /\ Turns /\ Run(context) /\ [Next]_vars => (Stream /\ Turns /\ Run(context))'
  BY StreamStep, TurnsStep, RunStep
<1>3. Run(context) => AllPass
  <2> SUFFICES ASSUME Run(context)
               PROVE  AllPass
    OBVIOUS
  <2>1. ran \in Seq(Passed(context)) /\ mismatches = {}
    BY DEF Run
  <2>2. \A n \in DOMAIN ran : ran[n] \in Passed(context)
    BY <2>1
  <2>. QED  BY <2>1, <2>2 DEF AllPass, Passed
<1>. QED  BY <1>1, <1>2, <1>3, PTL DEF Spec

=============================================================================
