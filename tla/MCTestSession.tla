--------------------------- MODULE MCTestSession ----------------------------
(***************************************************************************)
(* TestSession for TLC: the scripts of the runs.                           *)
(***************************************************************************)
EXTENDS TestSession

CONSTANTS c1, c2

\* What test_aes.py generates for one encryption and one decryption, and a
\* session of commands that are to be refused.
UartScript ==
  TestCase(c1, "ENC") \o TestCase(c2, "DEC") \o
  <<Begin, Test(c1, {"ENC", "DEC"}, {"ret", "output", "key_ctr", "aes_ctr", "state"}, 2, None),
    Test(c1, {"ENC"}, {"output"}, 0, None), End>>

\* The context that each unit finds (the first unit, a 'b', finds anything): the
\* hypothesis of TestsPass is that the tests expect what they should be answered
\* there.
Contexts[u \in 1 .. Len(Script) + 1] ==
  IF u = 1 THEN None
  ELSE IF Script[u - 1].tag = "b" THEN Cleared
  ELSE IF Script[u - 1].tag = "e" THEN Contexts[u - 1]
  ELSE Left(Contexts[u - 1], Script[u - 1])

ASSUME ScriptIsRight == IsScriptOf(Contexts)

=============================================================================
