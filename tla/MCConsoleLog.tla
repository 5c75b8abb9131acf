----------------------------- MODULE MCConsoleLog -----------------------------
(***************************************************************************)
(* Instance: a ring of 4 printable characters.                             *)
(***************************************************************************)
EXTENDS ConsoleLog

MCNL == "\n"
MCCR == "\r"
MCChar == {"", "a", "b", "c", "d", "e", "[", "!", "U", "E", "D", "\n"}

MCUnset    == <<"U">>
MCEnabled  == <<"E", "\n">>
MCDisabled == <<"D", "\n">>

Log(s) == [name |-> "log", text |-> s]
Op(n)  == [name |-> n]
PanicOp(s) == [name |-> "panic", text |-> s]

\* main: the console, its banner, the interrupts, two sections of log.
Board == <<Op("init"), Log(<<"[", "\n">>), Op("flush"), Op("enable"),
           Log(<<"a", "b", "\n">>), Log(<<"c", "d">>), Op("flush"),
           Log(<<"e", "\n">>), Op("flush")>>

\* A panic of a driver once the interrupts are on.
LatePanic == <<Op("init"), Op("enable"), Log(<<"a">>), PanicOp(<<"!", "\n">>), Op("flush")>>

\* main started without its base address.
NoBase == <<PanicOp(<<"!">>), Op("init"), Op("enable")>>

MCPrograms == {Board, LatePanic, NoBase}
=============================================================================
