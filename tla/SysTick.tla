------------------------------ MODULE SysTick ------------------------------
(***************************************************************************)
(* The millisecond counter (cortex_m4_systick.c).  ticks is 64 bits wide   *)
(* on a 32-bit processor: a read is two loads, in the order the compiler   *)
(* chooses, and SysTick_Handler may come between them.                     *)
(***************************************************************************)
EXTENDS Integers

CONSTANTS
    WORD,       \* 2^32, the modulus of a half of the counter
    MaxTicks    \* ticks considered; below WORD^2

ASSUME SysTickAssumption == WORD \in Nat \ {0} /\ MaxTicks \in 0..(WORD * WORD - 1)

VARIABLES
    ticks,      \* the counter
    stk,        \* STK_LOAD, and whether STK_CTRL counts and interrupts
    dl,         \* the delay that runs, or ran last
    began,      \* (specification only) ticks when it was called
    torn        \* (specification only) a carry fell between two loads of it

tickVars == <<ticks, stk, dl, began, torn>>

PROD_CORE_FREQUENCY == 168000
STK_RELOAD == 2^24                  \* STK_LOAD keeps 24 bits

Halves == {"low", "high"}
HalfOf(t, h) == IF h = "low" THEN t % WORD ELSE t \div WORD
Join(h, first, second) ==
    IF h = "low" THEN second * WORD + first ELSE first * WORD + second

NoDelay == [op |-> "none", ms |-> 0, start |-> 0, half |-> "low", first |-> 0]

SysTickInit ==
    /\ ticks = 0 /\ stk = [load |-> 0, on |-> FALSE]
    /\ dl = NoDelay /\ began = 0 /\ torn = FALSE

systick_init ==
    /\ stk' = [load |-> PROD_CORE_FREQUENCY % STK_RELOAD, on |-> TRUE]
    /\ UNCHANGED <<ticks, dl, began, torn>>

\* Between the two loads of a read the delay is in "start2" or "check2".
SysTick_Handler ==
    /\ stk.on /\ ticks < MaxTicks
    /\ ticks' = ticks + 1
    /\ torn' = (torn \/ (dl.op \in {"start2", "check2"} /\ ticks' % WORD = 0))
    /\ UNCHANGED <<stk, dl, began>>

delay(ms) ==
    /\ dl' = [NoDelay EXCEPT !.op = "start", !.ms = ms]
    /\ began' = ticks /\ torn' = FALSE
    /\ UNCHANGED <<ticks, stk>>

\* The first load of a read of ticks.
LoadFirst ==
    /\ dl.op \in {"start", "check"}
    /\ \E h \in Halves :
         dl' = [dl EXCEPT !.op = IF @ = "start" THEN "start2" ELSE "check2",
                          !.half = h, !.first = HalfOf(ticks, h)]
    /\ UNCHANGED <<ticks, stk, began, torn>>

\* What the two loads make of the counter.
Seen == Join(dl.half, dl.first, HalfOf(ticks, IF dl.half = "low" THEN "high" ELSE "low"))

LoadStart ==
    /\ dl.op = "start2"
    /\ dl' = [dl EXCEPT !.op = "check", !.start = Seen]
    /\ UNCHANGED <<ticks, stk, began, torn>>

\* Faulty variant: the low halves are compared.
LowCheck ==
    /\ dl.op = "check2"
    /\ dl' = [dl EXCEPT !.op = IF (dl.start + dl.ms) % WORD > Seen % WORD THEN "check" ELSE "done"]
    /\ UNCHANGED <<ticks, stk, began, torn>>

\* Faulty variant: the loop ends one tick early.
ShortCheck ==
    /\ dl.op = "check2"
    /\ dl' = [dl EXCEPT !.op = IF dl.start + dl.ms > Seen + 1 THEN "check" ELSE "done"]
    /\ UNCHANGED <<ticks, stk, began, torn>>

\* while (start + ms > ticks)
Check ==
    /\ dl.op = "check2"
    /\ dl' = [dl EXCEPT !.op = IF dl.start + dl.ms > Seen THEN "check" ELSE "done"]
    /\ UNCHANGED <<ticks, stk, began, torn>>

delay_step == LoadFirst \/ LoadStart \/ Check

Delaying == dl.op \notin {"none", "done"}

=============================================================================
