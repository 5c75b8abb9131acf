------------------------------ MODULE ConsoleLog ------------------------------
(***************************************************************************)
(* The debug console of the board: dbg_log, dbg_flush and panic (debug.c)  *)
(* run by main over the print ring of printf.c, and the console interrupt  *)
(* (console_data_received in main.c, or the default one of debug.c), which *)
(* logs and flushes through the same ring with no lock.                    *)
(*                                                                         *)
(* The interrupt runs to its end on the one core, so it is one step.  Main *)
(* can be interrupted between any two accesses to the ring.  end and full  *)
(* are not volatile: main may keep them in registers across the characters *)
(* of one call of print, or write them back after each.                    *)
(***************************************************************************)
EXTENDS PrintRing

CONSTANTS Programs,  \* what main may do: sequences of operations
          Keys,      \* what may be typed at the console
          Typed,     \* bound: how many characters are typed
          Unset,     \* panic's text when console_putc is not set
          Enabled, Disabled,  \* the texts of the interrupt
          NL, CR,    \* '\n' and '\r'
          MaxDepth   \* calls of panic the stack has room for

\* What main can do.
Ops == [name : {"log", "panic"}, text : Seq(Char)]
         \cup [name : {"init", "enable", "flush", "halt"}]

ASSUME ConsoleAssumption ==
    /\ Programs \subseteq Seq(Ops)
    /\ Unset \in Seq(Char) /\ Enabled \in Seq(Char) /\ Disabled \in Seq(Char)
    /\ Typed \in Nat /\ MaxDepth \in Nat \ {0}

VARIABLES prog,     \* what main has still to do
          pc,       \* "next", "char", "flush", "cr", "clear", "halt", "overflow"
          text,     \* characters the running print has still to write
          reg,      \* main's copy of end and full
          dirty,    \* the copy is newer than the memory
          at, size, \* the loop of flush
          ring,     \* ring_buffer
          putc,     \* console_putc is set
          irqs,     \* interrupts are enabled
          handler,  \* the registered callback
          logging,  \* the flag the interrupt toggles
          typed,    \* number of characters typed
          depth,    \* calls of panic on the stack
          tx,       \* history: what the console received since the last flush of main
          want,     \* history: the text it should have received by now
          wait,     \* history: the text that should be in the ring
          clean     \* history: no interrupt inside a log or a flush since then

vars == <<prog, pc, text, reg, dirty, at, size, ring, putc, irqs, handler, logging,
          typed, depth, tx, want, wait, clean>>

mainVars == <<prog, pc, text, reg, dirty, at, size, putc, irqs, handler, depth>>

\* _putchar sends a carriage return after each newline.
Sent(s) == LET sent[k \in 0..Len(s)] ==
                   IF k = 0 THEN <<>>
                   ELSE sent[k - 1] \o (IF s[k] = NL THEN <<NL, CR>> ELSE <<s[k]>>)
           IN  sent[Len(s)]

op == Head(prog)

Init ==
    /\ prog \in Programs /\ handler \in {"console_data_received", "cb_console_data_irq"}
    /\ pc = "next" /\ text = <<>>
    /\ reg = [end |-> 0, full |-> FALSE] /\ dirty = FALSE
    /\ at = 0 /\ size = 0
    /\ ring = init_ring_buffer
    /\ putc = FALSE /\ irqs = FALSE /\ logging = TRUE
    /\ typed = 0 /\ depth = 0
    /\ tx = <<>> /\ want = <<>> /\ wait = <<>> /\ clean = TRUE

-----------------------------------------------------------------------------
\* Operations of main.

\* debug_console_init sets console_putc; main enables the interrupts later.
ConsoleInit ==
    /\ pc = "next" /\ prog # <<>> /\ op.name = "init"
    /\ putc' = TRUE /\ prog' = Tail(prog)
    /\ UNCHANGED <<pc, text, reg, dirty, at, size, ring, irqs, handler, logging,
                   typed, depth, tx, want, wait, clean>>

EnableIrq ==
    /\ pc = "next" /\ prog # <<>> /\ op.name = "enable"
    /\ irqs' = TRUE /\ prog' = Tail(prog)
    /\ UNCHANGED <<pc, text, reg, dirty, at, size, ring, putc, handler, logging,
                   typed, depth, tx, want, wait, clean>>

\* Faulty variant: panic goes on after its text.
PanicReturns(msg) == <<[name |-> "log", text |-> msg], [name |-> "flush"]>>

\* panic prints its text, flushes and stops.
Panic(msg) == <<[name |-> "log", text |-> msg], [name |-> "flush"], [name |-> "halt"]>>

CallPanic ==
    /\ pc = "next" /\ prog # <<>> /\ op.name = "panic"
    /\ depth' = depth + 1
    /\ prog' = Panic(op.text) \o Tail(prog)
    /\ UNCHANGED <<pc, text, reg, dirty, at, size, ring, putc, irqs, handler, logging,
                   typed, tx, want, wait, clean>>

\* bkpt, then an endless loop.
Halt ==
    /\ pc = "next" /\ prog # <<>> /\ op.name = "halt"
    /\ pc' = "halt"
    /\ UNCHANGED <<prog, text, reg, dirty, at, size, ring, putc, irqs, handler, logging,
                   typed, depth, tx, want, wait, clean>>

-----------------------------------------------------------------------------
\* dbg_log: print, character by character.

Copy(r) == [end |-> r.end, full |-> r.full]

\* Faulty variant: the copy of an earlier call is used.
LogBeginStale ==
    /\ pc = "next" /\ prog # <<>> /\ op.name = "log"
    /\ pc' = "char" /\ text' = op.text
    /\ UNCHANGED <<prog, reg, dirty, at, size, ring, putc, irqs, handler, logging, typed,
                   depth, tx, want, wait, clean>>

LogBegin ==
    /\ pc = "next" /\ prog # <<>> /\ op.name = "log"
    /\ pc' = "char" /\ text' = op.text /\ reg' = Copy(ring)
    /\ UNCHANGED <<prog, dirty, at, size, ring, putc, irqs, handler, logging, typed,
                   depth, tx, want, wait, clean>>

\* The build may read end and full again at any character.
Reload ==
    /\ pc = "char" /\ ~dirty /\ reg # Copy(ring)
    /\ reg' = Copy(ring)
    /\ UNCHANGED <<prog, pc, text, dirty, at, size, ring, putc, irqs, handler, logging,
                   typed, depth, tx, want, wait, clean>>

LogChar ==
    /\ pc = "char" /\ text # <<>>
    /\ LET old == [ring EXCEPT !.end = reg.end, !.full = reg.full]
           new == ring_buffer_write_char(old, Head(text))
       IN  /\ ring' = [ring EXCEPT !.buf = new.buf]
           /\ reg'  = Copy(new)
           /\ dirty' = (dirty \/ Copy(new) # Copy(old))
    /\ text' = Tail(text)
    /\ wait' = IF Len(wait) < Capacity THEN Append(wait, Head(text)) ELSE wait
    /\ UNCHANGED <<prog, pc, at, size, putc, irqs, handler, logging, typed, depth, tx,
                   want, clean>>

\* end and full are written back, after one character or after several.
WriteBack ==
    /\ pc = "char" /\ dirty
    /\ ring' = [ring EXCEPT !.end = reg.end, !.full = reg.full]
    /\ dirty' = FALSE
    /\ UNCHANGED <<prog, pc, text, reg, at, size, putc, irqs, handler, logging, typed,
                   depth, tx, want, wait, clean>>

LogEnd ==
    /\ pc = "char" /\ text = <<>> /\ ~dirty
    /\ pc' = "next" /\ prog' = Tail(prog)
    /\ UNCHANGED <<text, reg, dirty, at, size, ring, putc, irqs, handler, logging, typed,
                   depth, tx, want, wait, clean>>

-----------------------------------------------------------------------------
\* dbg_flush: print_and_reset_buffer, whose two-part branch start never takes.

\* Without console_putc, dbg_flush calls panic, which calls dbg_flush.
FlushUnset ==
    /\ pc = "next" /\ prog # <<>> /\ op.name = "flush" /\ ~putc
    /\ IF depth < MaxDepth
       THEN depth' = depth + 1 /\ prog' = Panic(Unset) \o Tail(prog) /\ UNCHANGED pc
       ELSE pc' = "overflow" /\ UNCHANGED <<depth, prog>>
    /\ UNCHANGED <<text, reg, dirty, at, size, ring, putc, irqs, handler, logging,
                   typed, tx, want, wait, clean>>

FlushBegin ==
    /\ pc = "next" /\ prog # <<>> /\ op.name = "flush" /\ putc
    /\ pc' = "flush" /\ at' = 0 /\ size' = ring.end - ring.start
    /\ UNCHANGED <<prog, text, reg, dirty, ring, putc, irqs, handler, logging, typed,
                   depth, tx, want, wait, clean>>

FlushChar ==
    /\ pc = "flush" /\ at < size
    /\ tx' = Append(tx, ring.buf[at])
    /\ at' = at + 1
    /\ pc' = IF ring.buf[at] = NL THEN "cr" ELSE "flush"
    /\ UNCHANGED <<prog, text, reg, dirty, size, ring, putc, irqs, handler, logging,
                   typed, depth, want, wait, clean>>

CarriageReturn ==
    /\ pc = "cr"
    /\ tx' = Append(tx, CR)
    /\ pc' = "flush"
    /\ UNCHANGED <<prog, text, reg, dirty, at, size, ring, putc, irqs, handler, logging,
                   typed, depth, want, wait, clean>>

\* Faulty variant: the ring stays marked full.
ResetKeepsFlag ==
    /\ pc = "flush" /\ at = size
    /\ ring' = [ring EXCEPT !.end = 0, !.start = 0]
    /\ pc' = "clear"
    /\ want' = want \o wait /\ wait' = <<>>
    /\ UNCHANGED <<prog, text, reg, dirty, at, size, putc, irqs, handler, logging, typed,
                   depth, tx, clean>>

\* The indices are reset, then the array is cleared.
ResetIndices ==
    /\ pc = "flush" /\ at = size
    /\ ring' = [ring EXCEPT !.end = 0, !.start = 0, !.full = FALSE]
    /\ pc' = "clear"
    /\ want' = want \o wait /\ wait' = <<>>
    /\ UNCHANGED <<prog, text, reg, dirty, at, size, putc, irqs, handler, logging, typed,
                   depth, tx, clean>>

\* The call returns: a new section of the log begins here.
FlushEnd ==
    /\ pc = "clear"
    /\ ring' = [ring EXCEPT !.buf = Cleared(ring.buf, 0, BUF_MAX)]
    /\ pc' = "next" /\ prog' = Tail(prog)
    /\ tx' = <<>> /\ want' = <<>> /\ wait' = <<>> /\ clean' = TRUE
    /\ UNCHANGED <<text, reg, dirty, at, size, putc, irqs, handler, logging, typed, depth>>

-----------------------------------------------------------------------------
\* The console interrupt.

\* What follows the character that was read: r is the ring, msg what is logged.
Respond(msg) ==
    LET r == ring_buffer_write_string(ring, msg)
    IN  /\ tx' = tx \o Sent(Flushed(r))
        /\ ring' = Reset(r)
        /\ want' = want \o Take(wait \o msg, Capacity) /\ wait' = <<>>
        /\ clean' = (clean /\ pc \in {"next", "clear"})

Toggles(key) == key \in {" ", "p"}

OnKey(key) ==
    /\ typed' = typed + 1
    /\ IF Toggles(key)
       THEN logging' = ~logging /\ Respond(IF logging' THEN Enabled ELSE Disabled)
       ELSE Respond(<<>>) /\ UNCHANGED logging
    /\ UNCHANGED mainVars

Interruptible == irqs /\ typed < Typed /\ pc \notin {"halt", "overflow"}

console_data_received(key) ==
    /\ Interruptible /\ handler = "console_data_received"
    /\ OnKey(key)

\* The handler of debug.c also asks for RXNE and console_getc, which are set.
cb_console_data_irq(key) ==
    /\ Interruptible /\ handler = "cb_console_data_irq"
    /\ OnKey(key)

Main == \/ ConsoleInit \/ EnableIrq \/ CallPanic \/ Halt
        \/ LogBegin \/ Reload \/ LogChar \/ WriteBack \/ LogEnd
        \/ FlushUnset \/ FlushBegin \/ FlushChar \/ CarriageReturn \/ ResetIndices \/ FlushEnd

Interrupt == \E key \in Keys : console_data_received(key) \/ cb_console_data_irq(key)

Next == Main \/ Interrupt

Spec == Init /\ [][Next]_vars /\ WF_vars(Main)

-----------------------------------------------------------------------------
(***************************************************************************)
(* Properties                                                              *)
(***************************************************************************)

\* Type invariant.  Whatever the interrupt does to the ring under main's feet,
\* every index stays inside the array, and start stays at 0: the two-part
\* branch of print_and_reset_buffer is never taken.
TypeOK ==
    /\ pc \in {"next", "char", "flush", "cr", "clear", "halt", "overflow"}
    /\ ring \in Ring /\ ring.start = 0
    /\ reg \in [end : 0..(BUF_MAX - 1), full : BOOLEAN]
    /\ dirty \in BOOLEAN
    /\ at \in 0..(BUF_MAX - 1) /\ size \in 0..(BUF_MAX - 1) /\ at <= size
    /\ putc \in BOOLEAN /\ irqs \in BOOLEAN /\ logging \in BOOLEAN /\ clean \in BOOLEAN
    /\ typed \in 0..Typed /\ depth \in 0..MaxDepth

\* What main's flush, or the next one, has still to send.
Outstanding ==
    CASE pc = "flush" -> Sent(Slice(ring.buf, at, size - at))
      [] pc = "cr"    -> <<CR>> \o Sent(Slice(ring.buf, at, size - at))
      [] pc = "char"  -> Sent(Slice(ring.buf, 0, reg.end))
      [] OTHER        -> Sent(Slice(ring.buf, 0, ring.end))

\* As long as no interrupt falls inside a dbg_log or a dbg_flush of main, every
\* logged character goes out once, in order, up to the capacity of the ring,
\* and so do the answers of the interrupt.
CleanExact == clean => tx \o Outstanding = Sent(want \o wait)

\* The damage of an interrupt inside a log or a flush ends with the flush: it
\* always leaves the ring as at boot.
FlushRecovers == [][FlushEnd => ring' = init_ring_buffer]_vars

\* With the console set up, panic stops the board.
PanicStops == (pc = "next" /\ prog # <<>> /\ op.name = "panic" /\ putc) ~> pc = "halt"

=============================================================================
