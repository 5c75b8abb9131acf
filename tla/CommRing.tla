------------------------------ MODULE CommRing ------------------------------
(***************************************************************************)
(* The receive path of the AES test protocol on the STM32F4 target: the    *)
(* host, the data register of USART4, the interrupt handler                *)
(* _comm_byte_received and the ring buffer it shares with the main thread  *)
(* (src/src/platform.c, STM32 part), and the console interrupt of          *)
(* src/src/main.c that delays the handler.                                 *)
(*                                                                         *)
(* Bytes.  The n-th byte of the host's stream is the number n; 0 stands    *)
(* for no byte (an empty data register) and for the '\0' the ring is       *)
(* cleared with.                                                           *)
(*                                                                         *)
(* Interleaving.  An interrupt handler runs to completion before the main  *)
(* thread takes another step, so it is one action; the main thread is cut  *)
(* at every access to a volatile field the handler also writes.  Reading   *)
(* buf[start] and advancing start are one step: the handler never writes   *)
(* start once the ring is initialised, nor a slot that is to be read, so a *)
(* handler run between the two has the effect of one run before them.      *)
(* The main thread runs only when no interrupt is pending: an arrival the  *)
(* core has not taken yet touches nothing the main thread sees, so it is   *)
(* the same as an arrival one step later.  The request stays up as long as *)
(* the data register is not read, and the core then enters the handler     *)
(* again without executing an instruction of the main thread.              *)
(***************************************************************************)
EXTENDS Naturals, Sequences

CONSTANTS
  BUF_MAX,        \* slots of the ring (4095 in the code)
  MaxSent,        \* bound on the number of bytes the host sends
  Window,         \* bytes the host lets go unread before it waits
  QuietBoot,      \* the host is silent while the first read clears the ring
  ConsoleInput    \* somebody types on the debug console (USART1)

ASSUME RingAssumption ==
  /\ BUF_MAX \in Nat /\ BUF_MAX > 1
  /\ MaxSent \in Nat
  /\ Window \in Nat
  /\ QuietBoot \in BOOLEAN
  /\ ConsoleInput \in BOOLEAN

VARIABLES
  sent,           \* bytes the host has put on the line
  dr,             \* USART4's data register, 0 when RXNE is clear
  console,        \* console_data_received occupies the core
  start, end, full, buf,     \* the fields of ring_buffer
  initialized,    \* ring_buffer_initialized
  pc,             \* where the main thread is in ring_buffer_read_char
  i,              \* the loop counter of init_ring_buffer
  delivered,      \* history: the bytes the main thread has read
  hazards         \* history: what has happened that may cost bytes

ringVars == <<start, end, full, buf, initialized>>
mainVars == <<pc, i, delivered>>
vars == <<sent, dr, console, start, end, full, buf, initialized,
          pc, i, delivered, hazards>>

Slots == 0 .. BUF_MAX - 1
Byte == 0 .. MaxSent
Zeroed == [s \in Slots |-> 0]

\* Program points of init_ring_buffer when the main thread runs it.
InitSteps == {"set_end", "set_start", "set_full", "zero"}

Hazard == {"full",         \* a write has filled the ring
           "storm",        \* the handler has left a byte in the data register
           "overrun",      \* USART4 has thrown a byte away
           "init_race"}    \* the handler ran inside the main thread's init

-----------------------------------------------------------------------------
Init ==
  /\ sent = 0 /\ dr = 0 /\ console = FALSE
  /\ start = 0 /\ end = 0 /\ full = FALSE /\ buf = Zeroed
  /\ initialized = FALSE
  /\ pc = "idle" /\ i = 0
  /\ delivered = <<>> /\ hazards = {}

-----------------------------------------------------------------------------
(* The host and the two interrupt sources                                  *)

\* The host sends its next byte.  The one that finds the previous byte still
\* in the data register is lost (overrun); that takes a full byte time, so it
\* needs a handler that refuses the previous byte or cannot start.
HostSend ==
  /\ sent < MaxSent
  /\ sent - Len(delivered) < Window
  /\ QuietBoot => pc \notin InitSteps
  /\ sent' = sent + 1
  /\ \/ /\ dr = 0
        /\ dr' = sent + 1
        /\ UNCHANGED hazards
     \/ /\ dr # 0
        /\ full \/ console
        /\ hazards' = hazards \cup {"overrun"}
        /\ UNCHANGED dr
  /\ UNCHANGED <<console, ringVars, mainVars>>

\* console_data_received takes the core: it polls characters out with
\* interrupts of the same priority held off.
ConsoleEnter ==
  /\ ConsoleInput
  /\ ~console
  /\ console' = TRUE
  /\ UNCHANGED <<sent, dr, ringVars, mainVars, hazards>>

ConsoleExit ==
  /\ console
  /\ console' = FALSE
  /\ UNCHANGED <<sent, dr, ringVars, mainVars, hazards>>

-----------------------------------------------------------------------------
(* The ring buffer                                                         *)

Succ(s) == (s + 1) % BUF_MAX

\* Faulty variant: the ring is declared full one slot early.
FillsEarly(s, e) == Succ(Succ(e)) = s

\* Storing at e fills a ring whose oldest byte is at s.
Fills(s, e) == Succ(e) = s

InitRace == IF pc \in InitSteps THEN {"init_race"} ELSE {}

\* The end of ring_buffer_write_char, on a ring whose fields are s, e and b:
\* store the byte, then either advance end or declare the ring full.
Store(s, e, b) ==
  /\ buf' = [b EXCEPT ![e] = dr]
  /\ start' = s
  /\ \/ /\ ~Fills(s, e)
        /\ end' = Succ(e)
        /\ full' = FALSE
        /\ hazards' = hazards \cup InitRace
     \/ /\ Fills(s, e)
        /\ end' = e
        /\ full' = TRUE
        /\ hazards' = hazards \cup InitRace \cup {"full"}

IrqPending == dr # 0 /\ ~console

\* Faulty variant: like the read, the write that clears the ring reports an
\* error, and its byte is gone.
IsrFirstDropsByte ==
  /\ IrqPending /\ ~full /\ ~initialized
  /\ start' = 0 /\ end' = 0 /\ buf' = Zeroed
  /\ initialized' = TRUE
  /\ dr' = 0
  /\ UNCHANGED <<sent, console, full, mainVars, hazards>>

\* _comm_byte_received before anybody has read: the write clears the ring.
IsrFirst ==
  /\ IrqPending /\ ~full /\ ~initialized
  /\ Store(0, 0, Zeroed)
  /\ initialized' = TRUE
  /\ dr' = 0
  /\ UNCHANGED <<sent, console, mainVars>>

\* _comm_byte_received on an initialised ring that is not full.
IsrStore ==
  /\ IrqPending /\ ~full /\ initialized
  /\ Store(start, end, buf)
  /\ dr' = 0
  /\ UNCHANGED <<sent, console, initialized, mainVars>>

\* _comm_byte_received on a full ring returns without reading the data
\* register: the interrupt request stays up.
IsrRefuse ==
  /\ IrqPending /\ full
  /\ hazards' = hazards \cup {"storm"}
  /\ UNCHANGED <<sent, dr, console, ringVars, mainVars>>

Isr == IsrFirst \/ IsrStore \/ IsrRefuse

-----------------------------------------------------------------------------
(* The main thread: ring_buffer_read_char, called again and again by       *)
(* _comm_getbuffer                                                         *)

MainRuns == dr = 0 /\ ~console

Goto(here, there) == pc = here /\ pc' = there

\* Faulty variant: the flag is not tested, every call clears the ring.
FirstReadAlways ==
  /\ MainRuns
  /\ Goto("idle", "set_end")
  /\ UNCHANGED <<sent, dr, console, ringVars, i, delivered, hazards>>

\* The first call finds the ring not initialised and clears it, field by
\* field, before it sets the flag; it then reports that there is no byte.
FirstRead ==
  /\ MainRuns /\ ~initialized
  /\ Goto("idle", "set_end")
  /\ UNCHANGED <<sent, dr, console, ringVars, i, delivered, hazards>>

SetEnd ==
  /\ MainRuns
  /\ Goto("set_end", "set_start")
  /\ end' = 0
  /\ UNCHANGED <<sent, dr, console, start, full, buf, initialized, i, delivered, hazards>>

SetStart ==
  /\ MainRuns
  /\ Goto("set_start", "set_full")
  /\ start' = end
  /\ UNCHANGED <<sent, dr, console, end, full, buf, initialized, i, delivered, hazards>>

SetFull ==
  /\ MainRuns
  /\ Goto("set_full", "zero")
  /\ full' = FALSE
  /\ i' = 0
  /\ UNCHANGED <<sent, dr, console, start, end, buf, initialized, delivered, hazards>>

ZeroByte ==
  /\ MainRuns /\ pc = "zero" /\ i < BUF_MAX
  /\ buf' = [buf EXCEPT ![i] = 0]
  /\ i' = i + 1
  /\ UNCHANGED <<sent, dr, console, start, end, full, initialized, pc, delivered, hazards>>

InitDone ==
  /\ MainRuns /\ i = BUF_MAX
  /\ Goto("zero", "idle")
  /\ initialized' = TRUE
  /\ UNCHANGED <<sent, dr, console, start, end, full, buf, i, delivered, hazards>>

\* The ring is empty: the call returns -1 and _comm_getbuffer spins.
ReadEmpty ==
  /\ MainRuns /\ pc = "idle" /\ initialized
  /\ start = end
  /\ UNCHANGED vars

\* Faulty variant: start wraps at another length than end.
TakeShortWrap ==
  /\ MainRuns /\ initialized
  /\ Goto("idle", "clear")
  /\ start # end
  /\ delivered' = Append(delivered, buf[start])
  /\ start' = (start + 1) % (BUF_MAX - 1)
  /\ UNCHANGED <<sent, dr, console, end, full, buf, initialized, i, hazards>>

\* The oldest byte goes to the caller's buffer and start moves on.
Take ==
  /\ MainRuns /\ initialized
  /\ Goto("idle", "clear")
  /\ start # end
  /\ delivered' = Append(delivered, buf[start])
  /\ start' = Succ(start)
  /\ UNCHANGED <<sent, dr, console, end, full, buf, initialized, i, hazards>>

Clear ==
  /\ MainRuns
  /\ Goto("clear", "idle")
  /\ full' = FALSE
  /\ UNCHANGED <<sent, dr, console, start, end, buf, initialized, i, delivered, hazards>>

Main ==
  \/ FirstRead \/ SetEnd \/ SetStart \/ SetFull \/ ZeroByte \/ InitDone
  \/ ReadEmpty \/ Take \/ Clear

-----------------------------------------------------------------------------
Next == HostSend \/ ConsoleEnter \/ ConsoleExit \/ Isr \/ Main

Spec == Init /\ [][Next]_vars

(***************************************************************************)
(* The core keeps executing: a pending handler runs, the console handler   *)
(* ends, and the main thread, which polls the ring in a loop, runs when no *)
(* interrupt is pending.  The host and the console user owe nothing.       *)
(***************************************************************************)
FairSpec ==
  /\ Spec
  /\ WF_vars(Isr)
  /\ WF_vars(ConsoleExit)
  /\ WF_vars(Main)

-----------------------------------------------------------------------------
(* Properties                                                              *)

\* How many slots s is after r; the place of a slot in the queue of unread
\* bytes, and the length of that queue.
Dist(r, s) == IF s >= r THEN s - r ELSE s - r + BUF_MAX
Offset(s) == Dist(start, s)
Used == Dist(start, end)

(***************************************************************************)
(* Every variable keeps its type; in particular start and end stay inside  *)
(* buf, which the code never checks (platform.c:330, 356).                 *)
(***************************************************************************)
TypeOK ==
  /\ sent \in Byte /\ dr \in Byte
  /\ console \in BOOLEAN
  /\ start \in Slots /\ end \in Slots
  /\ full \in BOOLEAN /\ initialized \in BOOLEAN
  /\ buf \in [Slots -> Byte]
  /\ pc \in InitSteps \cup {"idle", "clear"}
  /\ i \in 0 .. BUF_MAX
  /\ delivered \in Seq(Byte)
  /\ hazards \subseteq Hazard

(***************************************************************************)
(* Whatever the host, the console and the scheduling do - the ring filled, *)
(* bytes thrown away, the ring cleared under the handler's feet - no byte  *)
(* is returned twice and none overtakes another.                           *)
(***************************************************************************)
InOrder ==
  \A m, n \in DOMAIN delivered :
    m < n /\ delivered[m] # 0 /\ delivered[n] # 0 => delivered[m] < delivered[n]

(***************************************************************************)
(* As long as none of the four hazards has occurred, no byte is lost,      *)
(* altered or invented: the bytes read are 1, 2, 3..., those in the ring   *)
(* follow them slot by slot, and the last one sent may still be in the     *)
(* data register.  The hazards are therefore the only ways to lose a byte. *)
(***************************************************************************)
Exact ==
  hazards = {} =>
    /\ \A n \in DOMAIN delivered : delivered[n] = n
    /\ \A s \in Slots : Offset(s) < Used => buf[s] = Len(delivered) + 1 + Offset(s)
    /\ IF dr = 0 THEN sent = Len(delivered) + Used
                 ELSE sent = dr /\ dr = Len(delivered) + Used + 1

(***************************************************************************)
(* With a host that never lets BUF_MAX bytes go unread, keeps silent while *)
(* the first read clears the ring, and nobody typing on the console, none  *)
(* of the hazards can occur.                                               *)
(***************************************************************************)
NoHazard == hazards = {}

(***************************************************************************)
(* Under the same assumptions the receive path is a reliable channel, and  *)
(* a fair one: the bytes sent come out complete and in order.              *)
(***************************************************************************)
Fifo == INSTANCE ByteFifo
IsFifo == Fifo!FairSpec

(***************************************************************************)
(* platform.c:324-326 says of a full ring that the byte is discarded,      *)
(* "waiting for the ring buffer to be flushed".  It is not: the handler    *)
(* leaves the byte in the data register, so the main thread never runs     *)
(* again and the ring stays full.                                          *)
(***************************************************************************)
FullIsFlushed == full ~> ~full

=============================================================================
