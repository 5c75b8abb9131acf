-------------------------------- MODULE Boot --------------------------------
(***************************************************************************)
(* main (main.c) on the board, from reset to the test loop: system_init,   *)
(* the LEDs, the console with interrupts masked, enable_irq, the protocol  *)
(* line with interrupts on; after that the rest of the USART driver's API. *)
(* Bytes may arrive on every line as soon as its receiver is on, and the   *)
(* interrupt handlers run between two steps of the thread.                 *)
(***************************************************************************)
EXTENDS Usart

CONSTANTS
    Products,       \* pairs <<PROD_CONSOLE_USART, PROD_PROTOCOL_USART>>
    ExtraConfigs,   \* configurations of one more usart_init, once main tests: polled lines
    Lengths,        \* lengths asked of usart_read and usart_write
    WORD            \* 2^32, the modulus of usart_read's length

\* Where usart_init puts the functions that read and write a character.
Pointers == {"console_getc", "console_putc", "protocol_getc", "protocol_putc"}

ASSUME BootAssumption ==
    /\ Products \subseteq {p \in Usarts \X Usarts : p[1] # p[2]}
    /\ WORD \in Nat \ {0, 1} /\ Lengths \subseteq 0..(WORD - 2)
    /\ NEWLINE \in Chars
    /\ NULL \notin Usarts
    /\ NULL \notin Pointers \cup {"console_data_received", "_comm_byte_received"}
    /\ \A c \in ExtraConfigs : c.usart \in Usarts /\ c.callback_irq_handler = NULL

VARIABLES
    console,    \* PROD_CONSOLE_USART
    protocol,   \* PROD_PROTOCOL_USART
    masked,     \* PRIMASK: no interrupt is taken
    pc,         \* where main stands
    irq,        \* the handler that runs: its USART (0: none) and its step
    io          \* the usart_read or usart_write that runs

vars == <<build, rcc, pwr_cr, flash_acr, vtor, osc, cpc,
          gpio, usart, nvic, cb, ptr, config, upc, done, early, bytes,
          console, protocol, masked, pc, irq, io>>

NoIrq == [usart |-> 0, step |-> "none"]
NoIo  == [op |-> "none", usart |-> 0, start_len |-> 0, len |-> 0, moved |-> 0,
          last |-> NEWLINE, ret |-> 0]

\* debug_console_init and protocol_init fill the same fields: 115200 8N1, no flow
\* control, receive interrupt; the mode stays 0, which is UART.
LineConfig(u, handler, getc, putc) ==
    [usart |-> u, mode |-> "UART", baudrate |-> 115200, word_length |-> {},
     parity |-> {}, stop_bits |-> {}, hw_flow_control |-> {},
     options_cr1 |-> {CR1.TE, CR1.RE, CR1.UE, CR1.RXNEIE}, options_cr2 |-> {},
     guard_time_prescaler |-> {}, callback_irq_handler |-> handler,
     callback_usart_getc_ptr |-> getc, callback_usart_putc_ptr |-> putc]

debug_console_init == LineConfig(console, "console_data_received", "console_getc", "console_putc")
protocol_init == LineConfig(protocol, "_comm_byte_received", "protocol_getc", "protocol_putc")

\* leds.c: LED3 to LED6.
LedPins == {13, 12, 14, 15}
LedConfig(pin) ==
    [port |-> "D", pin |-> pin, set_mask |-> {"mode", "pupd", "speed", "type"},
     mode |-> Mode.PIN_OUTPUT_MODE, pupd |-> Pull.GPIO_PULLDOWN,
     speed |-> Speed.PIN_HIGH_SPEED, type |-> OutType.PIN_OTYPER_PP,
     od |-> 0, bsr_r |-> 0, bsr_s |-> 0, lck |-> 0, afr |-> 0]

Init ==
    /\ ClockInit
    /\ UsartInit(Pointers)
    /\ \E p \in Products : console = p[1] /\ protocol = p[2]
    /\ masked = FALSE /\ pc = "start" /\ irq = NoIrq /\ io = NoIo

---------------------------------------------------------------------------
(* The thread.  A pending interrupt goes first.                            *)

Pending(u) == ~masked /\ Requests(u)
ThreadRuns == irq = NoIrq /\ \A u \in Usarts : ~Pending(u)

Goto(from, to) == ThreadRuns /\ pc = from /\ pc' = to

\* Faulty variant: main does not mask the interrupts.
UnmaskedStart ==
    /\ Goto("start", "clock")
    /\ UNCHANGED <<console, protocol, irq, io, masked>>
    /\ UNCHANGED clockVars /\ UNCHANGED usartVars

\* The start-up code passes argc = 1: the other branch is never taken.
Start ==
    /\ Goto("start", "clock")
    /\ masked' = TRUE
    /\ UNCHANGED <<console, protocol, irq, io>>
    /\ UNCHANGED clockVars /\ UNCHANGED usartVars

RunSystemInit ==
    /\ ThreadRuns /\ pc = "clock" /\ system_init
    /\ pc' = IF cpc' = "done" THEN "leds" ELSE "clock"
    /\ UNCHANGED <<console, protocol, masked, irq, io>>
    /\ UNCHANGED usartVars

leds_init ==
    /\ Goto("leds", "console")
    /\ gpio' = LET Led(g, pin) == gpio_set_config(g, LedConfig(pin))
               IN  Led(Led(Led(Led(gpio, 13), 12), 14), 15)
    /\ rcc' = [rcc EXCEPT !.ahb1enr = gpio_clock(@, LedConfig(13))]
    /\ UNCHANGED <<console, protocol, masked, irq, io>>
    /\ UNCHANGED <<build, pwr_cr, flash_acr, vtor, osc, cpc,
                   usart, nvic, cb, ptr, config, upc, done, early, bytes>>

\* The three calls of usart_init.
CallUsartInit(from, to, c) ==
    /\ Goto(from, to)
    /\ usart_init(c)
    /\ UNCHANGED <<console, protocol, masked, irq, io>>

InitConsole  == CallUsartInit("console", "console_init", debug_console_init)
InitProtocol == CallUsartInit("protocol", "protocol_init", protocol_init)
InitOther ==
    /\ config = protocol_init
    /\ \E c \in ExtraConfigs :
         /\ c.usart \notin {console, protocol}
         /\ CallUsartInit("tests", "other_init", c)

AfterInit == [console_init |-> "console_log", protocol_init |-> "protocol_log",
              other_init |-> "api"]

RunUsartInit ==
    /\ ThreadRuns /\ pc \in DOMAIN AfterInit /\ usart_init_step
    /\ pc' = IF upc' = "panic" THEN "panic" ELSE IF upc' = "idle" THEN AfterInit[pc] ELSE pc
    /\ UNCHANGED <<console, protocol, masked, irq, io>>

\* dbg_log and dbg_flush, one character for the message.  Without a putc
\* dbg_flush panics.
AfterLog == [console_log |-> "enable", log |-> "protocol", protocol_log |-> "tests"]

Log ==
    /\ ThreadRuns /\ pc \in DOMAIN AfterLog
    /\ IF ptr["console_putc"] = NULL
       THEN pc' = "panic" /\ UNCHANGED usart
       ELSE usart_putc(ptr["console_putc"]) /\ pc' = AfterLog[pc]
    /\ UNCHANGED <<console, protocol, masked, irq, io>>
    /\ IoStep

enable_irq ==
    /\ Goto("enable", "log")
    /\ masked' = FALSE
    /\ UNCHANGED <<console, protocol, irq, io>>
    /\ UNCHANGED clockVars /\ UNCHANGED usartVars

\* perform_aes_tests and panic do not come back.
Stays ==
    /\ ThreadRuns /\ pc \in {"tests", "panic", "fault"}
    /\ UNCHANGED vars

---------------------------------------------------------------------------
(* The driver's other operations, on the USART initialised last.           *)

ApiStep ==
    /\ ThreadRuns /\ pc = "api" /\ io.op = "none"
    /\ UNCHANGED <<console, protocol, masked, irq>>
    /\ IoStep

SwitchBits ==
    /\ ApiStep /\ pc' = "tests" /\ UNCHANGED io
    /\ \/ usart_enable_dma(config.usart)
       \/ usart_disable_dma(config.usart)
       \/ usart_disable(config.usart)

BeginIo ==
    /\ ApiStep /\ UNCHANGED <<pc, usart>>
    /\ \E op \in {"read", "write"}, n \in Lengths :
         io' = [NoIo EXCEPT !.op = op, !.usart = config.usart, !.start_len = n, !.len = n]

IoTurn ==
    /\ ThreadRuns /\ pc = "api"
    /\ UNCHANGED <<console, protocol, masked, irq>>
    /\ IoStep

\* while (len--): the test that ends the loop decrements too, in 32 bits.
LenDown == (io.len - 1) % WORD

\* Faulty variant: the newline is tested before the pointer moves past it.
ShortRead ==
    /\ IoTurn /\ io.op = "read" /\ io.len # 0
    /\ usart_getc(io.usart)
    /\ \E c \in Chars :
       LET stop == c = NEWLINE
       IN  /\ io' = [io EXCEPT !.len = LenDown, !.moved = IF stop THEN @ ELSE @ + 1, !.last = c,
                               !.op = IF stop THEN "read_done" ELSE "read",
                               !.ret = IF stop THEN io.start_len - LenDown ELSE 0]
           /\ pc' = IF stop THEN "tests" ELSE "api"

\* One turn of usart_read.
ReadByte ==
    /\ IoTurn /\ io.op = "read" /\ io.len # 0
    /\ usart_getc(io.usart)
    /\ \E c \in Chars :
       LET stop == c = NEWLINE
       IN  /\ io' = [io EXCEPT !.len = LenDown, !.moved = @ + 1, !.last = c,
                               !.op = IF stop THEN "read_done" ELSE "read",
                               !.ret = IF stop THEN (io.start_len - LenDown) % WORD ELSE 0]
           /\ pc' = IF stop THEN "tests" ELSE "api"

WriteByte ==
    /\ IoTurn /\ io.op = "write" /\ io.len # 0
    /\ usart_putc(io.usart)
    /\ io' = [io EXCEPT !.len = LenDown, !.moved = @ + 1]
    /\ UNCHANGED pc

\* The loop ends with the length used up.
EndIo ==
    /\ IoTurn /\ io.op \in {"read", "write"} /\ io.len = 0
    /\ io' = [io EXCEPT !.len = LenDown, !.op = IF @ = "read" THEN "read_end" ELSE "write_end",
                        !.ret = (io.start_len - LenDown) % WORD]
    /\ pc' = "tests"
    /\ UNCHANGED usart

\* Polling TXE or RXNE.
Polls ==
    /\ ThreadRuns
    /\ \/ /\ pc \in DOMAIN AfterLog /\ ptr["console_putc"] # NULL
          /\ SR.TXE \notin usart[ptr["console_putc"]].sr
       \/ /\ pc = "api" /\ io.len # 0
          /\ \/ io.op = "write" /\ SR.TXE \notin usart[io.usart].sr
             \/ io.op = "read" /\ SR.RXNE \notin usart[io.usart].sr
    /\ UNCHANGED vars

thread ==
    \/ Start \/ RunSystemInit \/ leds_init \/ InitConsole \/ InitProtocol \/ InitOther
    \/ RunUsartInit \/ Log \/ enable_irq \/ Stays
    \/ SwitchBits \/ BeginIo \/ ReadByte \/ WriteByte \/ EndIo \/ Polls

---------------------------------------------------------------------------
(* The interrupt handlers.  All have the same priority: none interrupts    *)
(* another.                                                                *)

Enter(u) ==
    /\ irq = NoIrq /\ Pending(u) /\ cb[u] # NULL
    /\ irq' = [usart |-> u, step |-> cb[u]]
    /\ UNCHANGED <<console, protocol, masked, pc, io>>
    /\ UNCHANGED clockVars /\ UNCHANGED usartVars

\* Without a callback the handler returns at once, and its request stays.
EnterNull(u) ==
    /\ irq = NoIrq /\ Pending(u) /\ cb[u] = NULL
    /\ UNCHANGED vars

\* usart_getc of the console's USART, which polls RXNE, then dbg_flush, which
\* prints what the thread had left in the ring, if anything.
console_data_received ==
    /\ UNCHANGED <<console, protocol, masked, io>>
    /\ IoStep
    /\ \/ /\ irq.step = "console_data_received"
          /\ usart_getc(console)
          /\ irq' = [irq EXCEPT !.step = "flush"]
          /\ UNCHANGED pc
       \/ /\ irq.step = "flush"
          /\ IF ptr["console_putc"] = NULL
             THEN pc' = "panic" /\ irq' = NoIrq /\ UNCHANGED usart
             ELSE /\ UNCHANGED pc /\ irq' = NoIrq
                  /\ usart_putc(ptr["console_putc"]) \/ UNCHANGED usart

\* Calls protocol_getc, which may still be the null pointer.
_comm_byte_received ==
    /\ irq.step = "_comm_byte_received"
    /\ irq' = NoIrq
    /\ IF ptr["protocol_getc"] = NULL
       THEN pc' = "fault" /\ masked' = TRUE /\ UNCHANGED usart
       ELSE usart_getc(ptr["protocol_getc"]) /\ UNCHANGED <<pc, masked>>
    /\ UNCHANGED <<console, protocol, io>>
    /\ IoStep

\* A handler polls for a byte that an overrun announced and ClearStatus dropped.
IrqPolls ==
    /\ \/ irq.step = "console_data_received" /\ SR.RXNE \notin usart[console].sr
       \/ /\ irq.step = "_comm_byte_received" /\ ptr["protocol_getc"] # NULL
          /\ SR.RXNE \notin usart[ptr["protocol_getc"]].sr
    /\ UNCHANGED vars

interrupt ==
    \/ \E u \in Usarts : Enter(u) \/ EnterNull(u)
    \/ console_data_received \/ _comm_byte_received \/ IrqPolls

hardware ==
    \/ clockHardware /\ UNCHANGED usartVars /\ UNCHANGED <<console, protocol, masked, pc, irq, io>>
    \/ \E u \in Usarts : (ByteArrives(u) \/ ByteSent(u))
         /\ UNCHANGED <<console, protocol, masked, pc, irq, io>>

Next == thread \/ interrupt \/ hardware

BoardStep(A) == A /\ UNCHANGED usartVars /\ UNCHANGED <<console, protocol, masked, pc, irq, io>>

\* The processor runs; the PLL locks and the switch follows once asked; a USART
\* sends what it was given.  Oscillators may fail and bytes need not come.
Fairness ==
    /\ WF_vars(thread) /\ WF_vars(interrupt)
    /\ WF_vars(BoardStep(PllLocks)) /\ WF_vars(BoardStep(ClockSwitches))
    /\ \A u \in Usarts :
         WF_vars(ByteSent(u) /\ UNCHANGED <<console, protocol, masked, pc, irq, io>>)

Spec == Init /\ [][Next]_vars /\ Fairness

---------------------------------------------------------------------------
(* Properties. *)

\* The core never runs from the PLL before the regulator is at its highest
\* voltage, the flash has its wait states and the two buses are divided down to
\* what they stand (init.c:53-86): whatever the oscillators do.
FastOnlyWhenReady ==
    OnPll => /\ PWREN \in rcc.apb1enr /\ VOS \in pwr_cr
             /\ FLASH_ACR.LATENCY_5WS \subseteq flash_acr
             /\ Pclk1 <= 42000000 /\ Pclk2 <= 84000000

\* The baud rate that the registers give, within 2 %.
BaudRight(u) ==
    LET clock == IF u \in {1, 6} THEN Pclk2 ELSE Pclk1
        rate  == NumOf(usart[u].brr) * done[u].baudrate
    IN  clock - rate \in -(rate \div 50)..(rate \div 50)

\* A line works at its baud rate exactly when the clock tree is what
\* usart_set_baudrate takes it to be: the core on the PLL (usart.c:146 never looks
\* whether system_init fell back to HSI), the PLL fed by HSI, which is what M = 8
\* is for, and a divider that fits in 16 bits.
BaudIffClockTree ==
    \A u \in Usarts :
      done[u] # NULL =>
        (BaudRight(u) <=> /\ OnPll /\ PLLSRC \notin rcc.pllcfgr
                          /\ usart_get_bus_clock(u) \div done[u].baudrate < 2^16)

\* The configurations for which this holds whatever the clocks: the rates that the driver can
\* divide down to with 2 % to spare, and, where the divider does not fit in 16 bits,
\* what is left of it far from any clock that the buses may have.
Unambiguous(c) ==
    LET divider == usart_get_bus_clock(c.usart) \div c.baudrate
    IN  /\ c.baudrate \in Nat \ {0} /\ c.baudrate <= 840000
        /\ divider < 2^16 \/ (divider % 2^16) * c.baudrate < 15000000

\* Once a USART is initialised its two pins stay in its own alternate function,
\* set as the table says and with their port clocked, and the four LEDs stay
\* outputs, whatever is initialised after them.
PinsKept ==
    /\ \A u \in Usarts :
         done[u] # NULL =>
           \A i \in 1..2 :
             LET c == PinsOf(done[u])[i]
                 s == PinSettings(gpio[c.port], c.pin)
             IN  c.port \in rcc.ahb1enr /\ \A f \in GPIO_SET_ALL : s[f] = BitsOf(c[f])
    /\ pc \notin {"start", "clock", "leds"} =>
         \A pin \in LedPins : PinSettings(gpio["D"], pin).mode = BitsOf(Mode.PIN_OUTPUT_MODE)

\* An interrupt whose handler is missing is requested for ever.
Storm == \E u \in Usarts : Pending(u) /\ cb[u] = NULL

\* A handler is entered through a null pointer, or is missing while its request
\* holds the thread, only if a byte came on the protocol's line while usart_init
\* was at work on it: whatever arrives on the console at whatever moment, the
\* masked initialisation is safe.
NullOnlyIfEarly ==
    (Storm \/ pc = "fault") => early[protocol] > 0

\* The count that usart_read returns is the number of characters it stored when a
\* newline ended it and one more when the length did; it stores no more than asked.
ReadCounts ==
    /\ io.moved <= io.start_len
    /\ io.op = "read_done" => io.ret = io.moved /\ io.last = NEWLINE
    /\ io.op = "read_end" => io.ret = io.moved + 1 /\ io.moved = io.start_len

\* With a protocol line silent while it is set up, at most one byte on the
\* console while that is, and a PLL fed by an oscillator that is on, main reaches
\* the tests, even when the external oscillator never starts.
BootCompletes ==
    (build.prod_hse => build.hse) =>
      <>(\/ pc = "tests"
         \/ early[protocol] > 0
         \/ early[console] > 1)

=============================================================================
