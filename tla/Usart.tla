------------------------------- MODULE Usart -------------------------------
(***************************************************************************)
(* The USART driver (stm32f4xx_usart.c) over the clock tree and the pins:  *)
(* usart_init step by step, the polled read and write, DMA and enable      *)
(* bits, and what the six USARTs do by themselves.                         *)
(***************************************************************************)
EXTENDS UsartRegs, GpioRegs, Clock

CONSTANTS
    NULL,       \* the null pointer
    Chars,      \* what usart_getc may return; it contains '\n'
    NEWLINE,    \* '\n'
    MaxBytes    \* bytes that arrive, on all lines together

VARIABLES
    gpio,       \* registers of the GPIO ports
    usart,      \* registers of the USARTs
    nvic,       \* USARTs whose interrupt is enabled in the NVIC
    cb,         \* cb_usartN_irq_handler
    ptr,        \* the getc and putc pointers that callers hand to usart_init
    config,     \* the usart_config_t of the usart_init that runs, or ran last
    upc,        \* where usart_init stands
    done,       \* per USART: the configuration usart_init completed, or NULL
    early,      \* per USART: bytes that came before its usart_init was over
    bytes       \* bytes that came, on all lines

usartVars == <<gpio, usart, nvic, cb, ptr, config, upc, done, early, bytes>>

Usarts == 1..6
PROD_CLOCK_APB1 == 42000000
PROD_CLOCK_APB2 == 84000000

RegsReset == [sr |-> {SR.TC, SR.TXE}, cr1 |-> {}, cr2 |-> {},
              cr3 |-> {}, gtpr |-> {}, brr |-> {}]

UsartInit(pointers) ==
    /\ gpio = [p \in Ports |-> PortReset]
    /\ usart = [u \in Usarts |-> RegsReset]
    /\ nvic = {}
    /\ cb = [u \in Usarts |-> NULL]
    /\ ptr = [p \in pointers |-> NULL]
    /\ config = NULL /\ upc = "idle"
    /\ done = [u \in Usarts |-> NULL]
    /\ early = [u \in Usarts |-> 0] /\ bytes = 0

---------------------------------------------------------------------------
(* Tables. *)

GPIO_AF_USART == <<7, 7, 7, 8, 8, 8>>

PinConfig(port, pin, type, pupd, u) ==
    [port |-> port, pin |-> pin, set_mask |-> GPIO_SET_ALL,
     mode |-> Mode.PIN_ALTERNATE_MODE, type |-> OutType[type],
     speed |-> Speed.PIN_VERY_HIGH_SPEED, pupd |-> Pull[pupd],
     afr |-> GPIO_AF_USART[u], od |-> 0, bsr_r |-> 0, bsr_s |-> 0, lck |-> 0]

\* TX and RX of the six USARTs.
UartPins == << <<"B", 6, "B", 7>>, <<"A", 2, "A", 3>>, <<"B", 10, "B", 11>>,
               <<"C", 10, "C", 11>>, <<"C", 12, "D", 2>>, <<"C", 6, "C", 7>> >>

uart_gpio_config(u) ==
    LET p == UartPins[u]
    IN  <<PinConfig(p[1], p[2], "PIN_OTYPER_PP", "GPIO_NOPULL", u),
          PinConfig(p[3], p[4], "PIN_OTYPER_PP", "GPIO_NOPULL", u)>>

\* TX and CK; USART4 and USART5 have no smartcard mode.
SmartcardPins == << <<"A", 9, "A", 8>>, <<"A", 2, "A", 4>>, <<"B", 10, "B", 12>>,
                    <<"0", 0, "0", 0>>, <<"0", 0, "0", 0>>, <<"C", 6, "C", 8>> >>

smartcard_gpio_config(u) ==
    LET p == SmartcardPins[u]
    IN  <<PinConfig(p[1], p[2], "PIN_OTYPER_OD", "GPIO_PULLUP", u),
          PinConfig(p[3], p[4], "PIN_OTYPER_PP", "GPIO_PULLUP", u)>>

PinsOf(c) == IF c.mode = "UART" THEN uart_gpio_config(c.usart) ELSE smartcard_gpio_config(c.usart)

\* Faulty variant: the two buses are exchanged.
SwappedBusClock(u) == IF u \in {1, 6} THEN PROD_CLOCK_APB1 ELSE PROD_CLOCK_APB2

usart_get_bus_clock(u) == IF u \in {1, 6} THEN PROD_CLOCK_APB2 ELSE PROD_CLOCK_APB1

\* The divider is cut to 16 bits before it is split; the fraction to 8, then 4.
usart_set_baudrate(c) ==
    LET divider  == usart_get_bus_clock(c.usart) \div c.baudrate
        mantissa == (divider % 2^16) \div 16
        fraction == (divider - mantissa * 16) % 2^8
    IN  Shift(BitsOf(mantissa % 2^12), 4) \cup BitsOf(fraction % 16)

\* Bits of CR3 that USART4 and USART5 do not have, and those USART5 lacks.
Cr3NotOn45 == {CR3.CTSIE, CR3.CTSE, CR3.RTSE, CR3.SCEN, CR3.NACK}
Cr3NotOn5  == {CR3.DMAT, CR3.DMAR}

---------------------------------------------------------------------------
(* usart_init.  Arguments out of range end in panic, which does not return.*)

Step(from, to) == upc = from /\ upc' = to
Cpu == <<build, pwr_cr, flash_acr, vtor, osc, cpc>>
Panic == upc' = "panic"

usart_init(c) ==
    /\ upc = "idle"
    /\ config' = c /\ upc' = "clock"
    /\ UNCHANGED <<rcc, gpio, usart, nvic, cb, ptr, done, early, bytes>>
    /\ UNCHANGED Cpu

\* usart_clock_init: the enable bit of the USART in its bus.
ApbBit == <<4, 17, 18, 19, 20, 5>>
Clocked(u) == ApbBit[u] \in (IF u \in {1, 6} THEN rcc.apb2enr ELSE rcc.apb1enr)

usart_clock_init ==
    /\ Step("clock", "gpio")
    /\ rcc' = IF config.usart \in {1, 6}
              THEN [rcc EXCEPT !.apb2enr = set_reg_bits(@, {ApbBit[config.usart]})]
              ELSE [rcc EXCEPT !.apb1enr = set_reg_bits(@, {ApbBit[config.usart]})]
    /\ UNCHANGED <<gpio, usart, nvic, cb, ptr, config, done, early, bytes>>
    /\ UNCHANGED Cpu

init_gpio ==
    LET pins == PinsOf(config)
    IN  /\ upc = "gpio"
        /\ \/ /\ config.mode \notin {"UART", "SMARTCARD"} \/ "0" \in {pins[1].port, pins[2].port}
              /\ Panic
              /\ UNCHANGED <<gpio, rcc>>
           \/ /\ config.mode \in {"UART", "SMARTCARD"} /\ "0" \notin {pins[1].port, pins[2].port}
              /\ gpio' = gpio_set_config(gpio_set_config(gpio, pins[1]), pins[2])
              /\ rcc' = [rcc EXCEPT !.ahb1enr = gpio_clock(gpio_clock(@, pins[1]), pins[2])]
              /\ upc' = "baud"
        /\ UNCHANGED <<usart, nvic, cb, ptr, config, done, early, bytes>>
        /\ UNCHANGED Cpu

\* The steps that write the registers of the USART.
Write(regs) == usart' = [usart EXCEPT ![config.usart] = regs]
RegsStep ==
    /\ UNCHANGED <<rcc, gpio, nvic, cb, ptr, config, done, early, bytes>>
    /\ UNCHANGED Cpu

\* usart_set_baudrate, then usart_enable.
BaudAndEnable ==
    /\ Step("baud", "cr1")
    /\ Write([usart[config.usart] EXCEPT !.brr = usart_set_baudrate(config),
                                         !.cr1 = set_reg_bits(@, {CR1.UE})])
    /\ RegsStep

\* The options turn the receiver and its interrupt on; UE is not among them.
Control1 ==
    /\ Step("cr1", "cr2")
    /\ Write([usart[config.usart] EXCEPT !.cr1 =
                set_reg(set_reg(set_reg(@, config.parity, USART_CONFIG_PARITY),
                                config.word_length, USART_CONFIG_WORD_LENGTH_BITS),
                        config.options_cr1, USART_CONFIG_OPTIONS_CR1)])
    /\ RegsStep

Control2 ==
    /\ Step("cr2", "cr3")
    /\ Write([usart[config.usart] EXCEPT !.cr2 =
                set_reg(set_reg(@, config.stop_bits, USART_CONFIG_STOP_BITS),
                        config.options_cr2, USART_CONFIG_OPTIONS_CR2)])
    /\ RegsStep

\* Asked for something that the USART does not have: panic, with it switched on.
Control3 ==
    LET refused == \/ config.usart \in {4, 5} /\ config.hw_flow_control \cap Cr3NotOn45 # {}
                   \/ config.usart = 5 /\ config.hw_flow_control \cap Cr3NotOn5 # {}
    IN  /\ upc = "cr3"
        /\ \/ refused /\ Panic /\ UNCHANGED usart
           \/ /\ ~refused /\ upc' = "gtpr"
              /\ Write([usart[config.usart] EXCEPT !.cr3 =
                          set_reg(@, config.hw_flow_control, USART_CONFIG_HW_FLW_CTRL)])
        /\ RegsStep

GuardTime ==
    LET refused == config.usart \in {4, 5} /\ config.guard_time_prescaler # {}
    IN  /\ upc = "gtpr"
        /\ \/ refused /\ Panic /\ UNCHANGED usart
           \/ /\ ~refused /\ upc' = "sr"
              /\ Write([usart[config.usart] EXCEPT !.gtpr =
                          set_reg(@, config.guard_time_prescaler, USART_CONFIG_GUARD_TIME_PRESCALER)])
        /\ RegsStep

\* A byte that is already there is dropped here; an overrun stays.
ClearStatus ==
    /\ Step("sr", "nvic")
    /\ Write([usart[config.usart] EXCEPT !.sr = @ \ {SR.TC, SR.RXNE, SR.CTS, SR.LIN}])
    /\ RegsStep

\* usart_callbacks_init, in its four steps: the NVIC, the handler, getc, putc.
NVIC_EnableIRQ ==
    /\ Step("nvic", "cb")
    /\ nvic' = IF config.callback_irq_handler # NULL THEN nvic \cup {config.usart} ELSE nvic
    /\ UNCHANGED <<rcc, gpio, usart, cb, ptr, config, done, early, bytes>>
    /\ UNCHANGED Cpu

RegisterHandler ==
    /\ Step("cb", "getc")
    /\ cb' = IF config.callback_irq_handler # NULL
             THEN [cb EXCEPT ![config.usart] = config.callback_irq_handler] ELSE cb
    /\ UNCHANGED <<rcc, gpio, usart, nvic, ptr, config, done, early, bytes>>
    /\ UNCHANGED Cpu

RegisterGetc ==
    /\ Step("getc", "putc")
    /\ ptr' = IF config.callback_usart_getc_ptr # NULL
              THEN [ptr EXCEPT ![config.callback_usart_getc_ptr] = config.usart] ELSE ptr
    /\ UNCHANGED <<rcc, gpio, usart, nvic, cb, config, done, early, bytes>>
    /\ UNCHANGED Cpu

\* Faulty variant: the putc pointer is not stored.
NoRegisterPutc ==
    /\ Step("putc", "idle")
    /\ done' = [done EXCEPT ![config.usart] = config]
    /\ UNCHANGED <<rcc, gpio, usart, nvic, cb, config, early, bytes, ptr>>
    /\ UNCHANGED Cpu

RegisterPutc ==
    /\ Step("putc", "idle")
    /\ ptr' = IF config.callback_usart_putc_ptr # NULL
              THEN [ptr EXCEPT ![config.callback_usart_putc_ptr] = config.usart] ELSE ptr
    /\ done' = [done EXCEPT ![config.usart] = config]
    /\ UNCHANGED <<rcc, gpio, usart, nvic, cb, config, early, bytes>>
    /\ UNCHANGED Cpu

usart_init_step ==
    \/ usart_clock_init \/ init_gpio \/ BaudAndEnable \/ Control1 \/ Control2
    \/ Control3 \/ GuardTime \/ ClearStatus
    \/ NVIC_EnableIRQ \/ RegisterHandler \/ RegisterGetc \/ RegisterPutc

---------------------------------------------------------------------------
(* The other operations.  The waits for TXE and RXNE have no timeout.      *)

IoStep ==
    /\ UNCHANGED <<rcc, gpio, nvic, cb, ptr, config, upc, done, early, bytes>>
    /\ UNCHANGED Cpu

usart_putc(u) ==
    /\ SR.TXE \in usart[u].sr
    /\ usart' = [usart EXCEPT ![u].sr = @ \ {SR.TXE, SR.TC}]

\* Status, then data register: clears RXNE and an overrun.  Which character it is
\* is the caller's choice from Chars.
usart_getc(u) ==
    /\ SR.RXNE \in usart[u].sr
    /\ usart' = [usart EXCEPT ![u].sr = @ \ {SR.RXNE, SR.OVERRUN}]

\* usart_enable_dma takes any USART, USART5 too.
usart_enable_dma(u)  == usart' = [usart EXCEPT ![u].cr3 = set_reg_bits(@, {CR3.DMAT})]
usart_disable_dma(u) == usart' = [usart EXCEPT ![u].cr3 = clear_reg_bits(@, {CR3.DMAT})]
usart_disable(u)     == usart' = [usart EXCEPT ![u].cr1 = clear_reg_bits(@, {CR1.UE})]

---------------------------------------------------------------------------
(* The hardware. *)

Listens(u) == {CR1.UE, CR1.RE} \subseteq usart[u].cr1 /\ Clocked(u)

\* A byte that finds the data register full is lost and counted as an overrun.
ByteArrives(u) ==
    /\ Listens(u) /\ bytes < MaxBytes
    /\ usart' = [usart EXCEPT ![u].sr =
                    @ \cup {IF SR.RXNE \in @ THEN SR.OVERRUN ELSE SR.RXNE}]
    /\ early' = [early EXCEPT ![u] = IF done[u] # NULL THEN @ ELSE @ + 1]
    /\ bytes' = bytes + 1
    /\ UNCHANGED <<rcc, gpio, nvic, cb, ptr, config, upc, done>>
    /\ UNCHANGED Cpu

ByteSent(u) ==
    /\ {CR1.UE, CR1.TE} \subseteq usart[u].cr1 /\ SR.TXE \notin usart[u].sr
    /\ usart' = [usart EXCEPT ![u].sr = @ \cup {SR.TXE, SR.TC}]
    /\ IoStep

\* The interrupts that the driver's users ask for: receive, and no other.
Requests(u) ==
    /\ u \in nvic
    /\ CR1.RXNEIE \in usart[u].cr1 /\ {SR.RXNE, SR.OVERRUN} \cap usart[u].sr # {}

=============================================================================
