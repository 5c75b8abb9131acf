------------------------------- MODULE Board -------------------------------
(***************************************************************************)
(* The drivers of the board next to the USARTs: pins (gpio.c), LEDs        *)
(* (leds.c, toggle_leds of main.c), external interrupts and the            *)
(* millisecond counter.  One thread calls them, one call at a time, while  *)
(* the interrupts of the EXTI lines and of SysTick come between its steps. *)
(***************************************************************************)
EXTENDS Exti, SysTick, SequencesExt

CONSTANTS
    Configs,        \* arguments of gpio_set_config
    Registrations,  \* arguments of gpio_register_exti_handler: <<gpio, events, handler>>
    Delays,         \* arguments of delay
    Edges,          \* edges that may come: <<port, line, direction>>
    Watched,        \* pins <<port, pin>> that ImplementsPins follows
    LedWord,        \* 2^32, the modulus of led_num
    CallCost,       \* what a call costs; toggle_leds and leds_blinky cost 1
    MaxCalls        \* what all calls together may cost

ASSUME BoardAssumption ==
    /\ LedWord \in Nat \ {0} /\ LedWord % 4 = 0 /\ CallCost \in Nat /\ MaxCalls \in Nat
    /\ Delays \subseteq Nat
    /\ Watched \subseteq Ports \X (0..15)
    /\ \A c \in Configs :         \* the values that gpio.h names fit the fields
         /\ c.pin \in Nat /\ c.afr \in 0..15
         /\ {c.mode, c.speed, c.pupd} \subseteq 0..3
         /\ {c.type, c.od, c.bsr_r, c.bsr_s, c.lck} \subseteq 0..1

VARIABLES
    gpio,       \* registers of the ports
    led_num,    \* main.c
    todo,       \* LED writes left of the call that runs: <<pin, value>>
    lit,        \* (specification only) LEDs that the calls, as documented, leave on
    toggled,    \* (specification only) LEDs not written since their last leds_toggle
    calls       \* cost of the calls so far

vars == <<table, exticr, imr, rtsr, ftsr, pr, iser, reg, ret, edges, owed, asked, granted,
          ticks, stk, dl, began, torn, gpio, led_num, todo, lit, toggled, calls>>

\* leds.c: LED3, LED4, LED5 and LED6 are on port D.
LedPin == <<13, 12, 14, 15>>
LedPins == {LedPin[i] : i \in 1..4}

LedConfig(pin) ==
    [port |-> "D", pin |-> pin, set_mask |-> {"mode", "pupd", "speed", "type"},
     mode |-> Mode.PIN_OUTPUT_MODE, pupd |-> Pull.GPIO_PULLDOWN,
     speed |-> Speed.PIN_HIGH_SPEED, type |-> OutType.PIN_OTYPER_PP,
     od |-> 0, bsr_r |-> 0, bsr_s |-> 0, lck |-> 0, afr |-> 0]

leds_init(g) ==
    LET led(i, h) == gpio_set_config(h, LedConfig(LedPin[i]))
    IN  led(4, led(3, led(2, led(1, g))))

Init ==
    /\ ExtiInit /\ SysTickInit
    /\ gpio = leds_init([p \in Ports |-> PortReset])
    /\ led_num = 0 /\ todo = <<>> /\ lit = {} /\ toggled = {} /\ calls = 0

---------------------------------------------------------------------------
(* The thread.  An interrupt that is requested goes first.                 *)

ThreadRuns == \A v \in Vectors : ~Requested(v)
Idle == reg.step = "none" /\ ~Delaying /\ todo = <<>>

Call(cost) == ThreadRuns /\ Idle /\ calls + cost <= MaxCalls /\ calls' = calls + cost

ledVars == <<gpio, led_num, todo, lit, toggled>>

CallConfig ==
    /\ Call(CallCost)
    /\ \E c \in Configs : gpio' = gpio_set_config(gpio, c)
    /\ UNCHANGED <<led_num, todo, lit, toggled>> /\ UNCHANGED extiVars /\ UNCHANGED tickVars

CallRegister ==
    /\ Call(CallCost)
    /\ \E r \in Registrations : RegisterBegin(r[1], r[2], r[3])
    /\ UNCHANGED ledVars /\ UNCHANGED tickVars

RunRegister ==
    /\ ThreadRuns /\ register_step
    /\ UNCHANGED calls /\ UNCHANGED ledVars /\ UNCHANGED tickVars

CallDelay ==
    /\ Call(CallCost)
    /\ systick_init \/ \E ms \in Delays : delay(ms)
    /\ UNCHANGED ledVars /\ UNCHANGED extiVars

RunDelay ==
    /\ ThreadRuns /\ delay_step
    /\ UNCHANGED calls /\ UNCHANGED ledVars /\ UNCHANGED extiVars

\* gpio_get of an output, which reads back what is driven.
gpio_get(pin) == IF pin \in gpio["D"].odr THEN 1 ELSE 0

NextLedNum == (led_num + 1) % LedWord

\* toggle_leds: one LED on, the three others off, in the order LED3 to LED6.
toggle_leds ==
    LET on == (led_num % 4) + 1
    IN  /\ todo' = [i \in 1..4 |-> <<LedPin[i], IF i = on THEN 1 ELSE 0>>]
        /\ led_num' = NextLedNum
        /\ lit' = {LedPin[on]}

\* leds_blinky: all on, all off; its two pauses change nothing.
leds_blinky ==
    /\ todo' = [i \in 1..8 |-> <<LedPin[((i - 1) % 4) + 1], IF i <= 4 THEN 1 ELSE 0>>]
    /\ lit' = {}
    /\ UNCHANGED led_num

CallLeds ==
    /\ Call(1)
    /\ toggle_leds \/ leds_blinky
    /\ UNCHANGED <<gpio, toggled>> /\ UNCHANGED extiVars /\ UNCHANGED tickVars

\* leds_toggle writes the state that it reads, which no interrupt changes in
\* between; the header (leds.h:24) says that the LED changes.
leds_toggle ==
    /\ Call(CallCost)
    /\ \E pin \in LedPins :
          /\ gpio' = gpio_set_value(gpio, LedConfig(pin), gpio_get(pin))
          /\ lit' = IF pin \in lit THEN lit \ {pin} ELSE lit \cup {pin}
          /\ toggled' = toggled \cup {pin}
    /\ UNCHANGED <<led_num, todo>> /\ UNCHANGED extiVars /\ UNCHANGED tickVars

\* leds_on or leds_off.
RunLeds ==
    /\ ThreadRuns /\ todo # <<>>
    /\ LET pin == Head(todo)[1]
       IN  /\ gpio' = gpio_set_value(gpio, LedConfig(pin), Head(todo)[2])
           /\ toggled' = toggled \ {pin}
    /\ todo' = Tail(todo)
    /\ UNCHANGED <<led_num, lit, calls>> /\ UNCHANGED extiVars /\ UNCHANGED tickVars

\* A call that began goes on.
run == RunRegister \/ RunDelay \/ RunLeds

thread == CallConfig \/ CallRegister \/ CallDelay \/ CallLeds \/ leds_toggle \/ run

---------------------------------------------------------------------------
(* Interrupts and the outside. *)

exti ==
    /\ \E v \in Vectors : EXTI_IRQHandler(v)
    /\ UNCHANGED calls /\ UNCHANGED ledVars /\ UNCHANGED tickVars

systick ==
    /\ SysTick_Handler
    /\ UNCHANGED calls /\ UNCHANGED ledVars /\ UNCHANGED extiVars

outside ==
    /\ \E e \in Edges : Edge(e[1], e[2], e[3])
    /\ UNCHANGED calls /\ UNCHANGED ledVars /\ UNCHANGED tickVars

\* A delay that waits for ticks that MaxTicks cuts off, a storm, or all calls made.
Next == thread \/ exti \/ systick \/ outside

\* The processor takes the interrupts that are requested, and a call that began goes on;
\* whether a call, an edge or a tick comes at all is left open.
Fairness == WF_vars(run) /\ WF_vars(exti)

Spec == Init /\ [][Next]_vars /\ Fairness

---------------------------------------------------------------------------
(* Properties. *)

\* The pins as the abstract bank sees them.
Settings == [p \in Watched |-> PinSettings(gpio[p[1]], p[2])]

\* What a call asks of the bank: BSRR, of which the driver writes the low half
\* only, can set an output and not reset it.
RequestOf(c) ==
    LET fields == c.set_mask \cap DOMAIN PinSettings(PortReset, 0)
        sets   == \/ "bsr_r" \in c.set_mask /\ c.bsr_r = 1
                  \/ "bsr_s" \in c.set_mask /\ c.bsr_s = 1
    IN  <<<<c.port, c.pin>>,
          [f \in fields \cup (IF sets THEN {"od"} ELSE {}) |->
             BitsOf(IF f = "od" /\ sets THEN 1 ELSE c[f])]>>

BankRequests ==
    {RequestOf(c) : c \in {d \in Configs : gpio_accepts(d)}}
      \cup {<<<<"D", pin>>, [f \in {"od"} |-> BitsOf(v)]>> : pin \in LedPins, v \in {0, 1}}

\* The pins of the LEDs start as leds_init leaves them.
BankInitial ==
    LET led == [mode |-> BitsOf(Mode.PIN_OUTPUT_MODE), type |-> {},
                speed |-> BitsOf(Speed.PIN_HIGH_SPEED), pupd |-> BitsOf(Pull.GPIO_PULLDOWN),
                od |-> {}, lck |-> {}, afr |-> {}]
    IN  [p \in Watched |-> IF p \in {"D"} \X LedPins THEN led ELSE PinSettings(PortReset, 0)]

Bank == INSTANCE PinBank WITH settings <- Settings, Requests <- BankRequests,
                              Initial <- BankInitial

\* The registers of the ports, their packed fields and their two alternate
\* function registers, behave as one settings record per pin (gpio.c:11-141):
\* no call disturbs another pin or another field.  It is Bank!Spec; the guard only
\* spares TLC the steps that write no register, which stutter.
ImplementsPins == Bank!Init /\ [][gpio' # gpio => [Bank!Next]_Settings]_vars

\* Between two calls the LEDs that are on are those that leds.h says the calls
\* leave on: the one of the last toggle_leds, none after leds_blinky, whatever
\* led_num wraps to; and during a toggle_leds never more than two are.  Of a LED
\* given to leds_toggle nothing is said until it is written again: the header
\* says it changes (leds.h:24), the code writes back what it read (leds.c:50).
OneLed ==
    LET on == gpio["D"].odr \cap LedPins
    IN  /\ todo = <<>> => on \ toggled = lit \ toggled
        /\ lit # {} => Cardinality(on \ toggled) <= 2

\* A registration that failed, even at its last step (gpio.c:384), lets no line
\* interrupt that could not before: only lines granted once can.
OnlyGranted == imr \cap (rtsr \cup ftsr) \subseteq granted

\* A vector that is requested and that no handler will ever acknowledge: the
\* interrupt comes again for ever, and the thread and the vectors after it stand still.
Storms(v) == Requested(v) /\ Called(v) \cap Clearing = {}
Frozen == \E v \in Vectors : Storms(v)

\* The handler of a pin is called for an edge on it, whatever the thread does
\* meanwhile, the pin being the last one registered on its line.  Two exceptions:
\* the line is not connected to the pin's port (gpio.c:367, RegisteredPinRouted),
\* or a vector that goes first has no handler that clears EXTI_PR (gpio.c:173).
EdgeServed ==
    \A pin \in {<<e[1], e[2]>> : e \in Edges} :
        (pin \in owed /\ LineSees(pin[2]) = pin[1])
            ~> (pin \notin owed \/ \E v \in Vectors : v < IRQn(pin[2]) /\ Storms(v))

\* delay(ms) never ends before ms ticks have come (systick.c:20-25), unless the low
\* word of the counter was carried into the high one between two loads.
DelayNotShort == dl.op = "done" /\ ~torn => ticks - began >= dl.ms

\* Once its ticks have come a delay ends, even across a carry, unless that fell
\* between two loads or an interrupt storms.
DelayEnds ==
    (dl.op \in {"check", "check2"} /\ ticks >= dl.start + dl.ms) ~> (~Delaying \/ torn \/ Frozen)

\* gpio.c:366, "Enable the EXTI line in the proper SYSCFG EXTI register": the
\* line of a registered pin is connected to the pin's port.
RegisteredPinRouted ==
    \A l \in granted : asked[l] # NULL => LineSees(l) = asked[l]

=============================================================================
