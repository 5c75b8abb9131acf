-------------------------------- MODULE Exti --------------------------------
(***************************************************************************)
(* External interrupts of the GPIO driver (gpio.c): the registration of a  *)
(* handler for a pin, step by step, and the dispatch of the interrupts.    *)
(* The edges on the pins and the handlers themselves are the environment.  *)
(***************************************************************************)
EXTENDS GpioRegs

CONSTANTS
    NULL,       \* the null pointer
    Handlers,   \* functions that callers register
    Clearing,   \* those of them that clear EXTI_PR, which the driver never does
    MaxEdges    \* edges on the pins

ASSUME ExtiAssumption == Clearing \subseteq Handlers /\ NULL \notin Handlers /\ MaxEdges \in Nat

VARIABLES
    table,      \* cb_gpio_extiN_irq_handlers: one entry per line and port
    exticr,     \* SYSCFG_EXTICR1 to 4
    imr, rtsr, ftsr, pr,    \* the EXTI registers
    iser,       \* the enable bits of the NVIC, in words of 32
    reg,        \* the registration that runs: its arguments and its step
    ret,        \* what the last one returned
    edges,      \* edges so far
    owed,       \* (specification only) pins <<port, line>> whose handler is due for an edge
    asked,      \* (specification only) per line: the port registered last, or NULL
    granted     \* (specification only) lines for which a registration returned 0

extiVars == <<table, exticr, imr, rtsr, ftsr, pr, iser, reg, ret, edges,
              owed, asked, granted>>

Lines == 0..15
NoReg == [step |-> "none"]

ExtiInit ==
    /\ table = [l \in Lines |-> [p \in Ports |-> NULL]]
    /\ exticr = [n \in 1..4 |-> {}]
    /\ imr = {} /\ rtsr = {} /\ ftsr = {} /\ pr = {}
    /\ iser = [w \in 0..2 |-> {}]
    /\ reg = NoReg /\ ret = 0 /\ edges = 0
    /\ owed = {} /\ asked = [l \in Lines |-> NULL] /\ granted = {}

EXTI0_IRQn     == 6
EXTI9_5_IRQn   == 23
EXTI15_10_IRQn == 40
IRQn(line) ==
    IF line <= 4 THEN EXTI0_IRQn + line ELSE IF line <= 9 THEN EXTI9_5_IRQn ELSE EXTI15_10_IRQn

\* Faulty variant: the word is always the first.
FirstWordIRQ(n) == [iser EXCEPT ![0] = @ \cup {n % 32}]

\* NVIC_ISER[n >> 5] = 1 << (n & 31): a 0 written there changes nothing.
NVIC_EnableIRQ(n) == [iser EXCEPT ![n \div 32] = @ \cup {n % 32}]

\* The number of a port in EXTICR, and the port that a line is connected to there.
PortNumber == [A |-> 0, B |-> 1, C |-> 2, D |-> 3, E |-> 4, F |-> 5, G |-> 6, H |-> 7, I |-> 8]

LineSees(line) ==
    LET pos == 4 * (line % 4)
        n   == NumOf(get_reg_value(exticr[(line \div 4) + 1], Field(pos, 4), pos))
    IN  IF n <= 8 THEN CHOOSE p \in Ports : PortNumber[p] = n ELSE "none"

---------------------------------------------------------------------------
(* gpio_register_exti_handler *)

Return(r) == ret' = r /\ reg' = NoReg
RegStep(from, to) == reg.step = from /\ reg' = [reg EXCEPT !.step = to]

\* The checks, then the handler goes into the table.
RegisterBegin(c, events, handler) ==
    /\ reg.step = "none"
    /\ \/ /\ c.mode # Mode.PIN_INPUT_MODE \/ handler = NULL \/ c.pin > 15 \/ c.port \notin Ports
          /\ Return(-1)
          /\ UNCHANGED table
       \/ /\ c.mode = Mode.PIN_INPUT_MODE /\ handler # NULL /\ c.pin <= 15 /\ c.port \in Ports
          /\ reg' = [step |-> "nvic", port |-> c.port, pin |-> c.pin, events |-> events]
          /\ table' = [table EXCEPT ![c.pin][c.port] = handler]
          /\ UNCHANGED ret
    /\ UNCHANGED <<exticr, imr, rtsr, ftsr, pr, iser, edges, owed, asked, granted>>

RegisterNvic ==
    /\ RegStep("nvic", "route")
    /\ iser' = NVIC_EnableIRQ(IRQn(reg.pin))
    /\ UNCHANGED <<table, exticr, imr, rtsr, ftsr, pr, ret, edges, owed, asked, granted>>

\* The mask is 0b1111 and the position the pin modulo 4, where the field of the
\* pin starts at four times that.
RegisterRoute ==
    LET n == (reg.pin \div 4) + 1
    IN  /\ RegStep("route", "unmask")
        /\ exticr' = [exticr EXCEPT ![n] =
             set_reg_value(@, BitsOf(PortNumber[reg.port]), BitsOf(15), reg.pin % 4)]
        /\ asked' = [asked EXCEPT ![reg.pin] = reg.port]
        /\ UNCHANGED <<table, imr, rtsr, ftsr, pr, iser, ret, edges, owed, granted>>

RegisterUnmask ==
    /\ RegStep("unmask", "edge")
    /\ imr' = set_reg_bits(imr, {reg.pin})
    /\ UNCHANGED <<table, exticr, rtsr, ftsr, pr, iser, ret, edges, owed, asked, granted>>

\* Faulty variant: an event that does not exist is taken for a rising edge.
LaxRegisterEdge ==
    /\ reg.step = "edge"
    /\ rtsr' = IF reg.events # "falling" THEN set_reg_bits(rtsr, {reg.pin}) ELSE rtsr
    /\ ftsr' = IF reg.events \in {"falling", "both"} THEN set_reg_bits(ftsr, {reg.pin}) ELSE ftsr
    /\ Return(IF reg.events \in {"rising", "falling", "both"} THEN 0 ELSE -1)
    /\ granted' = IF ret' = 0 THEN granted \cup {reg.pin} ELSE granted
    /\ UNCHANGED <<table, exticr, imr, pr, iser, edges, owed, asked>>

\* An event that does not exist is refused here, with everything else done.
RegisterEdge ==
    /\ reg.step = "edge"
    /\ rtsr' = IF reg.events \in {"rising", "both"} THEN set_reg_bits(rtsr, {reg.pin}) ELSE rtsr
    /\ ftsr' = IF reg.events \in {"falling", "both"} THEN set_reg_bits(ftsr, {reg.pin}) ELSE ftsr
    /\ Return(IF reg.events \in {"rising", "falling", "both"} THEN 0 ELSE -1)
    /\ granted' = IF ret' = 0 THEN granted \cup {reg.pin} ELSE granted
    /\ UNCHANGED <<table, exticr, imr, pr, iser, edges, owed, asked>>

register_step == RegisterNvic \/ RegisterRoute \/ RegisterUnmask \/ RegisterEdge

---------------------------------------------------------------------------
(* Edges and interrupts. *)

\* An edge on a pin: EXTI sees it if the pin's line is connected to its port;
\* the handler is due if the pin is the last one registered on its line, for
\* such an edge, whatever the line is connected to.
Edge(port, line, direction) ==
    LET enabled == line \in (IF direction = "rising" THEN rtsr ELSE ftsr)
    IN  /\ edges < MaxEdges /\ edges' = edges + 1
        /\ pr' = IF enabled /\ LineSees(line) = port THEN pr \cup {line} ELSE pr
        /\ owed' = IF enabled /\ asked[line] = port THEN owed \cup {<<port, line>>} ELSE owed
        /\ UNCHANGED <<table, exticr, imr, rtsr, ftsr, iser, reg, ret, asked, granted>>

Vectors == {IRQn(l) : l \in Lines}
LinesOf(v) == {l \in Lines : IRQn(l) = v}
Requested(v) == v % 32 \in iser[v \div 32] /\ pr \cap imr \cap LinesOf(v) # {}

\* Every handler of every line of the vector is called, whichever line and port
\* the edge came from.
CalledPins(v) == {pin \in Ports \X LinesOf(v) : table[pin[2]][pin[1]] # NULL}
Called(v) == {table[pin[2]][pin[1]] : pin \in CalledPins(v)}

\* The lowest number goes first.  Without a handler that clears EXTI_PR the same
\* interrupt comes again at once.
EXTI_IRQHandler(v) ==
    /\ Requested(v) /\ \A w \in Vectors : Requested(w) => v <= w
    /\ owed' = owed \ CalledPins(v)
    /\ pr' = IF Called(v) \cap Clearing # {} THEN pr \ LinesOf(v) ELSE pr
    /\ UNCHANGED <<table, exticr, imr, rtsr, ftsr, iser, reg, ret, edges, asked, granted>>

=============================================================================
