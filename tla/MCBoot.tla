------------------------------- MODULE MCBoot -------------------------------
(***************************************************************************)
(* Instance of Boot for TLC: the console and protocol lines of product.h   *)
(* and two other pairs, the four settings of the HSE switches, and calls   *)
(* of usart_init that reach each refusal.                                  *)
(***************************************************************************)
EXTENDS Boot

MCBuilds   == [hse : BOOLEAN, prod_hse : BOOLEAN]
MCProducts == {<<1, 4>>, <<6, 5>>}
MCNewline  == "\n"
MCChars    == {"c", "\n"}
MCLengths  == 0..2

Polled(u) == [LineConfig(u, NULL, NULL, NULL) EXCEPT !.options_cr1 = {CR1.TE, CR1.RE}]

Smartcard(u) ==
    [Polled(u) EXCEPT !.mode = "SMARTCARD", !.baudrate = 9600,
                      !.parity = {CR1.PCE}, !.word_length = {CR1.M},
                      !.stop_bits = Field(CR2.STOP, 2), !.options_cr2 = {CR2.CLKEN},
                      !.hw_flow_control = {CR3.SCEN, CR3.NACK},
                      !.guard_time_prescaler = BitsOf(PSC_SMARTCARD_DIV[10])]

MCExtraConfigs ==
    {Polled(2), Smartcard(6), Smartcard(5), [Polled(2) EXCEPT !.mode = "CUSTOM"],
     [Polled(4) EXCEPT !.hw_flow_control = {CR3.CTSE}],
     [Polled(4) EXCEPT !.guard_time_prescaler = {0}],
     [Polled(5) EXCEPT !.hw_flow_control = {CR3.DMAR}],
     [Polled(3) EXCEPT !.hw_flow_control = {CR3.DMAR}, !.baudrate = 300]}

\* The hypothesis of BaudSafe.
ASSUME ConfigsUnambiguous == \A c \in MCExtraConfigs : Unambiguous(c)

=============================================================================
