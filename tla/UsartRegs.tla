----------------------------- MODULE UsartRegs -----------------------------
(***************************************************************************)
(* The bits of the registers of a USART (stm32f4xx_usart_regs.h), by their *)
(* position, and the masks through which usart_init writes a configuration *)
(* (stm32f4xx_usart.h).                                                    *)
(***************************************************************************)
EXTENDS Registers

SR == [PE |-> 0, FE |-> 1, NF |-> 2, OVERRUN |-> 3, IDLE |-> 4, RXNE |-> 5,
       TC |-> 6, TXE |-> 7, LIN |-> 8, CTS |-> 9]

\* IDLEIE is bit 4 of the register, and 5 in the header.
CR1 == [SBK |-> 0, RWU |-> 1, RE |-> 2, TE |-> 3, IDLEIE |-> 5, RXNEIE |-> 5,
        TCIE |-> 6, TXEIE |-> 7, PEIE |-> 8, PS |-> 9, PCE |-> 10, WAKE |-> 11,
        M |-> 12, UE |-> 13, OVER8 |-> 15]

CR2 == [LBDL |-> 5, LBDIE |-> 6, LBCL |-> 8, CPHA |-> 9, CPOL |-> 10,
        CLKEN |-> 11, STOP |-> 12, LINEN |-> 14]

CR3 == [EIE |-> 0, IREN |-> 1, IRLP |-> 2, HDSEL |-> 3, NACK |-> 4, SCEN |-> 5,
        DMAR |-> 6, DMAT |-> 7, RTSE |-> 8, CTSE |-> 9, CTSIE |-> 10, ONEBIT |-> 11]

GTPR == [PSC |-> Field(0, 8), GT |-> Field(8, 8)]

\* USART_GTPR_PSC_SMARTCARD_DIVn: half of n, but for DIV18, which is DIV16.
PSC_SMARTCARD_DIV == [n \in {2 * k : k \in 1..31} |-> IF n = 18 THEN 8 ELSE n \div 2]

USART_CONFIG_WORD_LENGTH_BITS == {CR1.M}
USART_CONFIG_PARITY           == {CR1.PS, CR1.PCE}
USART_CONFIG_STOP_BITS        == Field(CR2.STOP, 2)
USART_CONFIG_OPTIONS_CR1 ==
    {CR1.OVER8, CR1.WAKE, CR1.PEIE, CR1.TXEIE, CR1.TCIE, CR1.RXNEIE,
     CR1.IDLEIE, CR1.TE, CR1.RE, CR1.RWU, CR1.SBK}
USART_CONFIG_OPTIONS_CR2 ==
    {CR2.LINEN, CR2.CLKEN, CR2.CPOL, CR2.CPHA, CR2.LBCL, CR2.LBDIE, CR2.LBDL}
USART_CONFIG_HW_FLW_CTRL == {CR3[f] : f \in DOMAIN CR3}
USART_CONFIG_GUARD_TIME_PRESCALER == GTPR.GT \cup GTPR.PSC

\* set_reg with one of these masks, whose positions are all 0.
set_reg(reg, value, mask) == set_reg_value(reg, value, mask, 0)

=============================================================================
