------------------------------- MODULE Clock -------------------------------
(***************************************************************************)
(* system_init (init.c): reset of the clock tree, oscillator, PLL, flash   *)
(* wait states, switch to the PLL, vector table.  Interrupts are masked    *)
(* throughout.  The oscillators, the PLL and the clock switch are the      *)
(* environment: they follow the registers some time later, or never.       *)
(***************************************************************************)
EXTENDS Registers

CONSTANTS
    STARTUP_TIMEOUT,  \* HSI_STARTUP_TIMEOUT and HSE_STARTUP_TIMEOUT
    Builds            \* the values of ENABLE_HSE and PROD_ENABLE_HSE considered

ASSUME ClockAssumption ==
    /\ STARTUP_TIMEOUT \in Nat \ {0}
    /\ Builds \subseteq [hse : BOOLEAN, prod_hse : BOOLEAN]

VARIABLES
    build,      \* ENABLE_HSE and PROD_ENABLE_HSE are two different switches
    rcc,        \* the RCC registers
    pwr_cr,     \* PWR_CR
    flash_acr,  \* FLASH_ACR
    vtor,       \* "reset", or "table" once it points to the program's vectors
    osc,        \* StartUpCounter and status of SetSysClock
    cpc         \* where system_init stands

clockVars == <<build, rcc, pwr_cr, flash_acr, vtor, osc, cpc>>

CR   == [HSION |-> 0, HSIRDY |-> 1, HSEON |-> 16, HSERDY |-> 17, HSEBYP |-> 18,
         CSSON |-> 19, PLLON |-> 24, PLLRDY |-> 25]
PLLSRC   == 22                      \* RCC_PLLCFGR: 1 for HSE, 0 for HSI
SW       == Field(0, 2)             \* RCC_CFGR
SWS      == Field(2, 2)
SW_PLL   == {1}
SWS_PLL  == {3}
HPRE_DIV1  == {}                    \* HCLK = SYSCLK
HPRE2_DIV2 == {15}                  \* PCLK2 = HCLK / 2
HPRE1_DIV4 == {12, 10}              \* PCLK1 = HCLK / 4
PWREN    == 28                      \* RCC_APB1ENR
VOS      == 14                      \* PWR_CR
FLASH_ACR == [ICEN |-> 9, DCEN |-> 10, LATENCY_5WS |-> {0, 2}]

PROD_PLL_M == 8
PROD_PLL_N == 168
PROD_PLL_P == 2
PROD_PLL_Q == 7

\* The value SetSysClock writes to RCC_PLLCFGR.
PllConfig(hse) ==
    BitsOf(PROD_PLL_M) \cup Shift(BitsOf(PROD_PLL_N), 6)
      \cup Shift(BitsOf((PROD_PLL_P \div 2) - 1), 16) \cup Shift(BitsOf(PROD_PLL_Q), 24)
      \cup (IF hse THEN {PLLSRC} ELSE {})

\* After a reset the core runs on HSI; everything but PLLCFGR is 0.
ClockInit ==
    /\ build \in Builds
    /\ rcc = [cr |-> {CR.HSION, CR.HSIRDY}, pllcfgr |-> BitsOf(603992080), cfgr |-> {},
              cir |-> {}, ahb1enr |-> {}, apb1enr |-> {}, apb2enr |-> {}]
    /\ pwr_cr = {} /\ flash_acr = {} /\ vtor = "reset"
    /\ osc = [count |-> 0, status |-> FALSE]
    /\ cpc = "reset"

At(from, to) == cpc = from /\ cpc' = to

\* Back to the state of a reset, whatever ran before.
ResetClock ==
    /\ At("reset", "osc_on")
    /\ rcc' = [rcc EXCEPT !.cr = (@ \cup {CR.HSION})
                                   \ {CR.HSEON, CR.CSSON, CR.PLLON, CR.HSEBYP},
                          !.cfgr = {},
                          !.pllcfgr = BitsOf(603992080)]   \* 0x24003010
    /\ UNCHANGED <<build, pwr_cr, flash_acr, vtor, osc>>

\* SetSysClock: the oscillator that ENABLE_HSE chooses.
OscOn ==
    /\ At("osc_on", "osc_wait")
    /\ rcc' = [rcc EXCEPT !.cr = set_reg_bits(@, {IF build.hse THEN CR.HSEON ELSE CR.HSION})]
    /\ UNCHANGED <<build, pwr_cr, flash_acr, vtor, osc>>

\* One turn of the do ... while.
OscWait ==
    LET ready == (IF build.hse THEN CR.HSERDY ELSE CR.HSIRDY) \in rcc.cr
        count == osc.count + 1
    IN  /\ cpc = "osc_wait"
        /\ osc' = [count |-> count, status |-> ready]
        /\ cpc' = IF ready THEN "power"
                  ELSE IF count = STARTUP_TIMEOUT THEN "vectors" ELSE "osc_wait"
        /\ UNCHANGED <<build, rcc, pwr_cr, flash_acr, vtor>>

\* Regulator voltage, bus prescalers, PLL.
PowerUp ==
    /\ At("power", "pll_on")
    /\ rcc' = [rcc EXCEPT
                 !.apb1enr = set_reg_bits(@, {PWREN}),
                 !.cfgr = set_reg_bits(@, HPRE_DIV1 \cup HPRE2_DIV2 \cup HPRE1_DIV4)]
    /\ pwr_cr' = set_reg_bits(pwr_cr, {VOS})
    /\ UNCHANGED <<build, flash_acr, vtor, osc>>

PllOn ==
    /\ At("pll_on", "pll_wait")
    /\ rcc' = [rcc EXCEPT !.pllcfgr = PllConfig(build.prod_hse),
                          !.cr = set_reg_bits(@, {CR.PLLON})]
    /\ UNCHANGED <<build, pwr_cr, flash_acr, vtor, osc>>

\* Faulty variant: the switch to the PLL comes before the wait states.
EagerPllWait ==
    /\ cpc = "pll_wait"
    /\ cpc' = IF CR.PLLRDY \in rcc.cr THEN "flash" ELSE "pll_wait"
    /\ rcc' = IF CR.PLLRDY \in rcc.cr
              THEN [rcc EXCEPT !.cfgr = set_reg_bits(clear_reg_bits(@, SW), SW_PLL)] ELSE rcc
    /\ UNCHANGED <<build, pwr_cr, flash_acr, vtor, osc>>

\* One turn of the wait, which has no timeout; nor has SwitchWait.
PllWait ==
    /\ cpc = "pll_wait"
    /\ cpc' = IF CR.PLLRDY \in rcc.cr THEN "flash" ELSE "pll_wait"
    /\ UNCHANGED <<build, rcc, pwr_cr, flash_acr, vtor, osc>>

FlashWaitStates ==
    /\ At("flash", "switch")
    /\ flash_acr' = {FLASH_ACR.ICEN, FLASH_ACR.DCEN} \cup FLASH_ACR.LATENCY_5WS
    /\ UNCHANGED <<build, rcc, pwr_cr, vtor, osc>>

SwitchToPll ==
    /\ At("switch", "switch_wait")
    /\ rcc' = [rcc EXCEPT !.cfgr = set_reg_bits(clear_reg_bits(@, SW), SW_PLL)]
    /\ UNCHANGED <<build, pwr_cr, flash_acr, vtor, osc>>

SwitchWait ==
    /\ cpc = "switch_wait"
    /\ cpc' = IF rcc.cfgr \cap SWS = SWS_PLL THEN "vectors" ELSE "switch_wait"
    /\ UNCHANGED <<build, rcc, pwr_cr, flash_acr, vtor, osc>>

\* set_vtor, then the clock interrupts are cleared.
SetVectors ==
    /\ At("vectors", "done")
    /\ vtor' = "table"
    /\ rcc' = [rcc EXCEPT !.cir = {}]
    /\ UNCHANGED <<build, pwr_cr, flash_acr, osc>>

system_init ==
    \/ ResetClock \/ OscOn \/ OscWait \/ PowerUp \/ PllOn \/ PllWait
    \/ FlashWaitStates \/ SwitchToPll \/ SwitchWait \/ SetVectors

---------------------------------------------------------------------------
(* The hardware. *)

PllSource == IF PLLSRC \in rcc.pllcfgr THEN CR.HSERDY ELSE CR.HSIRDY

\* A crystal may be missing: nothing makes this step happen.
HseStarts ==
    /\ CR.HSEON \in rcc.cr /\ CR.HSERDY \notin rcc.cr
    /\ rcc' = [rcc EXCEPT !.cr = @ \cup {CR.HSERDY}]
    /\ UNCHANGED <<build, pwr_cr, flash_acr, vtor, osc, cpc>>

PllLocks ==
    /\ CR.PLLON \in rcc.cr /\ PllSource \in rcc.cr /\ CR.PLLRDY \notin rcc.cr
    /\ rcc' = [rcc EXCEPT !.cr = @ \cup {CR.PLLRDY}]
    /\ UNCHANGED <<build, pwr_cr, flash_acr, vtor, osc, cpc>>

ClockSwitches ==
    /\ rcc.cfgr \cap SW = SW_PLL /\ CR.PLLRDY \in rcc.cr
    /\ rcc.cfgr \cap SWS # SWS_PLL
    /\ rcc' = [rcc EXCEPT !.cfgr = (@ \ SWS) \cup SWS_PLL]
    /\ UNCHANGED <<build, pwr_cr, flash_acr, vtor, osc, cpc>>

clockHardware == HseStarts \/ PllLocks \/ ClockSwitches

\* The frequencies that the registers produce, in Hz.
OnPll == rcc.cfgr \cap SWS = SWS_PLL

PllField(pos, w) == NumOf(get_reg_value(rcc.pllcfgr, Field(pos, w), pos))

Hclk ==
    IF OnPll
    THEN (((IF PLLSRC \in rcc.pllcfgr THEN 8000000 ELSE 16000000) \div PllField(0, 6))
            * PllField(6, 9)) \div (2 * (PllField(16, 2) + 1))
    ELSE 16000000

\* PPRE1 and PPRE2: 0xx is 1, then 2, 4, 8, 16.
BusDivider(pos) ==
    LET f == NumOf(get_reg_value(rcc.cfgr, Field(pos, 3), pos))
    IN  IF f < 4 THEN 1 ELSE 2^(f - 3)

Pclk1 == Hclk \div BusDivider(10)
Pclk2 == Hclk \div BusDivider(13)

=============================================================================
