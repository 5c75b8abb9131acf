------------------------------ MODULE GpioRegs ------------------------------
(***************************************************************************)
(* The GPIO driver (gpio.c, gpio.h) as operators on the registers of the   *)
(* ports: a port is a record of registers, and gpio_set_config and         *)
(* gpio_set_value return the ports after the call.                         *)
(***************************************************************************)
EXTENDS Registers

\* GPIOA_BASE .. GPIOI_BASE; "0" stands for the null port of a table entry.
Ports == {"A", "B", "C", "D", "E", "F", "G", "H", "I"}

\* After reset; the debug pins A13-15 and B3-4, which nothing here touches, are
\* taken as 0 too.
PortReset == [moder |-> {}, otyper |-> {}, ospeedr |-> {}, pupdr |-> {},
              odr |-> {}, lckr |-> {}, afr_l |-> {}, afr_h |-> {}]

Pull     == [GPIO_NOPULL |-> 0, GPIO_PULLUP |-> 1, GPIO_PULLDOWN |-> 2]
Mode     == [PIN_INPUT_MODE |-> 0, PIN_OUTPUT_MODE |-> 1,
             PIN_ALTERNATE_MODE |-> 2, PIN_ANALOG_MODE |-> 3]
Speed    == [PIN_LOW_SPEED |-> 0, PIN_MEDIUM_SPEED |-> 1,
             PIN_HIGH_SPEED |-> 2, PIN_VERY_HIGH_SPEED |-> 3]
OutType  == [PIN_OTYPER_PP |-> 0, PIN_OTYPER_OD |-> 1]

\* GPIO_SET_ALL: OD, BSR_R, BSR_S and LCK are not in it.
GPIO_SET_ALL == {"mode", "type", "speed", "pupd", "afr"}

gpio_set_mode(r, pin, mode)   == set_reg_value(r, BitsOf(mode), Field(2 * pin, 2), 2 * pin)
gpio_set_type(r, pin, type)   == set_reg_value(r, BitsOf(type), {pin}, pin)
gpio_set_speed(r, pin, speed) == set_reg_value(r, BitsOf(speed), Field(2 * pin, 2), 2 * pin)
gpio_set_pupd(r, pin, pupd)   == set_reg_value(r, BitsOf(pupd), Field(2 * pin, 2), 2 * pin)

\* Faulty variant: the mask is as wide as that of a mode.
WideOd(r, pin, od) == set_reg_value(r, BitsOf(od), Field(pin, 2), pin)

gpio_set_od(r, pin, od)       == set_reg_value(r, BitsOf(od), {pin}, pin)
gpio_set_lck(r, pin, value)   == set_reg_value(r, BitsOf(value), {pin}, pin)

\* BSRR (offset 0x18) reads as 0; a 1 written to one of its bits 0-15 sets the
\* pin's output, and the driver writes no other bit of it: gpio_set_bsr_r and
\* gpio_set_bsr_s, which gpio_set_config calls with the same register, both
\* set the pin.
gpio_set_bsr(odr, pin, one) == odr \cup set_reg_value({}, BitsOf(one), {pin}, pin)
gpio_set_bsr_r(odr, pin, reset) == gpio_set_bsr(odr, pin, reset)
gpio_set_bsr_s(odr, pin, set)   == gpio_set_bsr(odr, pin, set)

\* Faulty variant: pins 8 to 15 are written to the low register too.
LowAfr(p, pin, function) ==
    [p EXCEPT !.afr_l = set_reg_value(@, BitsOf(function), Field(4 * (pin % 8), 4), 4 * (pin % 8))]

\* Pins 8 to 15 are in the next register.
gpio_set_afr(p, pin, function) ==
    IF pin > 7
    THEN [p EXCEPT !.afr_h = set_reg_value(@, BitsOf(function), Field(4 * (pin - 8), 4), 4 * (pin - 8))]
    ELSE [p EXCEPT !.afr_l = set_reg_value(@, BitsOf(function), Field(4 * pin, 4), 4 * pin)]

\* The fields that set_mask names, in the registers of one port.
Configured(p, c) ==
    LET On(f, new, old) == IF f \in c.set_mask THEN new ELSE old
        od == On("od", gpio_set_od(p.odr, c.pin, c.od), p.odr)
        br == On("bsr_r", gpio_set_bsr_r(od, c.pin, c.bsr_r), od)
        q  == [moder   |-> On("mode", gpio_set_mode(p.moder, c.pin, c.mode), p.moder),
               otyper  |-> On("type", gpio_set_type(p.otyper, c.pin, c.type), p.otyper),
               ospeedr |-> On("speed", gpio_set_speed(p.ospeedr, c.pin, c.speed), p.ospeedr),
               pupdr   |-> On("pupd", gpio_set_pupd(p.pupdr, c.pin, c.pupd), p.pupdr),
               odr     |-> On("bsr_s", gpio_set_bsr_s(br, c.pin, c.bsr_s), br),
               lckr    |-> On("lck", gpio_set_lck(p.lckr, c.pin, c.lck), p.lckr),
               afr_l   |-> p.afr_l,
               afr_h   |-> p.afr_h]
    IN  On("afr", gpio_set_afr(q, c.pin, c.afr), q)

\* A port that does not exist and a pin above 15 are ignored.
gpio_accepts(c) == c.port \in Ports /\ c.pin <= 15

\* The port's registers take writes: its clock is switched on first.
gpio_set_config(g, c) ==
    IF gpio_accepts(c) THEN [g EXCEPT ![c.port] = Configured(@, c)] ELSE g

\* RCC_AHB1ENR_GPIOxEN, for the caller's copy of the register.
gpio_clock(ahb1enr, c) ==
    IF gpio_accepts(c) THEN ahb1enr \cup {c.port} ELSE ahb1enr

\* Faulty variant: the pin is driven through BSRR, whose low half only sets.
SetOnlyValue(g, c, value) ==
    [g EXCEPT ![c.port].odr = gpio_set_bsr(@, c.pin, IF value # 0 THEN 1 ELSE 0)]

\* No check of the port or of the pin.
gpio_set_value(g, c, value) ==
    [g EXCEPT ![c.port].odr = gpio_set_od(@, c.pin, IF value # 0 THEN 1 ELSE 0)]

\* What the registers of a port say of one of its pins: the bits of each field.
PinField(reg, pos, w) == get_reg_value(reg, Field(pos, w), pos)

PinSettings(p, pin) ==
    [mode  |-> PinField(p.moder, 2 * pin, 2),
     type  |-> PinField(p.otyper, pin, 1),
     speed |-> PinField(p.ospeedr, 2 * pin, 2),
     pupd  |-> PinField(p.pupdr, 2 * pin, 2),
     od    |-> PinField(p.odr, pin, 1),
     lck   |-> PinField(p.lckr, pin, 1),
     afr   |-> IF pin > 7 THEN PinField(p.afr_h, 4 * (pin - 8), 4)
                          ELSE PinField(p.afr_l, 4 * pin, 4)]

=============================================================================
