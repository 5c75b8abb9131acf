---------------------------- MODULE BoardProofs ----------------------------
(***************************************************************************)
(* The drivers of the board.  First the registers of the GPIO ports, which *)
(* implement one settings record per pin for any set of configurations and *)
(* of pins followed, and the LEDs, whose state follows the calls.  Then    *)
(* the millisecond counter and the registration of external interrupts,    *)
(* for every width of a word, every number of ticks, every delay and every *)
(* sequence of calls and edges.                                            *)
(***************************************************************************)
EXTENDS Board, RegisterProofs, FiniteSetTheorems

(***************************************************************************)
(* The state that leds_init leaves.                                        *)
(***************************************************************************)
LedSettings ==
    [mode |-> BitsOf(1), type |-> {}, speed |-> BitsOf(2), pupd |-> BitsOf(2),
     od |-> {}, lck |-> {}, afr |-> {}]
LEMMA LedConfigIs ==
    ASSUME NEW pin \in 0..15
    PROVE  /\ IsConfig(LedConfig(pin)) /\ gpio_accepts(LedConfig(pin))
           /\ LedConfig(pin).port = "D" /\ LedConfig(pin).pin = pin
           /\ Merged(ResetSettings, Wanted(LedConfig(pin))) = LedSettings
<1> DEFINE c == LedConfig(pin)
           w == Wanted(c)
<1>1. /\ c.port = "D" /\ c.pin = pin /\ c.set_mask = {"mode", "pupd", "speed", "type"}
      /\ c.mode = 1 /\ c.pupd = 2 /\ c.speed = 2 /\ c.type = 0
      /\ c.od = 0 /\ c.bsr_r = 0 /\ c.bsr_s = 0 /\ c.lck = 0 /\ c.afr = 0
  BY DEF LedConfig, Mode, Pull, Speed, OutType
<1> HIDE DEF c
<1>2. IsConfig(c) /\ gpio_accepts(c)
  BY <1>1 DEF IsConfig, gpio_accepts, Ports
<1>3. DOMAIN w = {"mode", "pupd", "speed", "type"}
  <2>1. ~Sets(c)
    BY <1>1 DEF Sets
  <2>2. DOMAIN w = (c.set_mask \cap Settable) \cup (IF Sets(c) THEN {"od"} ELSE {})
    BY WantedIs
  <2>. QED BY <1>1, <2>1, <2>2 DEF Settable
<1>4. w["mode"] = BitsOf(1) /\ w["pupd"] = BitsOf(2) /\ w["speed"] = BitsOf(2) /\ w["type"] = {}
  <2>1. \A f \in DOMAIN w : f # "od" => w[f] = BitsOf(c[f])
    BY WantedIs
  <2>2. BitsOf(0) = {}
    BY SmallBits
  <2>. QED BY <1>1, <1>3, <2>1, <2>2
<1> HIDE DEF w
<1>5. Merged(ResetSettings, w) = LedSettings
  <2>1. /\ DOMAIN ResetSettings = Settable
        /\ \A f \in Settable : ResetSettings[f] = {}
    BY ResetPort DEF Settable
  <2>2. Merged(ResetSettings, w) = [f \in Settable |-> IF f \in DOMAIN w THEN w[f] ELSE {}]
    BY <2>1 DEF Merged
  <2>3. DOMAIN LedSettings = Settable
    BY DEF LedSettings, Settable
  <2>4. ASSUME NEW f \in Settable
        PROVE  LedSettings[f] = IF f \in DOMAIN w THEN w[f] ELSE {}
    BY <1>3, <1>4 DEF LedSettings, Settable
  <2>5. LedSettings = [f \in Settable |-> LedSettings[f]]
    BY DEF LedSettings, Settable
  <2>. QED BY <2>2, <2>4, <2>5
<1>. QED BY <1>1, <1>2, <1>5 DEF c, w

LEMMA AfterLedsInit ==
    LET g == leds_init([p \in Ports |-> PortReset])
    IN  /\ PortsOf(g)
        /\ \A p \in Ports : \A pin \in 0..15 :
             PinSettings(g[p], pin) = IF p = "D" /\ pin \in LedPins THEN LedSettings ELSE ResetSettings
<1> DEFINE g0 == [p \in Ports |-> PortReset]
           g1 == gpio_set_config(g0, LedConfig(13))
           g2 == gpio_set_config(g1, LedConfig(12))
           g3 == gpio_set_config(g2, LedConfig(14))
           g4 == gpio_set_config(g3, LedConfig(15))
<1>1. LedPin[1] = 13 /\ LedPin[2] = 12 /\ LedPin[3] = 14 /\ LedPin[4] = 15
  BY DEF LedPin
<1>2. leds_init(g0) = g4
  BY <1>1, Zenon DEF leds_init
<1>3. LedPins = {12, 13, 14, 15}
  BY <1>1 DEF LedPins
<1>4. PortsOf(g0) /\ \A p \in Ports : \A pin \in 0..15 : PinSettings(g0[p], pin) = ResetSettings
  BY ResetPort DEF PortsOf
<1>5. 12 \in 0..15 /\ 13 \in 0..15 /\ 14 \in 0..15 /\ 15 \in 0..15
  OBVIOUS
<1> HIDE DEF g0
<1>6. PortsOf(g1) /\ PinChanged(g0, g1, "D", 13, Wanted(LedConfig(13)))
  BY <1>4, <1>5, ConfigCall, LedConfigIs
<1> HIDE DEF g1
<1>7. PortsOf(g2) /\ PinChanged(g1, g2, "D", 12, Wanted(LedConfig(12)))
  BY <1>6, <1>5, ConfigCall, LedConfigIs
<1> HIDE DEF g2
<1>8. PortsOf(g3) /\ PinChanged(g2, g3, "D", 14, Wanted(LedConfig(14)))
  BY <1>7, <1>5, ConfigCall, LedConfigIs
<1> HIDE DEF g3
<1>9. PortsOf(g4) /\ PinChanged(g3, g4, "D", 15, Wanted(LedConfig(15)))
  BY <1>8, <1>5, ConfigCall, LedConfigIs
<1> HIDE DEF g4
<1>10. /\ Merged(ResetSettings, Wanted(LedConfig(12))) = LedSettings
       /\ Merged(ResetSettings, Wanted(LedConfig(13))) = LedSettings
       /\ Merged(ResetSettings, Wanted(LedConfig(14))) = LedSettings
       /\ Merged(ResetSettings, Wanted(LedConfig(15))) = LedSettings
  BY <1>5, LedConfigIs
<1>11. ASSUME NEW p \in Ports, NEW pin \in 0..15
       PROVE  PinSettings(g4[p], pin) = IF p = "D" /\ pin \in LedPins THEN LedSettings ELSE ResetSettings
  <2>1. PinSettings(g0[p], pin) = ResetSettings
    BY <1>4
  <2>2. PinSettings(g1[p], pin) = IF p = "D" /\ pin = 13 THEN LedSettings ELSE ResetSettings
    BY <1>6, <1>10, <2>1 DEF PinChanged
  <2>3. PinSettings(g2[p], pin) = IF p = "D" /\ pin \in {12, 13} THEN LedSettings ELSE ResetSettings
    BY <1>7, <1>10, <2>2 DEF PinChanged
  <2>4. PinSettings(g3[p], pin) = IF p = "D" /\ pin \in {12, 13, 14} THEN LedSettings ELSE ResetSettings
    BY <1>8, <1>10, <2>3 DEF PinChanged
  <2>5. PinSettings(g4[p], pin) = IF p = "D" /\ pin \in {12, 13, 14, 15} THEN LedSettings ELSE ResetSettings
    BY <1>9, <1>10, <2>4 DEF PinChanged
  <2>. QED BY <1>3, <2>5
<1>. QED BY <1>2, <1>9, <1>11 DEF g0

\* A LED is written.
LEMMA ValueCall ==
    ASSUME NEW g, PortsOf(g), NEW pin \in LedPins, NEW v \in {0, 1}
    PROVE  /\ PortsOf(gpio_set_value(g, LedConfig(pin), v))
           /\ PinChanged(g, gpio_set_value(g, LedConfig(pin), v), "D", pin, [f \in {"od"} |-> BitsOf(v)])
<1> DEFINE h == gpio_set_value(g, LedConfig(pin), v)
<1>1. pin \in 0..15 /\ "D" \in Ports /\ v \in 0..1
  <2>1. LedPin[1] = 13 /\ LedPin[2] = 12 /\ LedPin[3] = 14 /\ LedPin[4] = 15
    BY DEF LedPin
  <2>2. pin \in {LedPin[1], LedPin[2], LedPin[3], LedPin[4]}
    BY DEF LedPins
  <2>. QED BY <2>1, <2>2 DEF Ports
<1>2. h = [p \in Ports |-> IF p = "D" THEN Driven(g[p], pin, v) ELSE g[p]]
  <2>1. LedConfig(pin).pin = pin /\ LedConfig(pin).port = "D"
    BY DEF LedConfig
  <2>2. (IF v # 0 THEN 1 ELSE 0) = v
    OBVIOUS
  <2>3. h = [g EXCEPT !["D"] = Driven(g["D"], pin, v)]
    BY <2>1, <2>2 DEF gpio_set_value, Driven
  <2> HIDE DEF h
  <2>. QED BY <1>1, <2>3 DEF PortsOf
<1> HIDE DEF h
<1>3. /\ IsPort(Driven(g["D"], pin, v))
      /\ \A other \in 0..15 : other # pin => PinSettings(Driven(g["D"], pin, v), other) = PinSettings(g["D"], other)
      /\ PinSettings(Driven(g["D"], pin, v), pin) = Merged(PinSettings(g["D"], pin), [f \in {"od"} |-> BitsOf(v)])
  BY <1>1, DrivenPort DEF PortsOf
<1>4. PortsOf(h)
  BY <1>1, <1>2, <1>3 DEF PortsOf
<1>5. PinChanged(g, h, "D", pin, [f \in {"od"} |-> BitsOf(v)])
  BY <1>2, <1>3 DEF PinChanged
<1>. QED BY <1>4, <1>5 DEF h

(***************************************************************************)
(* The refinement.                                                         *)
(***************************************************************************)
\* What a call asks of the bank is what it gives the pin.
LEMMA RequestIs ==
    ASSUME NEW c
    PROVE  RequestOf(c)[2] = Wanted(c)
<1>1. DOMAIN PinSettings(PortReset, 0) = Settable
  BY DEF PinSettings, Settable
<1>. QED BY <1>1, Zenon DEF Wanted, RequestOf, Sets

LEMMA FunctionsAreSeqs ==
    ASSUME NEW S
    PROVE  \A n \in Nat : [1..n -> S] \subseteq Seq(S)
  BY DEF Seq

GInv == PortsOf(gpio) /\ todo \in Seq(LedPins \X {0, 1})

LEMMA BankInit == Init => GInv /\ Bank!Init
<1> SUFFICES ASSUME Init PROVE GInv /\ Bank!Init
  OBVIOUS
<1>1. /\ PortsOf(gpio)
      /\ \A p \in Ports : \A pin \in 0..15 :
           PinSettings(gpio[p], pin) = IF p = "D" /\ pin \in LedPins THEN LedSettings ELSE ResetSettings
  BY AfterLedsInit DEF Init
<1>2. GInv
  BY <1>1 DEF Init, GInv
<1>3. BankInitial = [p \in Watched |-> IF p \in {"D"} \X LedPins THEN LedSettings ELSE ResetSettings]
  BY Zenon DEF BankInitial, LedSettings, ResetSettings, Mode, Speed, Pull
<1>4. ASSUME NEW p \in Watched
      PROVE  PinSettings(gpio[p[1]], p[2]) = IF p \in {"D"} \X LedPins THEN LedSettings ELSE ResetSettings
  <2>1. p[1] \in Ports /\ p[2] \in 0..15 /\ p = <<p[1], p[2]>>
    BY BoardAssumption
  <2>2. p \in {"D"} \X LedPins <=> p[1] = "D" /\ p[2] \in LedPins
    BY <2>1
  <2>. QED BY <1>1, <2>1, <2>2
<1>5. Settings = BankInitial
  BY <1>3, <1>4 DEF Settings
<1>. QED BY <1>2, <1>5 DEF Bank!Init

LEMMA BankStep ==
    ASSUME NEW port, NEW k, NEW new, PinChanged(gpio, gpio', port, k, new)
    PROVE  Bank!Serve(<<port, k>>, new)
<1> DEFINE at == <<port, k>>
<1>1. ASSUME NEW p \in Watched
      PROVE  PinSettings(gpio'[p[1]], p[2]) = IF p = at THEN Merged(Settings[p], new) ELSE Settings[p]
  <2>1. p[1] \in Ports /\ p[2] \in 0..15 /\ p = <<p[1], p[2]>>
    BY BoardAssumption
  <2>2. p = at <=> p[1] = port /\ p[2] = k
    BY <2>1
  <2>3. Settings[p] = PinSettings(gpio[p[1]], p[2])
    BY DEF Settings
  <2>. QED BY <2>1, <2>2, <2>3 DEF PinChanged
<1>2. Settings' = [p \in Watched |-> IF p = at THEN Merged(Settings[p], new) ELSE Settings[p]]
  BY <1>1 DEF Settings
<1>3. Settings = [p \in Watched |-> Settings[p]]
  BY DEF Settings
<1>4. Settings' = [Settings EXCEPT ![at] = Merged(Settings[at], new)]
  BY <1>2, <1>3
<1>. QED BY <1>4, Zenon DEF Bank!Serve, Merged

LEMMA GpioStep == GInv /\ [Next]_vars => GInv' /\ (gpio' # gpio => [Bank!Next]_Settings)
<1> SUFFICES ASSUME GInv, [Next]_vars PROVE GInv' /\ (gpio' # gpio => [Bank!Next]_Settings)
  OBVIOUS
<1>1. CASE CallConfig
  <2>1. PICK c \in Configs : gpio' = gpio_set_config(gpio, c)
    BY <1>1 DEF CallConfig
  <2>2. IsConfig(c)
    BY BoardAssumption DEF IsConfig
  <2>3. PortsOf(gpio') /\ (gpio_accepts(c) => PinChanged(gpio, gpio', c.port, c.pin, Wanted(c)))
    BY <2>1, <2>2, ConfigCall DEF GInv
  <2>4. GInv'
    BY <1>1, <2>3 DEF GInv, CallConfig
  <2>5. CASE gpio_accepts(c)
    <3>1. RequestOf(c) \in BankRequests
      BY <2>5 DEF BankRequests
    <3>2. RequestOf(c)[1] = <<c.port, c.pin>> /\ RequestOf(c)[2] = Wanted(c)
      BY RequestIs DEF RequestOf
    <3>3. Bank!Serve(<<c.port, c.pin>>, Wanted(c))
      BY <2>3, <2>5, BankStep
    <3>. QED BY <2>4, <3>1, <3>2, <3>3 DEF Bank!Next
  <2>6. CASE ~gpio_accepts(c)
    BY <2>1, <2>4, <2>6 DEF gpio_set_config
  <2>. QED BY <2>5, <2>6
<1>2. CASE RunLeds
  <2>1. /\ todo # <<>> /\ todo' = Tail(todo)
        /\ gpio' = gpio_set_value(gpio, LedConfig(Head(todo)[1]), Head(todo)[2])
    BY <1>2 DEF RunLeds
  <2>2. Head(todo) \in LedPins \X {0, 1} /\ todo' \in Seq(LedPins \X {0, 1})
    BY <2>1 DEF GInv
  <2>3. PICK pin \in LedPins, v \in {0, 1} : Head(todo) = <<pin, v>>
    BY <2>2
  <2>4. gpio' = gpio_set_value(gpio, LedConfig(pin), v)
    BY <2>1, <2>3
  <2>5. PortsOf(gpio') /\ PinChanged(gpio, gpio', "D", pin, [f \in {"od"} |-> BitsOf(v)])
    BY <2>4, ValueCall DEF GInv
  <2>6. <<<<"D", pin>>, [f \in {"od"} |-> BitsOf(v)]>> \in BankRequests
    BY DEF BankRequests
  <2>7. Bank!Serve(<<"D", pin>>, [f \in {"od"} |-> BitsOf(v)])
    BY <2>5, BankStep
  <2>8. Bank!Next
    BY <2>6, <2>7 DEF Bank!Next
  <2>. QED BY <2>2, <2>5, <2>8 DEF GInv
<1>3. CASE CallLeds
  <2>1. gpio' = gpio
    BY <1>3 DEF CallLeds
  <2>2. \A i \in 1..4 : LedPin[i] \in LedPins
    BY DEF LedPins
  <2>3. todo' \in Seq(LedPins \X {0, 1})
    <3>1. CASE toggle_leds
      <4>1. PICK on : todo' = [i \in 1..4 |-> <<LedPin[i], IF i = on THEN 1 ELSE 0>>]
        BY <3>1, Zenon DEF toggle_leds
      <4>2. \A i \in 1..4 : <<LedPin[i], IF i = on THEN 1 ELSE 0>> \in LedPins \X {0, 1}
        BY <2>2
      <4>3. todo' \in [1..4 -> LedPins \X {0, 1}]
        BY <4>1, <4>2
      <4>4. [1..4 -> LedPins \X {0, 1}] \subseteq Seq(LedPins \X {0, 1})
        BY FunctionsAreSeqs
      <4>. QED BY <4>3, <4>4, Zenon
    <3>2. CASE leds_blinky
      <4>1. todo' = [i \in 1..8 |-> <<LedPin[((i - 1) % 4) + 1], IF i <= 4 THEN 1 ELSE 0>>]
        BY <3>2 DEF leds_blinky
      <4>2. ASSUME NEW i \in 1..8
            PROVE  <<LedPin[((i - 1) % 4) + 1], IF i <= 4 THEN 1 ELSE 0>> \in LedPins \X {0, 1}
        <5>1. ((i - 1) % 4) + 1 \in 1..4
          OBVIOUS
        <5>. QED BY <2>2, <5>1
      <4>3. todo' \in [1..8 -> LedPins \X {0, 1}]
        BY <4>1, <4>2
      <4>4. [1..8 -> LedPins \X {0, 1}] \subseteq Seq(LedPins \X {0, 1})
        BY FunctionsAreSeqs
      <4>. QED BY <4>3, <4>4, Zenon
    <3>. QED BY <1>3, <3>1, <3>2 DEF CallLeds
  <2>. QED BY <2>1, <2>3 DEF GInv
<1>4. ASSUME UNCHANGED <<gpio, todo>> PROVE GInv' /\ (gpio' # gpio => [Bank!Next]_Settings)
  BY <1>4 DEF GInv
<1>5. CASE CallRegister \/ RunRegister \/ CallDelay \/ RunDelay
  BY <1>4, <1>5 DEF CallRegister, RunRegister, CallDelay, RunDelay, ledVars
<1>6. CASE exti \/ systick \/ outside
  BY <1>4, <1>6 DEF exti, systick, outside, ledVars
<1>7. CASE UNCHANGED vars
  BY <1>4, <1>7 DEF vars
<1>8. CASE leds_toggle
  <2>1. PICK pin \in LedPins : gpio' = gpio_set_value(gpio, LedConfig(pin), gpio_get(pin))
    BY <1>8 DEF leds_toggle
  <2>2. todo' = todo
    BY <1>8 DEF leds_toggle
  <2> DEFINE v == gpio_get(pin)
  <2>3. v \in {0, 1}
    BY DEF gpio_get
  <2>4. gpio' = gpio_set_value(gpio, LedConfig(pin), v)
    BY <2>1
  <2> HIDE DEF v
  <2>5. PortsOf(gpio') /\ PinChanged(gpio, gpio', "D", pin, [f \in {"od"} |-> BitsOf(v)])
    BY <2>3, <2>4, ValueCall DEF GInv
  <2>6. <<<<"D", pin>>, [f \in {"od"} |-> BitsOf(v)]>> \in BankRequests
    BY <2>3 DEF BankRequests
  <2>7. Bank!Serve(<<"D", pin>>, [f \in {"od"} |-> BitsOf(v)])
    BY <2>5, BankStep
  <2>8. Bank!Next
    BY <2>6, <2>7 DEF Bank!Next
  <2>. QED BY <2>2, <2>5, <2>8 DEF GInv
<1>. QED BY <1>1, <1>2, <1>3, <1>5, <1>6, <1>7, <1>8 DEF Next, thread, run

\* The registers of the GPIO ports (gpio.c:11-141) behave as one settings record
\* for each pin: what gpio_set_config and gpio_set_value write in the packed
\* registers changes the settings of the pin they name, to what they name, and
\* nothing of any other pin.
THEOREM PinsIndependent == Spec => ImplementsPins
<1>1. Init => GInv /\ Bank!Init
  BY BankInit
<1>2. GInv /\ [Next]_vars => GInv'
  BY GpioStep
<1>3. GInv /\ [Next]_vars => (gpio' # gpio => [Bank!Next]_Settings)
  BY GpioStep
<1>4. UNCHANGED vars => (gpio' # gpio => [Bank!Next]_Settings)
  BY DEF vars
<1>. QED BY <1>1, <1>2, <1>3, <1>4, PTL DEF Spec, ImplementsPins

(***************************************************************************)
(* The LEDs.  A write left to do is final if no later one is for the same  *)
(* pin: the pins without a write left are as lit says, unless a leds_toggle *)
(* was the last to name them, and the final writes will make the others so. *)
(***************************************************************************)
\* No configuration of the callers is for the pin of a LED.
LedsApart == \A c \in Configs : c.port # "D" \/ c.pin \notin LedPins

OnLeds == gpio["D"].odr \cap LedPins

Final(s, i) == \A j \in (i + 1)..Len(s) : s[j][1] # s[i][1]

Settled == \A pin \in LedPins \ toggled :
             (\A i \in 1..Len(todo) : todo[i][1] # pin) => (pin \in OnLeds <=> pin \in lit)

Finals == \A i \in 1..Len(todo) : Final(todo, i) => (todo[i][2] = 1 <=> todo[i][1] \in lit)

OnlyLit == lit # {} => \A i \in 1..Len(todo) : todo[i][2] = 1 => todo[i][1] \in lit

AtMostTwo ==
    \E a, b \in LedPins :
        /\ lit \ toggled \subseteq {a} /\ (todo # <<>> => lit \subseteq {a})
        /\ lit # {} => OnLeds \ toggled \subseteq {a, b}

LInv == led_num \in Nat /\ lit \subseteq LedPins /\ Settled /\ Finals /\ OnlyLit /\ AtMostTwo

LEMMA PinsOfLeds ==
    /\ LedPin[1] = 13 /\ LedPin[2] = 12 /\ LedPin[3] = 14 /\ LedPin[4] = 15
    /\ LedPins = {12, 13, 14, 15}
<1>1. LedPin[1] = 13 /\ LedPin[2] = 12 /\ LedPin[3] = 14 /\ LedPin[4] = 15
  BY DEF LedPin
<1>. QED BY <1>1 DEF LedPins

LEMMA OdSays ==
    ASSUME NEW p, NEW pin \in 0..15
    PROVE  PinSettings(p, pin).od = IF pin \in p.odr THEN {0} ELSE {}
  BY BitField DEF PinSettings

\* The output of a pin whose settings a step does not name.
LEMMA OdKept ==
    ASSUME NEW g, NEW h, NEW port, NEW k, NEW new, PinChanged(g, h, port, k, new),
           NEW pin \in 0..15, port # "D" \/ pin # k
    PROVE  pin \in h["D"].odr <=> pin \in g["D"].odr
<1>1. PinSettings(h["D"], pin) = PinSettings(g["D"], pin)
  BY DEF PinChanged, Ports
<1>2. PinSettings(h["D"], pin).od = IF pin \in h["D"].odr THEN {0} ELSE {}
  BY OdSays
<1>3. PinSettings(g["D"], pin).od = IF pin \in g["D"].odr THEN {0} ELSE {}
  BY OdSays
<1>. QED BY <1>1, <1>2, <1>3

LEMMA OdWritten ==
    ASSUME NEW g, NEW h, NEW k \in LedPins, NEW v \in {0, 1},
           PinChanged(g, h, "D", k, [f \in {"od"} |-> BitsOf(v)])
    PROVE  k \in h["D"].odr <=> v = 1
<1> DEFINE old == PinSettings(g["D"], k)
           new == [f \in {"od"} |-> BitsOf(v)]
<1>1. k \in 0..15
  BY PinsOfLeds
<1>2. PinSettings(h["D"], k) = Merged(old, new)
  BY <1>1 DEF PinChanged, Ports
<1>3. "od" \in DOMAIN old
  BY DEF PinSettings
<1> HIDE DEF old
<1>4. Merged(old, new)["od"] = BitsOf(v)
  BY <1>3 DEF Merged
<1>5. PinSettings(h["D"], k).od = BitsOf(v)
  BY <1>2, <1>4
<1>6. BitsOf(0) = {} /\ BitsOf(1) = {0}
  BY SmallBits
<1>. QED BY <1>1, <1>5, <1>6, OdSays

LEMMA LInvInit == Init => LInv
<1> SUFFICES ASSUME Init PROVE LInv
  OBVIOUS
<1>1. led_num = 0 /\ todo = <<>> /\ lit = {} /\ toggled = {}
  BY DEF Init
<1>2. ASSUME NEW pin \in LedPins PROVE pin \notin gpio["D"].odr
  <2>1. pin \in 0..15
    BY PinsOfLeds
  <2>2. PinSettings(gpio["D"], pin) = LedSettings
    BY <2>1, AfterLedsInit DEF Init, Ports
  <2>3. LedSettings.od = {}
    BY DEF LedSettings
  <2>. QED BY <2>1, <2>2, <2>3, OdSays
<1>3. 12 \in LedPins
  BY PinsOfLeds
<1>4. AtMostTwo
  BY <1>1, <1>3 DEF AtMostTwo
<1>. QED BY <1>1, <1>2, <1>4 DEF LInv, Settled, Finals, OnlyLit, OnLeds

\* leds_on or leds_off: the first write left.
LEMMA LInvRun ==
    ASSUME GInv, LInv, RunLeds
    PROVE  LInv'
<1>1. /\ todo # <<>> /\ todo' = Tail(todo) /\ lit' = lit /\ led_num' = led_num
      /\ gpio' = gpio_set_value(gpio, LedConfig(Head(todo)[1]), Head(todo)[2])
      /\ toggled' = toggled \ {Head(todo)[1]}
  BY DEF RunLeds
<1>2. /\ todo \in Seq(LedPins \X {0, 1}) /\ Head(todo) = todo[1] /\ 1 \in 1..Len(todo)
      /\ Len(todo') = Len(todo) - 1 /\ \A i \in 1..Len(todo') : todo'[i] = todo[i + 1]
  BY <1>1 DEF GInv
<1>3. PICK pin \in LedPins, v \in {0, 1} : Head(todo) = <<pin, v>>
  BY <1>2
<1>4. PinChanged(gpio, gpio', "D", pin, [f \in {"od"} |-> BitsOf(v)])
  BY <1>1, <1>3, ValueCall DEF GInv
<1>5. pin \in OnLeds' <=> v = 1
  BY <1>4, OdWritten DEF OnLeds
<1>6. ASSUME NEW p \in LedPins, p # pin PROVE p \in OnLeds' <=> p \in OnLeds
  <2>1. p \in 0..15
    BY PinsOfLeds
  <2>. QED BY <1>4, <1>6, <2>1, OdKept DEF OnLeds
<1>7. todo[1][1] = pin /\ todo[1][2] = v /\ toggled' = toggled \ {pin}
  BY <1>1, <1>2, <1>3
<1>8. ASSUME NEW i \in 1..Len(todo') PROVE i + 1 \in 1..Len(todo) /\ (Final(todo', i) <=> Final(todo, i + 1))
  <2>1. i + 1 \in 1..Len(todo)
    BY <1>2
  <2>2. ASSUME Final(todo', i), NEW j \in (i + 2)..Len(todo) PROVE todo[j][1] # todo[i + 1][1]
    <3>1. j - 1 \in (i + 1)..Len(todo') /\ j - 1 \in 1..Len(todo')
      BY <1>2
    <3>2. todo'[j - 1] = todo[j] /\ todo'[i] = todo[i + 1]
      BY <1>2, <3>1
    <3>. QED BY <2>2, <3>1, <3>2 DEF Final
  <2>3. ASSUME Final(todo, i + 1), NEW j \in (i + 1)..Len(todo') PROVE todo'[j][1] # todo'[i][1]
    <3>1. j + 1 \in (i + 2)..Len(todo) /\ j \in 1..Len(todo')
      BY <1>2
    <3>2. todo'[j] = todo[j + 1] /\ todo'[i] = todo[i + 1]
      BY <1>2, <3>1
    <3>3. (i + 1) + 1 = i + 2
      OBVIOUS
    <3>. QED BY <2>3, <3>1, <3>2, <3>3 DEF Final
  <2>4. (i + 1) + 1 = i + 2
    OBVIOUS
  <2>. QED BY <2>1, <2>2, <2>3, <2>4 DEF Final
<1>9. Settled'
  <2> SUFFICES ASSUME NEW p \in LedPins \ toggled', \A i \in 1..Len(todo') : todo'[i][1] # p
               PROVE  p \in OnLeds' <=> p \in lit
    BY <1>1 DEF Settled
  <2>1. ASSUME NEW j \in 2..Len(todo) PROVE todo[j][1] # p
    <3>1. j - 1 \in 1..Len(todo') /\ (j - 1) + 1 = j
      BY <1>2
    <3>2. todo'[j - 1] = todo[j]
      BY <1>2, <3>1
    <3>. QED BY <3>1, <3>2
  <2>2. CASE p # pin
    <3>1. \A i \in 1..Len(todo) : todo[i][1] # p
      BY <1>2, <1>7, <2>1, <2>2
    <3>. QED BY <1>6, <1>7, <2>2, <3>1 DEF LInv, Settled
  <2>3. CASE p = pin
    <3>1. Final(todo, 1)
      BY <1>2, <1>7, <2>1, <2>3 DEF Final
    <3>2. v = 1 <=> pin \in lit
      BY <1>2, <1>7, <3>1 DEF LInv, Finals
    <3>. QED BY <1>5, <2>3, <3>2
  <2>. QED BY <2>2, <2>3
<1>10. Finals'
  <2> SUFFICES ASSUME NEW i \in 1..Len(todo'), Final(todo', i)
               PROVE  todo'[i][2] = 1 <=> todo'[i][1] \in lit
    BY <1>1 DEF Finals, Final
  <2>1. i + 1 \in 1..Len(todo) /\ Final(todo, i + 1)
    BY <1>8
  <2>. QED BY <1>2, <2>1 DEF LInv, Finals
<1>11. OnlyLit'
  <2>1. ASSUME lit # {}, NEW i \in 1..Len(todo'), todo'[i][2] = 1 PROVE todo'[i][1] \in lit
    BY <1>2, <1>8, <2>1 DEF LInv, OnlyLit
  <2>. QED BY <1>1, <2>1 DEF OnlyLit
<1>12. AtMostTwo'
  <2>1. PICK a, b \in LedPins : /\ lit \subseteq {a}
                                /\ lit # {} => OnLeds \ toggled \subseteq {a, b}
    BY <1>1 DEF LInv, AtMostTwo
  <2> SUFFICES ASSUME lit # {} PROVE OnLeds' \ toggled' \subseteq {a, b}
    BY <1>1, <2>1 DEF AtMostTwo
  <2>2. v = 1 => pin = a
    BY <1>2, <1>7, <2>1 DEF LInv, OnlyLit
  <2>3. OnLeds' \subseteq LedPins
    BY DEF OnLeds
  <2>. QED BY <1>5, <1>6, <1>7, <2>1, <2>2, <2>3
<1>. QED BY <1>1, <1>9, <1>10, <1>11, <1>12 DEF LInv

\* toggle_leds and leds_blinky, which begin with no write left.
LEMMA LInvCall ==
    ASSUME LInv, CallLeds
    PROVE  LInv'
<1>1. todo = <<>> /\ gpio' = gpio /\ toggled' = toggled
  BY DEF CallLeds, Call, Idle
<1>2. OnLeds \ toggled = lit \ toggled /\ OnLeds' = OnLeds /\ lit \subseteq LedPins /\ led_num \in Nat
  BY <1>1 DEF LInv, Settled, OnLeds
<1>3. CASE toggle_leds
  <2>1. (led_num % 4) + 1 \in 1..4 /\ NextLedNum \in Nat
    BY <1>2, BoardAssumption DEF NextLedNum
  <2>2. PICK on \in 1..4 :
          /\ todo' = [i \in 1..4 |-> <<LedPin[i], IF i = on THEN 1 ELSE 0>>]
          /\ lit' = {LedPin[on]}
    BY <1>3, <2>1, Zenon DEF toggle_leds
  <2>3. led_num' \in Nat
    BY <1>3, <2>1, Zenon DEF toggle_leds
  <2>4. Len(todo') = 4 /\ \A i \in 1..4 : todo'[i] = <<LedPin[i], IF i = on THEN 1 ELSE 0>>
    BY <2>2
  <2>5. \A i \in 1..4 : LedPin[i] = LedPin[on] <=> i = on
    BY PinsOfLeds
  <2>6. \A pin \in LedPins : \E i \in 1..4 : LedPin[i] = pin
    BY DEF LedPins
  <2>7. LedPin[on] \in LedPins
    BY DEF LedPins
  <2>8. \A i \in 1..4 : todo'[i][1] = LedPin[i] /\ (todo'[i][2] = 1 <=> i = on)
    BY <2>4
  <2>9. Settled'
    BY <2>4, <2>6, <2>8 DEF Settled
  <2>10. Finals' /\ OnlyLit'
    BY <2>2, <2>4, <2>5, <2>8 DEF Finals, OnlyLit
  <2>11. AtMostTwo'
    <3>1. PICK b \in LedPins : lit \ toggled \subseteq {b}
      BY DEF LInv, AtMostTwo
    <3>2. /\ lit' \ toggled' \subseteq {LedPin[on]} /\ lit' \subseteq {LedPin[on]}
          /\ OnLeds' \ toggled' \subseteq {LedPin[on], b}
      BY <1>1, <1>2, <2>2, <3>1
    <3>. QED BY <2>7, <3>2 DEF AtMostTwo
  <2>. QED BY <2>2, <2>3, <2>7, <2>9, <2>10, <2>11 DEF LInv
<1>4. CASE leds_blinky
  <2>1. /\ todo' = [i \in 1..8 |-> <<LedPin[((i - 1) % 4) + 1], IF i <= 4 THEN 1 ELSE 0>>]
        /\ lit' = {} /\ led_num' = led_num
    BY <1>4 DEF leds_blinky
  <2>2. Len(todo') = 8
    BY <2>1
  <2>3. \A i \in 1..8 : todo'[i] = <<LedPin[((i - 1) % 4) + 1], IF i <= 4 THEN 1 ELSE 0>>
    BY <2>1
  <2>4. ASSUME NEW i \in 1..4
        PROVE  /\ todo'[i][1] = LedPin[i] /\ todo'[i + 4][1] = LedPin[i] /\ todo'[i + 4][2] = 0
               /\ i + 4 \in (i + 1)..8 /\ i + 4 \in 1..8
    <3>1. i \in 1..8 /\ i + 4 \in 1..8 /\ ((i - 1) % 4) + 1 = i /\ (((i + 4) - 1) % 4) + 1 = i
      OBVIOUS
    <3>2. todo'[i + 4] = <<LedPin[i], 0>>
      BY <2>3, <3>1
    <3>3. todo'[i][1] = LedPin[i]
      BY <2>3, <3>1
    <3>. QED BY <3>1, <3>2, <3>3
  <2>5. Settled'
    <3>1. \A pin \in LedPins : \E i \in 1..4 : LedPin[i] = pin
      BY DEF LedPins
    <3>2. \A i \in 1..4 : i \in 1..8
      OBVIOUS
    <3>. QED BY <2>2, <2>4, <3>1, <3>2 DEF Settled
  <2>6. Finals'
    <3> SUFFICES ASSUME NEW i \in 1..8, Final(todo', i) PROVE todo'[i][2] # 1
      BY <2>1, <2>2 DEF Finals, Final
    <3>1. i \notin 1..4
      BY <2>2, <2>4 DEF Final
    <3>2. i - 4 \in 1..4 /\ (i - 4) + 4 = i
      BY <3>1
    <3>3. todo'[i][2] = 0
      BY <2>4, <3>2
    <3>. QED BY <3>3
  <2>7. AtMostTwo'
    <3>1. 12 \in LedPins
      BY PinsOfLeds
    <3>. QED BY <2>1, <3>1 DEF AtMostTwo
  <2>. QED BY <1>2, <2>1, <2>5, <2>6, <2>7 DEF LInv, OnlyLit
<1>. QED BY <1>3, <1>4 DEF CallLeds

\* leds_toggle: what the LED becomes is not said, and the others stay as they are.
LEMMA LInvToggle ==
    ASSUME GInv, LInv, leds_toggle
    PROVE  LInv'
<1>1. PICK pin \in LedPins :
        /\ gpio' = gpio_set_value(gpio, LedConfig(pin), gpio_get(pin))
        /\ lit' = (IF pin \in lit THEN lit \ {pin} ELSE lit \cup {pin})
        /\ toggled' = toggled \cup {pin}
  BY DEF leds_toggle
<1>2. todo = <<>> /\ todo' = <<>> /\ led_num' = led_num
  BY DEF leds_toggle, Call, Idle
<1> DEFINE v == gpio_get(pin)
<1>3. v \in {0, 1} /\ gpio' = gpio_set_value(gpio, LedConfig(pin), v)
  BY <1>1 DEF gpio_get
<1> HIDE DEF v
<1>4. PinChanged(gpio, gpio', "D", pin, [f \in {"od"} |-> BitsOf(v)])
  BY <1>3, ValueCall DEF GInv
<1>5. ASSUME NEW p \in LedPins, p # pin PROVE p \in OnLeds' <=> p \in OnLeds
  <2>1. p \in 0..15
    BY PinsOfLeds
  <2>. QED BY <1>4, <1>5, <2>1, OdKept DEF OnLeds
<1>6. ASSUME NEW p \in LedPins \ toggled'
      PROVE  (p \in OnLeds' <=> p \in OnLeds) /\ (p \in lit' <=> p \in lit) /\ (p \in OnLeds <=> p \in lit)
  BY <1>1, <1>2, <1>5 DEF LInv, Settled
<1>7. OnLeds' \subseteq LedPins /\ lit' \subseteq LedPins /\ led_num' \in Nat
  BY <1>1, <1>2 DEF OnLeds, LInv
<1>8. PICK a \in LedPins : lit \ toggled \subseteq {a}
  BY DEF LInv, AtMostTwo
<1>9. AtMostTwo'
  <2>1. lit' \ toggled' \subseteq {a} /\ OnLeds' \ toggled' \subseteq {a, a}
    BY <1>1, <1>6, <1>7, <1>8
  <2>. QED BY <1>2, <2>1 DEF AtMostTwo
<1>10. Settled'
  BY <1>6 DEF Settled
<1>. QED BY <1>2, <1>7, <1>9, <1>10 DEF LInv, Finals, OnlyLit

LEMMA LInvStep ==
    ASSUME LedsApart
    PROVE  GInv /\ LInv /\ [Next]_vars => LInv'
<1> SUFFICES ASSUME GInv, LInv, [Next]_vars PROVE LInv'
  OBVIOUS
<1>1. ASSUME UNCHANGED <<led_num, todo, lit, toggled>>, OnLeds' = OnLeds PROVE LInv'
  BY <1>1 DEF LInv, Settled, Finals, Final, OnlyLit, AtMostTwo
<1>2. ASSUME UNCHANGED ledVars PROVE LInv'
  BY <1>1, <1>2 DEF ledVars, OnLeds
<1>3. CASE CallConfig
  <2>1. PICK c \in Configs : gpio' = gpio_set_config(gpio, c)
    BY <1>3 DEF CallConfig
  <2>2. IsConfig(c)
    BY BoardAssumption DEF IsConfig
  <2>3. gpio_accepts(c) => PinChanged(gpio, gpio', c.port, c.pin, Wanted(c))
    BY <2>1, <2>2, ConfigCall DEF GInv
  <2>4. ASSUME NEW p \in LedPins PROVE p \in OnLeds' <=> p \in OnLeds
    <3>1. p \in 0..15 /\ (c.port # "D" \/ p # c.pin)
      BY PinsOfLeds DEF LedsApart
    <3>2. CASE gpio_accepts(c)
      BY <2>3, <3>1, <3>2, OdKept DEF OnLeds
    <3>3. CASE ~gpio_accepts(c)
      BY <2>1, <3>3 DEF gpio_set_config, OnLeds
    <3>. QED BY <3>2, <3>3
  <2>5. OnLeds' = OnLeds
    BY <2>4 DEF OnLeds
  <2>. QED BY <1>1, <1>3, <2>5 DEF CallConfig
<1>4. CASE RunLeds
  BY <1>4, LInvRun
<1>5. CASE CallLeds
  BY <1>5, LInvCall
<1>9. CASE leds_toggle
  BY <1>9, LInvToggle
<1>6. CASE CallRegister \/ RunRegister \/ CallDelay \/ RunDelay
  BY <1>2, <1>6 DEF CallRegister, RunRegister, CallDelay, RunDelay
<1>7. CASE exti \/ systick \/ outside
  BY <1>2, <1>7 DEF exti, systick, outside
<1>8. CASE UNCHANGED vars
  BY <1>2, <1>8 DEF vars, ledVars
<1>. QED BY <1>3, <1>4, <1>5, <1>6, <1>7, <1>8, <1>9 DEF Next, thread, run

\* If no caller configures the pin of a LED, the LEDs that are on between two calls
\* are those that toggle_leds and leds_blinky leave on (leds.c, main.c:110-136), and
\* a toggle_leds never has more than two on, for every modulus of led_num; of a LED
\* given to leds_toggle nothing is said until it is written again.
THEOREM LedsFollow == LedsApart => (Spec => []OneLed)
<1> SUFFICES ASSUME LedsApart PROVE Spec => []OneLed
  OBVIOUS
<1>1. Init => GInv /\ LInv
  BY BankInit, LInvInit
<1>2. GInv /\ LInv /\ [Next]_vars => GInv' /\ LInv'
  BY GpioStep, LInvStep
<1>3. LInv => OneLed
  <2> SUFFICES ASSUME LInv PROVE OneLed
    OBVIOUS
  <2> DEFINE on == OnLeds \ toggled
  <2>1. todo = <<>> => on = lit \ toggled
    BY DEF LInv, Settled, OnLeds
  <2>2. lit # {} => Cardinality(on) <= 2
    <3> SUFFICES ASSUME lit # {} PROVE Cardinality(on) <= 2
      OBVIOUS
    <3>1. PICK a, b \in LedPins : on \subseteq {a, b}
      BY DEF LInv, AtMostTwo
    <3> HIDE DEF on
    <3>2. IsFiniteSet({a}) /\ Cardinality({a}) = 1
      BY FS_Singleton
    <3>3. IsFiniteSet({a} \cup {b}) /\ Cardinality({a} \cup {b}) \in {1, 2}
      BY <3>2, FS_AddElement
    <3>4. on \in SUBSET ({a} \cup {b})
      BY <3>1
    <3>5. IsFiniteSet(on) /\ Cardinality(on) <= Cardinality({a} \cup {b})
      BY <3>3, <3>4, FS_Subset
    <3>6. Cardinality(on) \in Nat
      BY <3>5, FS_CardinalityType
    <3>. QED BY <3>3, <3>5, <3>6
  <2>. QED BY <2>1, <2>2 DEF OneLed, OnLeds
<1>. QED BY <1>1, <1>2, <1>3, PTL DEF Spec

(***************************************************************************)
(* Division by the word.                                                   *)
(***************************************************************************)
LEMMA Division ==
    ASSUME NEW x \in Nat
    PROVE  /\ x \div WORD \in Nat /\ x % WORD \in 0..(WORD - 1)
           /\ x = (x \div WORD) * WORD + (x % WORD)
  BY SysTickAssumption

\* A quotient and a remainder are unique.
LEMMA Unique ==
    ASSUME NEW q \in Nat, NEW r \in 0..(WORD - 1), NEW p \in Nat, NEW s \in 0..(WORD - 1),
           q * WORD + r = p * WORD + s
    PROVE  q = p
<1>0. WORD \in Nat /\ WORD > 0
  BY SysTickAssumption
<1>1. ASSUME NEW a \in Nat, NEW b \in Nat, NEW c \in 0..(WORD - 1), NEW d \in 0..(WORD - 1),
             a * WORD + c = b * WORD + d, a < b
      PROVE  FALSE
  <2>1. PICK e \in Nat : b = a + 1 + e
    <3>1. b - a - 1 \in Nat /\ b = a + 1 + (b - a - 1)
      BY <1>1
    <3>. QED BY <3>1
  <2>2. b * WORD = a * WORD + WORD + e * WORD
    BY <1>0, <2>1
  <2>3. e * WORD \in Nat /\ a * WORD \in Nat
    BY <1>0
  <2>. QED BY <1>0, <1>1, <2>2, <2>3
<1>2. ~(q < p) /\ ~(p < q)
  BY <1>1
<1>. QED BY <1>2

\* The high half of the counter changes only when the low half goes round to 0.
LEMMA NoCarry ==
    ASSUME NEW x \in Nat, (x + 1) % WORD # 0
    PROVE  (x + 1) \div WORD = x \div WORD
<1> DEFINE q == x \div WORD
           r == x % WORD
           p == (x + 1) \div WORD
           s == (x + 1) % WORD
<1>0. WORD \in Nat /\ WORD > 0
  BY SysTickAssumption
<1>1. q \in Nat /\ r \in 0..(WORD - 1) /\ x = q * WORD + r
  BY Division
<1>2. p \in Nat /\ s \in 0..(WORD - 1) /\ x + 1 = p * WORD + s /\ s # 0
  BY Division
<1> HIDE DEF q, r, p, s
<1>3. s - 1 \in 0..(WORD - 1) /\ x = p * WORD + (s - 1)
  <2>1. p * WORD \in Nat
    BY <1>0, <1>2
  <2>. QED BY <1>0, <1>2, <2>1
<1>4. p = q
  BY <1>1, <1>2, <1>3, Unique
<1>. QED BY <1>4 DEF p, q

(***************************************************************************)
(* Two loads without a carry between them make a value that the counter    *)
(* had at or between them.                                                 *)
(***************************************************************************)
LEMMA LoadsExact ==
    ASSUME NEW t \in Nat, NEW now \in Nat, t <= now, t \div WORD = now \div WORD, NEW h \in Halves
    PROVE  LET seen == Join(h, HalfOf(t, h), HalfOf(now, IF h = "low" THEN "high" ELSE "low"))
           IN  seen \in t..now
<1>0. WORD \in Nat /\ WORD > 0
  BY SysTickAssumption
<1>1. /\ t \div WORD \in Nat /\ t % WORD \in Nat /\ t = (t \div WORD) * WORD + (t % WORD)
      /\ now % WORD \in Nat /\ now = (now \div WORD) * WORD + (now % WORD)
  BY Division
<1>2. CASE h = "low"
  BY <1>1, <1>2 DEF Join, HalfOf
<1>3. CASE h = "high"
  BY <1>1, <1>3 DEF Join, HalfOf
<1>. QED BY <1>2, <1>3 DEF Halves

(***************************************************************************)
(* delay.  The invariant follows a value of the counter through the two    *)
(* loads that read it: the first load dates from some count since the call *)
(* and, without a carry, with the same high half as now; so what the two   *)
(* loads make is a count since the call, and the sum that the loop         *)
(* compares with is that of a real count.                                  *)
(***************************************************************************)
DelayTyped ==
    /\ ticks \in Nat /\ began \in 0..ticks /\ torn \in BOOLEAN
    /\ dl \in [op : {"none", "start", "start2", "check", "check2", "done"},
               ms : Nat, start : Nat, half : Halves, first : Nat]

FirstLoaded ==
    (dl.op \in {"start2", "check2"} /\ ~torn) =>
      \E t \in began..ticks : dl.first = HalfOf(t, dl.half) /\ t \div WORD = ticks \div WORD

StartCounted == (dl.op \in {"check", "check2", "done"} /\ ~torn) => dl.start >= began

DInv == DelayTyped /\ FirstLoaded /\ StartCounted /\ DelayNotShort

LEMMA SeenTyped ==
    ASSUME DelayTyped
    PROVE  Seen \in Nat
<1>1. ticks \div WORD \in Nat /\ ticks % WORD \in Nat /\ WORD \in Nat
  BY SysTickAssumption, Division DEF DelayTyped
<1>2. dl.first \in Nat
  BY DEF DelayTyped
<1> QED BY <1>1, <1>2 DEF Seen, Join, HalfOf

LEMMA SeenCounted ==
    ASSUME DelayTyped, FirstLoaded, dl.op \in {"start2", "check2"}, ~torn
    PROVE  Seen \in began..ticks
<1>1. PICK t \in began..ticks : dl.first = HalfOf(t, dl.half) /\ t \div WORD = ticks \div WORD
  BY DEF FirstLoaded
<1>2. t \in Nat /\ ticks \in Nat /\ t <= ticks /\ dl.half \in Halves /\ began \in Nat
  BY <1>1 DEF DelayTyped
<1>3. Seen \in t..ticks
  BY <1>1, <1>2, LoadsExact DEF Seen
<1> QED BY <1>2, <1>3

LEMMA DInvInit == Init => DInv
<1> SUFFICES ASSUME Init
             PROVE  DInv
  OBVIOUS
<1>1. ticks = 0 /\ began = 0 /\ torn = FALSE /\ dl = NoDelay
  BY DEF Init, SysTickInit
<1>2. NoDelay \in [op : {"none", "start", "start2", "check", "check2", "done"},
                  ms : Nat, start : Nat, half : Halves, first : Nat] /\ NoDelay.op = "none"
  BY DEF NoDelay, Halves
<1>3. DelayTyped
  <2>1. torn \in BOOLEAN
    BY <1>1, Zenon
  <2>3. ticks \in Nat /\ began \in 0..ticks
    BY <1>1
  <2>2. dl \in [op : {"none", "start", "start2", "check", "check2", "done"},
               ms : Nat, start : Nat, half : Halves, first : Nat]
    BY <1>1, <1>2
  <2>. QED BY <2>1, <2>2, <2>3 DEF DelayTyped
<1>4. FirstLoaded /\ StartCounted /\ DelayNotShort
  BY <1>1, <1>2 DEF FirstLoaded, StartCounted, DelayNotShort
<1>. QED BY <1>3, <1>4 DEF DInv

\* The counter moves between two steps of a delay.
LEMMA DInvTick ==
    ASSUME DInv, SysTick_Handler
    PROVE  DInv'
<1>1. ticks \in Nat /\ ticks' = ticks + 1 /\ began' = began /\ dl' = dl /\ began \in 0..ticks
  BY DEF DInv, DelayTyped, SysTick_Handler
<1>2. torn' = (torn \/ (dl.op \in {"start2", "check2"} /\ (ticks + 1) % WORD = 0))
  BY <1>1 DEF SysTick_Handler
<1>3. DelayTyped'
  BY <1>1, <1>2 DEF DInv, DelayTyped
<1>4. FirstLoaded'
  <2>1. SUFFICES ASSUME dl.op \in {"start2", "check2"}, ~torn'
                 PROVE  \E t \in began..(ticks + 1) :
                          dl.first = HalfOf(t, dl.half) /\ t \div WORD = (ticks + 1) \div WORD
    BY <1>1 DEF FirstLoaded, HalfOf
  <2>2. ~torn /\ (ticks + 1) % WORD # 0
    BY <1>2, <2>1
  <2>3. (ticks + 1) \div WORD = ticks \div WORD
    BY <1>1, <2>2, NoCarry
  <2>4. PICK t \in began..ticks : dl.first = HalfOf(t, dl.half) /\ t \div WORD = ticks \div WORD
    BY <2>1, <2>2 DEF DInv, FirstLoaded
  <2>5. t \in began..(ticks + 1)
    BY <1>1, <2>4
  <2>. QED BY <2>3, <2>4, <2>5
<1>5. StartCounted'
  BY <1>1, <1>2 DEF DInv, StartCounted
<1>6. DelayNotShort'
  <2>1. dl.ms \in Nat /\ began \in Nat
    BY DEF DInv, DelayTyped
  <2>2. ~torn' => ~torn
    BY <1>2
  <2>3. (dl.op = "done" /\ ~torn) => ticks - began >= dl.ms
    BY DEF DInv, DelayNotShort
  <2>. QED BY <1>1, <2>1, <2>2, <2>3 DEF DelayNotShort
<1>. QED BY <1>3, <1>4, <1>5, <1>6 DEF DInv

\* The first load is of the present count.
LEMMA DInvFirst ==
    ASSUME DInv, LoadFirst
    PROVE  DInv'
<1>1. PICK h \in Halves :
        dl' = [dl EXCEPT !.op = IF @ = "start" THEN "start2" ELSE "check2",
                         !.half = h, !.first = HalfOf(ticks, h)]
  BY DEF LoadFirst
<1>2. ticks' = ticks /\ began' = began /\ torn' = torn /\ dl.op \in {"start", "check"}
  BY DEF LoadFirst
<1>3. ticks \in Nat /\ began \in 0..ticks /\ HalfOf(ticks, h) \in Nat
  BY Division DEF DInv, DelayTyped, HalfOf
<1>4. /\ dl'.op = IF dl.op = "start" THEN "start2" ELSE "check2"
      /\ dl'.half = h /\ dl'.first = HalfOf(ticks, h) /\ dl'.start = dl.start /\ dl'.ms = dl.ms
  BY <1>1 DEF DInv, DelayTyped
<1>5. DelayTyped'
  BY <1>1, <1>2, <1>3 DEF DInv, DelayTyped
<1>6. FirstLoaded'
  <2>1. ticks \in began..ticks
    BY <1>3
  <2>. QED BY <1>2, <1>4, <2>1 DEF FirstLoaded, HalfOf
<1>7. StartCounted'
  BY <1>2, <1>4 DEF DInv, StartCounted
<1>8. DelayNotShort'
  BY <1>2, <1>4 DEF DelayNotShort
<1>. QED BY <1>5, <1>6, <1>7, <1>8 DEF DInv

LEMMA DInvStart ==
    ASSUME DInv, LoadStart
    PROVE  DInv'
<1>1. /\ dl' = [dl EXCEPT !.op = "check", !.start = Seen] /\ dl.op = "start2"
      /\ ticks' = ticks /\ began' = began /\ torn' = torn
  BY DEF LoadStart
<1>2. Seen \in Nat /\ (~torn => Seen \in began..ticks)
  BY <1>1, SeenTyped, SeenCounted DEF DInv
<1>3. dl'.op = "check" /\ dl'.start = Seen
  BY <1>1 DEF DInv, DelayTyped
<1>4. DelayTyped'
  BY <1>1, <1>2 DEF DInv, DelayTyped
<1>5. FirstLoaded' /\ DelayNotShort'
  BY <1>3 DEF FirstLoaded, DelayNotShort
<1>6. StartCounted'
  <2>1. began \in Nat /\ ticks \in Nat
    BY DEF DInv, DelayTyped
  <2>. QED BY <1>1, <1>2, <1>3, <2>1 DEF StartCounted
<1>. QED BY <1>4, <1>5, <1>6 DEF DInv

\* The loop ends on a count that is at least ms after one since the call.
LEMMA DInvCheck ==
    ASSUME DInv, Check
    PROVE  DInv'
<1>1. /\ dl' = [dl EXCEPT !.op = IF dl.start + dl.ms > Seen THEN "check" ELSE "done"]
      /\ dl.op = "check2" /\ ticks' = ticks /\ began' = began /\ torn' = torn
  BY DEF Check
<1>2. Seen \in Nat /\ (~torn => Seen \in began..ticks)
  BY <1>1, SeenTyped, SeenCounted DEF DInv
<1>3. /\ dl'.op = IF dl.start + dl.ms > Seen THEN "check" ELSE "done"
      /\ dl'.start = dl.start /\ dl'.ms = dl.ms
  BY <1>1 DEF DInv, DelayTyped
<1>4. DelayTyped'
  BY <1>1 DEF DInv, DelayTyped
<1>5. FirstLoaded'
  BY <1>3 DEF FirstLoaded
<1>6. StartCounted'
  BY <1>1, <1>3 DEF DInv, StartCounted
<1>7. DelayNotShort'
  <2>1. began \in Nat /\ ticks \in Nat /\ dl.start \in Nat /\ dl.ms \in Nat
    BY DEF DInv, DelayTyped
  <2>2. ~torn => dl.start >= began
    BY <1>1 DEF DInv, StartCounted
  <2>. QED BY <1>1, <1>2, <1>3, <2>1, <2>2 DEF DelayNotShort
<1>. QED BY <1>4, <1>5, <1>6, <1>7 DEF DInv

LEMMA DInvCall ==
    ASSUME DInv, NEW ms \in Nat, delay(ms)
    PROVE  DInv'
<1>1. dl' = [NoDelay EXCEPT !.op = "start", !.ms = ms] /\ began' = ticks /\ torn' = FALSE /\ ticks' = ticks
  BY DEF delay
<1>2. DelayTyped'
  <2> DEFINE new == [NoDelay EXCEPT !.op = "start", !.ms = ms]
  <2>1. new \in [op : {"none", "start", "start2", "check", "check2", "done"},
                ms : Nat, start : Nat, half : Halves, first : Nat]
    BY DEF NoDelay, Halves
  <2>2. ticks \in Nat /\ ticks \in 0..ticks
    BY DEF DInv, DelayTyped
  <2> HIDE DEF new
  <2>. QED BY <1>1, <2>1, <2>2 DEF DelayTyped, new
<1>3. FirstLoaded' /\ StartCounted' /\ DelayNotShort'
  BY <1>1 DEF FirstLoaded, StartCounted, DelayNotShort, NoDelay
<1>. QED BY <1>2, <1>3 DEF DInv

\* Nothing but the counter and delay itself touches a delay.
LEMMA DInvKept ==
    ASSUME DInv, UNCHANGED <<ticks, dl, began, torn>>
    PROVE  DInv'
<1>1. DelayTyped' /\ StartCounted' /\ DelayNotShort'
  BY DEF DInv, DelayTyped, StartCounted, DelayNotShort
<1>2. FirstLoaded'
  BY DEF DInv, FirstLoaded, HalfOf
<1>. QED BY <1>1, <1>2 DEF DInv

LEMMA DInvStep == DInv /\ [Next]_vars => DInv'
<1> SUFFICES ASSUME DInv, [Next]_vars
             PROVE  DInv'
  OBVIOUS
<1>1. CASE UNCHANGED tickVars \/ UNCHANGED vars \/ systick_init
  BY <1>1, DInvKept DEF tickVars, vars, systick_init
<1>2. CASE systick
  BY <1>2, DInvTick DEF systick
<1>3. CASE RunDelay
  BY <1>3, DInvFirst, DInvStart, DInvCheck DEF RunDelay, delay_step
<1>4. CASE CallDelay
  BY <1>1, <1>4, DInvCall, BoardAssumption DEF CallDelay
<1>. QED BY <1>1, <1>2, <1>3, <1>4 DEF Next, thread, run, exti, outside, CallConfig,
                                      CallRegister, CallLeds, leds_toggle, RunRegister, RunLeds

\* delay(ms) never returns before ms ticks have come, unless a carry of the counter
\* fell between two loads of it: for every width of a word, every duration, every
\* moment of the call and every place of the ticks between the loads
\* (cortex_m4_systick.c:20-25).
THEOREM DelayLasts == Spec => []DelayNotShort
<1>1. Spec => []DInv
  BY DInvInit, DInvStep, PTL DEF Spec
<1>2. DInv => DelayNotShort
  BY DEF DInv
<1>. QED BY <1>1, <1>2, PTL

(***************************************************************************)
(* Registrations.                                                          *)
(***************************************************************************)
GrantedInv == rtsr \cup ftsr \subseteq granted

LEMMA GrantedInvStep == GrantedInv /\ [Next]_vars => GrantedInv'
<1> SUFFICES ASSUME GrantedInv, [Next]_vars
             PROVE  GrantedInv'
  OBVIOUS
<1>1. CASE UNCHANGED <<rtsr, ftsr, granted>>
  BY <1>1 DEF GrantedInv
<1>2. CASE RegisterEdge
  BY <1>2 DEF GrantedInv, RegisterEdge, Return, set_reg_bits
<1>. QED BY <1>1, <1>2
         DEF Next, vars, extiVars, thread, run, exti, systick, outside, CallConfig,
             CallRegister, CallDelay, CallLeds, leds_toggle, leds_toggle, RunRegister, RunDelay, RunLeds, register_step,
             RegisterBegin, RegisterNvic, RegisterRoute, RegisterUnmask, Edge, EXTI_IRQHandler

\* Whatever the calls of gpio_register_exti_handler and wherever they fail, a line
\* can interrupt only once a registration of its pin returned 0 (gpio.c:346-391).
THEOREM RefusedStaysMasked == Spec => []OnlyGranted
<1>1. Init => GrantedInv
  BY DEF Init, ExtiInit, GrantedInv
<1>2. Spec => []GrantedInv
  BY <1>1, GrantedInvStep, PTL DEF Spec
<1>3. GrantedInv => OnlyGranted
  BY DEF GrantedInv, OnlyGranted
<1>. QED BY <1>2, <1>3, PTL
============================================================================
