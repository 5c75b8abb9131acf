----------------------------- MODULE BootProofs -----------------------------
(***************************************************************************)
(* What main has set up, for any two lines, any number of bytes at any     *)
(* moment and any width of the length: the order in which a line is opened *)
(* to interrupts and the counts of usart_read; that no frequency is ever   *)
(* above what the flash and the buses stand; the baud rate and the pins of *)
(* every USART initialised.                                                *)
(***************************************************************************)
EXTENDS Boot, RegisterProofs

(***************************************************************************)
(* The registers of the USARTs are records of six fields: a write to one   *)
(* of them leaves the others, and the other USARTs.                        *)
(***************************************************************************)
Whole(r) == r = [sr |-> r.sr, cr1 |-> r.cr1, cr2 |-> r.cr2,
                 cr3 |-> r.cr3, gtpr |-> r.gtpr, brr |-> r.brr]

AllWhole(x) == x = [u \in Usarts |-> x[u]] /\ \A u \in Usarts : Whole(x[u])

Written(y, x, k, r) == y = [x EXCEPT ![k] = r]

LEMMA WriteOne ==
    ASSUME NEW x, AllWhole(x), NEW k, NEW r, k \in Usarts => Whole(r),
           NEW y, Written(y, x, k, r)
    PROVE  AllWhole(y)
<1>1. x = [u \in Usarts |-> x[u]]
  BY DEF AllWhole
<1>2. y = [u \in Usarts |-> IF u = k THEN r ELSE x[u]]
  BY <1>1 DEF Written
<1>3. \A u \in Usarts : y[u] = IF u = k THEN r ELSE x[u]
  BY <1>2
<1>4. y = [u \in Usarts |-> y[u]]
  BY <1>2
<1>5. \A u \in Usarts : Whole(y[u])
  BY <1>3 DEF AllWhole
<1>. QED BY <1>4, <1>5 DEF AllWhole

\* Changing one field of a record.
LEMMA WriteField ==
    ASSUME NEW r, Whole(r), NEW v
    PROVE  /\ Whole([r EXCEPT !.sr = v]) /\ [r EXCEPT !.sr = v].sr = v
           /\ Whole([r EXCEPT !.cr1 = v]) /\ [r EXCEPT !.cr1 = v].sr = r.sr
           /\ Whole([r EXCEPT !.cr2 = v]) /\ [r EXCEPT !.cr2 = v].sr = r.sr
           /\ Whole([r EXCEPT !.cr3 = v]) /\ [r EXCEPT !.cr3 = v].sr = r.sr
           /\ Whole([r EXCEPT !.gtpr = v]) /\ [r EXCEPT !.gtpr = v].sr = r.sr
           /\ Whole([r EXCEPT !.brr = v]) /\ [r EXCEPT !.brr = v].sr = r.sr
<1> DEFINE a == r.sr
           b == r.cr1
           c == r.cr2
           d == r.cr3
           e == r.gtpr
           f == r.brr
<1>1. r = [sr |-> a, cr1 |-> b, cr2 |-> c, cr3 |-> d, gtpr |-> e, brr |-> f]
  BY DEF Whole
<1> HIDE DEF a, b, c, d, e, f
<1>2. /\ [r EXCEPT !.sr = v]   = [sr |-> v, cr1 |-> b, cr2 |-> c, cr3 |-> d, gtpr |-> e, brr |-> f]
      /\ [r EXCEPT !.cr1 = v]  = [sr |-> a, cr1 |-> v, cr2 |-> c, cr3 |-> d, gtpr |-> e, brr |-> f]
      /\ [r EXCEPT !.cr2 = v]  = [sr |-> a, cr1 |-> b, cr2 |-> v, cr3 |-> d, gtpr |-> e, brr |-> f]
      /\ [r EXCEPT !.cr3 = v]  = [sr |-> a, cr1 |-> b, cr2 |-> c, cr3 |-> v, gtpr |-> e, brr |-> f]
      /\ [r EXCEPT !.gtpr = v] = [sr |-> a, cr1 |-> b, cr2 |-> c, cr3 |-> d, gtpr |-> v, brr |-> f]
      /\ [r EXCEPT !.brr = v]  = [sr |-> a, cr1 |-> b, cr2 |-> c, cr3 |-> d, gtpr |-> e, brr |-> v]
  BY <1>1
<1>3. \A p, q, s, t, w, z :
        LET n == [sr |-> p, cr1 |-> q, cr2 |-> s, cr3 |-> t, gtpr |-> w, brr |-> z]
        IN  Whole(n) /\ n.sr = p
  BY DEF Whole
<1>4. r.sr = a
  BY DEF a
<1>. QED BY <1>2, <1>3, <1>4

\* What of the status register asks for a receive interrupt.
Got(u) == {SR.RXNE, SR.OVERRUN} \cap usart[u].sr

\* A step of the software: it takes such a request back or leaves it.
Calms == AllWhole(usart') /\ \A u \in Usarts : Got(u)' \subseteq Got(u)

LEMMA WriteCalms ==
    ASSUME AllWhole(usart), NEW k, NEW r, usart' = [usart EXCEPT ![k] = r],
           k \in Usarts => Whole(r) /\ {SR.RXNE, SR.OVERRUN} \cap r.sr \subseteq usart[k].sr
    PROVE  Calms
<1>0. Written(usart', usart, k, r)
  BY DEF Written
<1>1. AllWhole(usart')
  BY <1>0, WriteOne
<1>4. ASSUME NEW u \in Usarts PROVE (u = k => usart'[u] = r) /\ (u # k => usart'[u] = usart[u])
  <2>1. usart = [v \in Usarts |-> usart[v]]
    BY DEF AllWhole
  <2>. QED BY <2>1 DEF Written
<1>2. ASSUME NEW u \in Usarts PROVE Got(u)' \subseteq Got(u)
  BY <1>4 DEF Got
<1>. QED BY <1>1, <1>2 DEF Calms

LEMMA SameCalms ==
    ASSUME AllWhole(usart), usart' = usart
    PROVE  Calms
  BY DEF Calms, Got

\* A write to one field: any of another register, or fewer bits of the status.
LEMMA FieldCalms ==
    ASSUME AllWhole(usart), NEW k, NEW v,
           \/ usart' = [usart EXCEPT ![k] = [usart[k] EXCEPT !.cr1 = v]]
           \/ usart' = [usart EXCEPT ![k] = [usart[k] EXCEPT !.cr2 = v]]
           \/ usart' = [usart EXCEPT ![k] = [usart[k] EXCEPT !.cr3 = v]]
           \/ usart' = [usart EXCEPT ![k] = [usart[k] EXCEPT !.gtpr = v]]
           \/ /\ usart' = [usart EXCEPT ![k] = [usart[k] EXCEPT !.sr = v]]
              /\ {SR.RXNE, SR.OVERRUN} \cap v \subseteq usart[k].sr
    PROVE  Calms
<1> DEFINE old == usart[k]
<1>0. k \in Usarts => Whole(old)
  BY DEF AllWhole
<1> HIDE DEF old
<1>1. PICK r :
        /\ usart' = [usart EXCEPT ![k] = r]
        /\ \/ r = [old EXCEPT !.cr1 = v]
           \/ r = [old EXCEPT !.cr2 = v]
           \/ r = [old EXCEPT !.cr3 = v]
           \/ r = [old EXCEPT !.gtpr = v]
           \/ r = [old EXCEPT !.sr = v] /\ {SR.RXNE, SR.OVERRUN} \cap v \subseteq old.sr
  BY DEF old
<1>2. k \in Usarts => Whole(r) /\ {SR.RXNE, SR.OVERRUN} \cap r.sr \subseteq old.sr
  <2>1. SUFFICES ASSUME Whole(old)
                 PROVE  Whole(r) /\ {SR.RXNE, SR.OVERRUN} \cap r.sr \subseteq old.sr
    BY <1>0
  <2>2. CASE r = [old EXCEPT !.sr = v] /\ {SR.RXNE, SR.OVERRUN} \cap v \subseteq old.sr
    BY <2>1, <2>2, WriteField
  <2>3. CASE r = [old EXCEPT !.cr1 = v]
    BY <2>1, <2>3, WriteField
  <2>4. CASE r = [old EXCEPT !.cr2 = v]
    BY <2>1, <2>4, WriteField
  <2>5. CASE r = [old EXCEPT !.cr3 = v]
    BY <2>1, <2>5, WriteField
  <2>6. CASE r = [old EXCEPT !.gtpr = v]
    BY <2>1, <2>6, WriteField
  <2>. QED BY <1>1, <2>2, <2>3, <2>4, <2>5, <2>6
<1>. QED BY <1>1, <1>2, WriteCalms DEF old

\* usart_putc, usart_getc, and the bits of DMA and of the enable.
LEMMA PollCalms ==
    ASSUME AllWhole(usart), NEW u,
           \/ usart_putc(u) \/ usart_getc(u)
           \/ usart_enable_dma(u) \/ usart_disable_dma(u) \/ usart_disable(u)
    PROVE  Calms
<1>1. CASE usart_putc(u) \/ usart_getc(u)
  <2>1. PICK v : /\ usart' = [usart EXCEPT ![u] = [usart[u] EXCEPT !.sr = v]]
                 /\ {SR.RXNE, SR.OVERRUN} \cap v \subseteq usart[u].sr
    BY <1>1 DEF usart_putc, usart_getc
  <2>. QED BY <2>1, FieldCalms
<1>2. CASE usart_enable_dma(u) \/ usart_disable_dma(u)
  <2>1. PICK v : usart' = [usart EXCEPT ![u] = [usart[u] EXCEPT !.cr3 = v]]
    BY <1>2 DEF usart_enable_dma, usart_disable_dma
  <2>. QED BY <2>1, FieldCalms
<1>3. CASE usart_disable(u)
  <2>1. PICK v : usart' = [usart EXCEPT ![u] = [usart[u] EXCEPT !.cr1 = v]]
    BY <1>3 DEF usart_disable
  <2>. QED BY <2>1, FieldCalms
<1>. QED BY <1>1, <1>2, <1>3

\* The steps of usart_init that write registers of the USART.
RegisterSteps ==
    BaudAndEnable \/ Control1 \/ Control2 \/ Control3 \/ GuardTime \/ ClearStatus

LEMMA RegistersCalm ==
    ASSUME AllWhole(usart), RegisterSteps
    PROVE  Calms
<1> DEFINE u == config.usart
<1>1. CASE BaudAndEnable
  <2>1. PICK v, w : usart' = [usart EXCEPT ![u] = [[usart[u] EXCEPT !.brr = v] EXCEPT !.cr1 = w]]
    BY <1>1 DEF BaudAndEnable, Write
  <2> DEFINE old == usart[u]
             q == [old EXCEPT !.brr = v]
             r == [q EXCEPT !.cr1 = w]
  <2>0. u \in Usarts => Whole(old)
    BY DEF AllWhole
  <2> HIDE DEF old
  <2>2. u \in Usarts => Whole(q) /\ q.sr = old.sr
    BY <2>0, WriteField
  <2> HIDE DEF q
  <2>3. u \in Usarts => Whole(r) /\ r.sr = old.sr
    BY <2>2, WriteField
  <2> HIDE DEF r
  <2>4. usart' = [usart EXCEPT ![u] = r]
    BY <2>1 DEF r, q, old
  <2>5. u \in Usarts => Whole(r) /\ {SR.RXNE, SR.OVERRUN} \cap r.sr \subseteq usart[u].sr
    BY <2>3 DEF old
  <2> HIDE DEF u
  <2>. QED BY <2>4, <2>5, WriteCalms
<1>2. CASE Control1
  <2>1. PICK v : usart' = [usart EXCEPT ![u] = [usart[u] EXCEPT !.cr1 = v]]
    BY <1>2 DEF Control1, Write
  <2>. QED BY <2>1, FieldCalms
<1>3. CASE Control2
  <2>1. PICK v : usart' = [usart EXCEPT ![u] = [usart[u] EXCEPT !.cr2 = v]]
    BY <1>3 DEF Control2, Write
  <2>. QED BY <2>1, FieldCalms
<1>4. CASE Control3 /\ usart' # usart
  <2>1. PICK v : usart' = [usart EXCEPT ![u] = [usart[u] EXCEPT !.cr3 = v]]
    BY <1>4 DEF Control3, Write
  <2>. QED BY <2>1, FieldCalms
<1>5. CASE GuardTime /\ usart' # usart
  <2>1. PICK v : usart' = [usart EXCEPT ![u] = [usart[u] EXCEPT !.gtpr = v]]
    BY <1>5 DEF GuardTime, Write
  <2>. QED BY <2>1, FieldCalms
<1>6. CASE ClearStatus
  <2>1. PICK v : /\ usart' = [usart EXCEPT ![u] = [usart[u] EXCEPT !.sr = v]]
                 /\ {SR.RXNE, SR.OVERRUN} \cap v \subseteq usart[u].sr
    BY <1>6 DEF ClearStatus, Write
  <2>. QED BY <2>1, FieldCalms
<1>7. CASE usart' = usart
  BY <1>7, SameCalms
<1>. QED BY <1>1, <1>2, <1>3, <1>4, <1>5, <1>6, <1>7 DEF RegisterSteps

(***************************************************************************)
(* The invariant.  A request without a handler exists only between two     *)
(* steps of usart_init, on the protocol's line or with interrupts masked;  *)
(* until the protocol's line has its handler and its pointer, a byte there *)
(* counts as early.                                                        *)
(***************************************************************************)
HandlerNames == {"console_data_received", "_comm_byte_received"}

Typed ==
    /\ console \in Usarts /\ protocol \in Usarts /\ console # protocol
    /\ AllWhole(usart)
    /\ early \in [Usarts -> Nat]
    /\ cb \in [Usarts -> {NULL} \cup HandlerNames]
    /\ ptr \in [Pointers -> Usarts \cup {NULL}]
    /\ irq.step \in {"none", "flush"} \cup HandlerNames
    /\ irq = [usart |-> irq.usart, step |-> irq.step]
    /\ done = [u \in Usarts |-> done[u]]

Initialising == pc \in {"console_init", "protocol_init", "other_init"}

Where ==
    /\ pc \in {"clock", "leds", "console", "console_init", "console_log", "enable"} => masked
    /\ pc = "console_init" => config = debug_console_init
    /\ pc = "protocol_init" => config = protocol_init
    /\ pc = "other_init" => config \in ExtraConfigs /\ config.usart \notin {console, protocol}
    /\ upc # "idle" => Initialising \/ pc \in {"panic", "fault"}

Ready == cb[protocol] # NULL /\ ptr["protocol_getc"] # NULL

Unhandled ==
    \A u \in Usarts :
      (u \in nvic /\ cb[u] = NULL) =>
        /\ upc = "cb" /\ config.usart = u /\ config.callback_irq_handler # NULL
        /\ u = protocol \/ masked

Opened ==
    /\ ~Ready => done[protocol] = NULL
    /\ (~Ready /\ Got(protocol) # {}) => early[protocol] > 0
    /\ (upc = "getc" /\ config.usart = protocol) => cb[protocol] # NULL
    /\ (upc = "putc" /\ config.usart = protocol) => Ready

Entered ==
    /\ \A u \in Usarts : cb[u] = "_comm_byte_received" => u = protocol
    /\ (irq.step = "_comm_byte_received" /\ ptr["protocol_getc"] = NULL) => early[protocol] > 0
    /\ pc = "fault" => early[protocol] > 0

BInv == Typed /\ Where /\ Unhandled /\ Opened /\ Entered

LEMMA BInvInit == Init => BInv
<1> SUFFICES ASSUME Init
             PROVE  BInv
  OBVIOUS
<1>1. /\ usart = [u \in Usarts |-> RegsReset] /\ nvic = {} /\ cb = [u \in Usarts |-> NULL]
      /\ ptr = [p \in Pointers |-> NULL] /\ upc = "idle" /\ done = [u \in Usarts |-> NULL]
      /\ early = [u \in Usarts |-> 0] /\ pc = "start" /\ irq = NoIrq
  BY DEF Init, UsartInit
<1>2. console \in Usarts /\ protocol \in Usarts /\ console # protocol
  BY BootAssumption DEF Init
<1>3. Whole(RegsReset) /\ {SR.RXNE, SR.OVERRUN} \cap RegsReset.sr = {}
  BY DEF Whole, RegsReset, SR
<1>4. AllWhole(usart) /\ Got(protocol) = {}
  BY <1>1, <1>2, <1>3 DEF AllWhole, Got
<1>5. Typed
  BY <1>1, <1>2, <1>4 DEF Typed, NoIrq
<1>6. Where /\ Unhandled
  BY <1>1 DEF Where, Unhandled
<1>7. Opened
  BY <1>1, <1>2, <1>4 DEF Opened
<1>8. Entered
  <2>1. \A u \in Usarts : cb[u] # "_comm_byte_received"
    BY <1>1, BootAssumption
  <2>. QED BY <1>1, <2>1 DEF Entered, NoIrq
<1>. QED BY <1>5, <1>6, <1>7, <1>8 DEF BInv

\* A step that leaves usart_init, the tables and the counts of bytes where they are.
Settled == UNCHANGED <<console, protocol, nvic, cb, ptr, config, upc, done, early>>

LEMMA SettledStep ==
    ASSUME BInv, Settled, Calms, Where', masked => masked' \/ upc = "idle",
           irq'.step \in {"none", "flush"} \cup HandlerNames,
           irq' = [usart |-> irq'.usart, step |-> irq'.step],
           (irq'.step = "_comm_byte_received" /\ ptr["protocol_getc"] = NULL) => early[protocol] > 0,
           pc' = "fault" => early[protocol] > 0
    PROVE  BInv'
<1>1. Typed'
  BY DEF BInv, Typed, Settled, Calms
<1>2. Unhandled'
  BY DEF BInv, Unhandled, Settled
<1>3. Opened'
  <2>1. Ready' <=> Ready
    BY DEF Ready, Settled
  <2>2. Got(protocol)' \subseteq Got(protocol)
    BY DEF BInv, Typed, Calms, Settled, Got
  <2>. QED BY <2>1, <2>2 DEF BInv, Opened, Settled
<1>4. Entered'
  BY DEF BInv, Entered, Settled
<1>. QED BY <1>1, <1>2, <1>3, <1>4 DEF BInv

\* The steps of the thread outside usart_init.
LEMMA ThreadStep ==
    ASSUME BInv,
           \/ Start \/ RunSystemInit \/ leds_init \/ Log \/ enable_irq \/ Stays
           \/ SwitchBits \/ BeginIo \/ ReadByte \/ WriteByte \/ EndIo \/ Polls
    PROVE  BInv'
<1>0. AllWhole(usart) /\ Typed /\ Where /\ Entered
  BY DEF BInv, Typed
<1>1. Settled /\ irq' = irq
  BY DEF Settled, Start, RunSystemInit, leds_init, Log, enable_irq, Stays, SwitchBits, BeginIo,
         ReadByte, WriteByte, EndIo, Polls, Goto, ApiStep, IoTurn, IoStep, usartVars, vars
<1>5. pc' = "fault" => pc = "fault"
  <2>1. CASE Log
    <3>1. pc \in {"console_log", "log", "protocol_log"}
      BY <2>1 DEF Log, AfterLog
    <3>2. AfterLog[pc] # "fault"
      BY <3>1 DEF AfterLog
    <3>. QED BY <2>1, <3>2 DEF Log
  <2>2. CASE ReadByte
    <3>1. pc' \in {"tests", "api"}
      BY <2>2 DEF ReadByte
    <3>. QED BY <3>1
  <2>3. CASE ~Log /\ ~ReadByte
    BY <2>3 DEF Start, RunSystemInit, leds_init, enable_irq, Stays, SwitchBits, BeginIo,
       WriteByte, EndIo, Polls, Goto, ApiStep, IoTurn, vars
  <2>. QED BY <2>1, <2>2, <2>3
<1>2. Calms
  <2>1. CASE usart' = usart
    BY <1>0, <2>1, SameCalms
  <2>2. CASE Log /\ usart' # usart
    BY <1>0, <2>2, PollCalms DEF Log
  <2>3. CASE SwitchBits
    BY <1>0, <2>3, PollCalms DEF SwitchBits
  <2>4. CASE ReadByte \/ WriteByte
    BY <1>0, <2>4, PollCalms DEF ReadByte, WriteByte
  <2>. QED BY <2>1, <2>2, <2>3, <2>4
       DEF Start, RunSystemInit, leds_init, enable_irq, Stays, BeginIo, EndIo, Polls, Goto,
           usartVars, vars
<1>3. Where'
  <2>1. CASE Start \/ RunSystemInit \/ leds_init
    BY <1>0, <1>1, <2>1 DEF Start, RunSystemInit, leds_init, Goto, Where, Settled, Initialising,
       usartVars
  <2>2. CASE Log
    BY <1>0, <1>1, <2>2 DEF Log, AfterLog, Where, Settled, Initialising
  <2>3. CASE enable_irq
    BY <1>0, <1>1, <2>3 DEF enable_irq, Goto, Where, Settled, Initialising
  <2>4. CASE Stays \/ Polls
    BY <1>0, <1>1, <2>4 DEF Stays, Polls, vars, Where, Initialising, debug_console_init,
       protocol_init, LineConfig
  <2>5. CASE SwitchBits \/ BeginIo \/ ReadByte \/ WriteByte \/ EndIo
    BY <1>0, <1>1, <2>5 DEF SwitchBits, BeginIo, ReadByte, WriteByte, EndIo, ApiStep, IoTurn,
       Where, Settled, Initialising
  <2>. QED BY <2>1, <2>2, <2>3, <2>4, <2>5
<1>4. masked => masked' \/ upc = "idle"
  BY <1>0 DEF Start, RunSystemInit, leds_init, Log, enable_irq, Stays, SwitchBits, BeginIo, ReadByte,
     WriteByte, EndIo, Polls, Goto, ApiStep, IoTurn, vars, Where, Initialising
<1>. QED BY <1>0, <1>1, <1>2, <1>3, <1>4, <1>5, SettledStep DEF Typed, Entered

\* A call of usart_init only notes what it is for.
LEMMA CallStep ==
    ASSUME BInv, InitConsole \/ InitProtocol \/ InitOther
    PROVE  BInv'
<1>0. AllWhole(usart) /\ Typed /\ Where /\ Unhandled /\ Opened /\ Entered
  BY DEF BInv, Typed
<1>1. /\ UNCHANGED <<console, protocol, nvic, cb, ptr, done, early, usart, masked, irq>>
      /\ upc = "idle" /\ upc' = "clock"
      /\ \/ pc = "console" /\ pc' = "console_init" /\ config' = debug_console_init
         \/ pc = "protocol" /\ pc' = "protocol_init" /\ config' = protocol_init
         \/ pc' = "other_init" /\ config' \in ExtraConfigs /\ config'.usart \notin {console, protocol}
  BY DEF InitConsole, InitProtocol, InitOther, CallUsartInit, usart_init, Goto
<1>2. Typed'
  BY <1>0, <1>1 DEF Typed
<1>3. Where'
  BY <1>0, <1>1 DEF Where, Initialising, debug_console_init, protocol_init, LineConfig
<1>4. Unhandled'
  BY <1>0, <1>1 DEF Unhandled
<1>5. Opened'
  BY <1>0, <1>1 DEF Opened, Ready, Got
<1>6. Entered'
  BY <1>0, <1>1 DEF Entered
<1>. QED BY <1>2, <1>3, <1>4, <1>5, <1>6 DEF BInv

\* What usart_init is for while it runs.
LEMMA Purpose ==
    ASSUME BInv, pc \in DOMAIN AfterInit
    PROVE  /\ config.usart \in Usarts
           /\ config.callback_irq_handler \in {NULL} \cup HandlerNames
           /\ config.callback_irq_handler = "_comm_byte_received" => config.usart = protocol
           /\ config.callback_irq_handler # NULL => config.usart = protocol \/ masked
           /\ config.usart = protocol =>
                /\ config.callback_irq_handler = "_comm_byte_received"
                /\ config.callback_usart_getc_ptr = "protocol_getc"
<1>0. Typed /\ Where
  BY DEF BInv
<1>1. pc \in {"console_init", "protocol_init", "other_init"}
  BY DEF AfterInit
<1>2. CASE pc = "console_init"
  BY <1>0, <1>2, BootAssumption DEF Where, Typed, debug_console_init, LineConfig, HandlerNames
<1>3. CASE pc = "protocol_init"
  BY <1>0, <1>3, BootAssumption DEF Where, Typed, protocol_init, LineConfig, HandlerNames
<1>4. CASE pc = "other_init"
  BY <1>0, <1>4, BootAssumption DEF Where, Typed
<1>. QED BY <1>1, <1>2, <1>3, <1>4

\* A step of usart_init.
LEMMA InitStep ==
    ASSUME BInv, RunUsartInit
    PROVE  BInv'
<1>0. AllWhole(usart) /\ Typed /\ Where /\ Unhandled /\ Opened /\ Entered
  BY DEF BInv, Typed
<1>1. /\ UNCHANGED <<console, protocol, masked, irq>> /\ usart_init_step /\ pc \in DOMAIN AfterInit
      /\ pc' = IF upc' = "panic" THEN "panic" ELSE IF upc' = "idle" THEN AfterInit[pc] ELSE pc
  BY DEF RunUsartInit
<1> DEFINE u == config.usart
<1>2. /\ u \in Usarts
      /\ config.callback_irq_handler \in {NULL} \cup HandlerNames
      /\ config.callback_irq_handler = "_comm_byte_received" => u = protocol
      /\ config.callback_irq_handler # NULL => u = protocol \/ masked
      /\ u = protocol => /\ config.callback_irq_handler = "_comm_byte_received"
                         /\ config.callback_usart_getc_ptr = "protocol_getc"
  BY <1>1, Purpose
<1>3. config' = config /\ early' = early /\ upc # "idle"
  BY <1>1 DEF usart_init_step, usart_clock_init, init_gpio, BaudAndEnable, Control1, Control2,
     Control3, GuardTime, ClearStatus, NVIC_EnableIRQ, RegisterHandler, RegisterGetc,
     RegisterPutc, RegsStep, Step
<1>4. pc' # "fault" /\ Where'
  <2>1. pc \in {"console_init", "protocol_init", "other_init"}
    BY <1>1 DEF AfterInit
  <2>2. /\ upc' = "panic" => pc' = "panic"
        /\ upc' = "idle" => pc' = CASE pc = "console_init" -> "console_log"
                                     [] pc = "protocol_init" -> "protocol_log"
                                     [] OTHER -> "api"
        /\ upc' \notin {"panic", "idle"} => pc' = pc
    BY <1>1, <2>1 DEF AfterInit
  <2>3. /\ debug_console_init' = debug_console_init
        /\ protocol_init' = protocol_init
    BY <1>1 DEF debug_console_init, protocol_init, LineConfig
  <2>. QED BY <1>0, <1>1, <1>3, <2>1, <2>2, <2>3 DEF Where, Initialising
<1>5. CASE \/ usart_clock_init \/ init_gpio \/ RegisterSteps
  <2>1. UNCHANGED <<nvic, cb, ptr, done>> /\ upc' \notin {"cb", "getc", "putc"} /\ upc # "cb"
    BY <1>5 DEF usart_clock_init, init_gpio, RegisterSteps, BaudAndEnable, Control1, Control2,
       Control3, GuardTime, ClearStatus, RegsStep, Step, Panic
  <2>2. Calms
    <3>1. CASE RegisterSteps
      BY <1>0, <3>1, RegistersCalm
    <3>2. CASE usart' = usart
      BY <1>0, <3>2, SameCalms
    <3>. QED BY <1>5, <3>1, <3>2 DEF usart_clock_init, init_gpio
  <2>3. Typed'
    BY <1>0, <1>1, <1>3, <2>1, <2>2 DEF Typed, Calms
  <2>4. Unhandled'
    BY <1>0, <1>1, <1>3, <2>1 DEF Unhandled
  <2>5. Opened'
    <3>1. Ready' <=> Ready
      BY <1>1, <2>1 DEF Ready
    <3>2. Got(protocol)' \subseteq Got(protocol)
      BY <1>0, <1>1, <2>2 DEF Typed, Calms, Got
    <3>. QED BY <1>0, <1>1, <1>3, <2>1, <3>1, <3>2 DEF Opened
  <2>6. Entered'
    BY <1>0, <1>1, <1>3, <1>4, <2>1 DEF Entered
  <2>. QED BY <1>4, <2>3, <2>4, <2>5, <2>6 DEF BInv
<1>6. CASE NVIC_EnableIRQ
  <2>1. /\ UNCHANGED <<usart, cb, ptr, done>> /\ upc = "nvic" /\ upc' = "cb"
        /\ nvic' = IF config.callback_irq_handler # NULL THEN nvic \cup {u} ELSE nvic
    BY <1>6 DEF NVIC_EnableIRQ, Step
  <2>2. Typed'
    BY <1>0, <1>1, <1>3, <2>1 DEF Typed
  <2>3. Unhandled'
    BY <1>0, <1>1, <1>2, <1>3, <2>1 DEF Unhandled
  <2>4. Opened' /\ Entered'
    BY <1>0, <1>1, <1>3, <1>4, <2>1 DEF Opened, Entered, Ready, Got
  <2>. QED BY <1>4, <2>2, <2>3, <2>4 DEF BInv
<1>7. CASE RegisterHandler
  <2> DEFINE h == config.callback_irq_handler
  <2>1. /\ UNCHANGED <<usart, nvic, ptr, done>> /\ upc = "cb" /\ upc' = "getc"
        /\ cb' = IF h # NULL THEN [cb EXCEPT ![u] = h] ELSE cb
    BY <1>7 DEF RegisterHandler, Step
  <2>2. \A v \in Usarts : cb'[v] = IF v = u /\ h # NULL THEN h ELSE cb[v]
    BY <1>0, <1>2, <2>1 DEF Typed
  <2>3. cb' \in [Usarts -> {NULL} \cup HandlerNames]
    BY <1>0, <1>2, <2>1 DEF Typed
  <2>4. Typed'
    BY <1>0, <1>1, <1>3, <2>1, <2>3 DEF Typed
  <2>5. Unhandled'
    <3>1. ASSUME NEW v \in Usarts, v \in nvic, cb'[v] = NULL
          PROVE  FALSE
      <4>1. cb[v] = NULL /\ v = u /\ h # NULL
        BY <1>0, <2>1, <2>2, <3>1 DEF Unhandled
      <4>. QED BY <2>2, <3>1, <4>1
    <3>. QED BY <2>1, <3>1 DEF Unhandled
  <2>6. Opened'
    <3>1. protocol \in Usarts /\ (u = protocol => h # NULL)
      BY <1>0, <1>2, BootAssumption DEF Typed
    <3>2. Ready => Ready'
      BY <1>1, <2>1, <2>2, <3>1 DEF Ready
    <3>3. u = protocol => cb'[protocol] # NULL
      BY <2>2, <3>1
    <3>. QED BY <1>0, <1>1, <1>3, <2>1, <3>2, <3>3 DEF Opened, Got
  <2>7. Entered'
    BY <1>0, <1>1, <1>2, <1>3, <1>4, <2>1, <2>2 DEF Entered
  <2>. QED BY <1>4, <2>4, <2>5, <2>6, <2>7 DEF BInv
<1>8. CASE RegisterGetc
  <2> DEFINE g == config.callback_usart_getc_ptr
  <2>1. /\ UNCHANGED <<usart, nvic, cb, done>> /\ upc = "getc" /\ upc' = "putc"
        /\ ptr' = IF g # NULL THEN [ptr EXCEPT ![g] = u] ELSE ptr
    BY <1>8 DEF RegisterGetc, Step
  <2>2. ptr' \in [Pointers -> Usarts \cup {NULL}]
    BY <1>0, <1>2, <2>1 DEF Typed
  <2>3. "protocol_getc" \in Pointers /\ u # NULL /\ (u = protocol => g # NULL)
    BY <1>2, BootAssumption DEF Pointers
  <2>4. /\ ptr["protocol_getc"] # NULL => ptr'["protocol_getc"] # NULL
        /\ (u = protocol /\ g # NULL) => ptr'["protocol_getc"] # NULL
    BY <1>0, <1>2, <2>1, <2>3 DEF Typed
  <2>5. Typed' /\ Unhandled'
    BY <1>0, <1>1, <1>3, <2>1, <2>2 DEF Typed, Unhandled
  <2>6. Opened'
    <3>1. Ready => Ready'
      BY <1>1, <2>1, <2>4 DEF Ready
    <3>2. u = protocol => Ready'
      <4>1. u = protocol => ptr'["protocol_getc"] # NULL
        BY <2>3, <2>4
      <4>. QED BY <1>0, <1>1, <2>1, <4>1 DEF Opened, Ready
    <3>. QED BY <1>0, <1>1, <1>3, <2>1, <3>1, <3>2 DEF Opened, Got
  <2>7. Entered'
    BY <1>0, <1>1, <1>3, <1>4, <2>1, <2>4 DEF Entered
  <2>. QED BY <1>4, <2>5, <2>6, <2>7 DEF BInv
<1>9. CASE RegisterPutc
  <2> DEFINE g == config.callback_usart_putc_ptr
  <2>1. /\ UNCHANGED <<usart, nvic, cb>> /\ upc = "putc" /\ upc' = "idle"
        /\ ptr' = IF g # NULL THEN [ptr EXCEPT ![g] = u] ELSE ptr
        /\ done' = [done EXCEPT ![u] = config]
    BY <1>9 DEF RegisterPutc, Step
  <2>2. ptr' \in [Pointers -> Usarts \cup {NULL}]
    BY <1>0, <1>2, <2>1 DEF Typed
  <2>3. "protocol_getc" \in Pointers /\ u # NULL
    BY <1>2, BootAssumption DEF Pointers
  <2>4. ptr["protocol_getc"] # NULL => ptr'["protocol_getc"] # NULL
    BY <1>0, <1>2, <2>1, <2>3 DEF Typed
  <2>5. done' = [v \in Usarts |-> done'[v]] /\ (u # protocol => done'[protocol] = done[protocol])
    BY <1>0, <1>2, <2>1 DEF Typed
  <2>6. Typed' /\ Unhandled'
    BY <1>0, <1>1, <1>3, <2>1, <2>2, <2>5 DEF Typed, Unhandled
  <2>7. Opened'
    <3>1. Ready => Ready'
      BY <1>1, <2>1, <2>4 DEF Ready
    <3>2. u = protocol => Ready
      BY <1>0, <2>1 DEF Opened
    <3>. QED BY <1>0, <1>1, <1>3, <2>1, <2>5, <3>1, <3>2 DEF Opened, Got
  <2>8. Entered'
    BY <1>0, <1>1, <1>3, <1>4, <2>1, <2>4 DEF Entered
  <2>. QED BY <1>4, <2>6, <2>7, <2>8 DEF BInv
<1>. QED BY <1>1, <1>5, <1>6, <1>7, <1>8, <1>9 DEF usart_init_step, RegisterSteps

\* The interrupt handlers.
LEMMA InterruptStep ==
    ASSUME BInv, interrupt
    PROVE  BInv'
<1>0. AllWhole(usart) /\ Typed /\ Where /\ Unhandled /\ Opened /\ Entered
  BY DEF BInv, Typed
<1>1. CASE UNCHANGED vars
  <2>1. Settled /\ irq' = irq /\ pc' = pc /\ usart' = usart /\ masked' = masked
    BY <1>1 DEF vars, Settled
  <2>2. Where'
    BY <1>0, <2>1 DEF Settled, Where, Initialising, debug_console_init, protocol_init, LineConfig
  <2>. QED BY <1>0, <2>1, <2>2, SameCalms, SettledStep DEF Typed, Entered
<1>2. ASSUME NEW u \in Usarts, Enter(u) PROVE BInv'
  <2>1. Settled /\ pc' = pc /\ usart' = usart /\ masked' = masked /\ irq' = [usart |-> u, step |-> cb[u]]
    BY <1>2 DEF Enter, Settled, usartVars
  <2>2. Where'
    BY <1>0, <2>1 DEF Settled, Where, Initialising, debug_console_init, protocol_init, LineConfig
  <2>3. irq'.step = cb[u] /\ cb[u] \in HandlerNames /\ irq'.usart = u
    BY <1>0, <1>2, <2>1 DEF Enter, Typed
  <2>4. ASSUME cb[u] = "_comm_byte_received", ptr["protocol_getc"] = NULL
        PROVE  early[protocol] > 0
    <3>1. u = protocol /\ ~Ready
      BY <1>0, <2>4 DEF Entered, Ready
    <3>2. Got(u) # {}
      BY <1>2 DEF Enter, Pending, Requests, Got
    <3>. QED BY <1>0, <3>1, <3>2 DEF Opened
  <2>. QED BY <1>0, <2>1, <2>2, <2>3, <2>4, SameCalms, SettledStep DEF Entered
<1>3. CASE console_data_received
  <2>1. Settled /\ masked' = masked /\ pc' \in {pc, "panic"} /\ irq'.step \in {"none", "flush"}
        /\ irq' = [usart |-> irq'.usart, step |-> irq'.step]
    <3>1. Settled /\ masked' = masked
      BY <1>3 DEF console_data_received, IoStep, Settled
    <3>2. CASE irq.step = "console_data_received"
      <4>1. irq' = [irq EXCEPT !.step = "flush"] /\ pc' = pc
        BY <1>3, <3>2 DEF console_data_received
      <4>. QED BY <1>0, <3>1, <4>1 DEF Typed
    <3>3. CASE irq.step = "flush"
      <4>1. irq' = NoIrq /\ pc' \in {pc, "panic"}
        BY <1>3, <3>3 DEF console_data_received
      <4>. QED BY <3>1, <4>1 DEF NoIrq
    <3>. QED BY <1>3, <3>2, <3>3 DEF console_data_received
  <2>2. Calms
    BY <1>0, <1>3, PollCalms, SameCalms DEF console_data_received
  <2>3. Where'
    BY <1>0, <2>1 DEF Settled, Where, Initialising, debug_console_init, protocol_init, LineConfig
  <2>. QED BY <1>0, <2>1, <2>2, <2>3, SettledStep DEF Entered
<1>4. CASE _comm_byte_received
  <2>1. Settled /\ irq' = NoIrq
    BY <1>4 DEF _comm_byte_received, IoStep, Settled
  <2>2. Calms
    BY <1>0, <1>4, PollCalms, SameCalms DEF _comm_byte_received
  <2>3. \/ pc' = pc /\ masked' = masked
        \/ pc' = "fault" /\ masked' /\ early[protocol] > 0
    BY <1>0, <1>4 DEF _comm_byte_received, Entered
  <2>4. Where'
    BY <1>0, <2>1, <2>3 DEF Settled, Where, Initialising, debug_console_init, protocol_init, LineConfig
  <2>. QED BY <1>0, <2>1, <2>2, <2>3, <2>4, SettledStep DEF Entered, NoIrq
<1>. QED BY <1>1, <1>2, <1>3, <1>4 DEF interrupt, EnterNull, IrqPolls

\* The oscillators and the lines.
LEMMA HardwareStep ==
    ASSUME BInv, hardware
    PROVE  BInv'
<1>0. AllWhole(usart) /\ Typed /\ Where /\ Unhandled /\ Opened /\ Entered
  BY DEF BInv, Typed
<1>1. UNCHANGED <<console, protocol, nvic, cb, ptr, config, upc, done, masked, pc, irq>>
  BY DEF hardware, usartVars, ByteArrives, ByteSent, IoStep
<1>2. Where'
  BY <1>0, <1>1 DEF Where, Initialising, debug_console_init, protocol_init, LineConfig
<1>3. CASE clockHardware /\ UNCHANGED usartVars
  <2>1. Settled /\ usart' = usart
    BY <1>1, <1>3 DEF Settled, usartVars
  <2>. QED BY <1>0, <1>1, <1>2, <2>1, SameCalms, SettledStep DEF Typed, Entered
<1>4. ASSUME NEW u \in Usarts, ByteSent(u) PROVE BInv'
  <2> DEFINE v == usart[u].sr \cup {SR.TXE, SR.TC}
  <2>1. /\ usart' = [usart EXCEPT ![u] = [usart[u] EXCEPT !.sr = v]]
        /\ {SR.RXNE, SR.OVERRUN} \cap v \subseteq usart[u].sr
    BY <1>4 DEF ByteSent, SR
  <2> HIDE DEF v
  <2>2. Calms
    BY <1>0, <2>1, FieldCalms
  <2>3. Settled
    BY <1>1, <1>4 DEF Settled, ByteSent, IoStep
  <2>. QED BY <1>0, <1>1, <1>2, <2>2, <2>3, SettledStep DEF Typed, Entered
<1>5. ASSUME NEW u \in Usarts, ByteArrives(u) PROVE BInv'
  <2>1. PICK v : usart' = [usart EXCEPT ![u] = [usart[u] EXCEPT !.sr = v]]
    BY <1>5 DEF ByteArrives
  <2> DEFINE old == usart[u]
             r == [old EXCEPT !.sr = v]
  <2>2. Whole(old)
    BY <1>0 DEF AllWhole
  <2> HIDE DEF old
  <2>3. Whole(r)
    BY <2>2, WriteField
  <2> HIDE DEF r
  <2>4. Written(usart', usart, u, r)
    BY <2>1 DEF Written, r, old
  <2>5. AllWhole(usart')
    BY <1>0, <2>3, <2>4, WriteOne
  <2>6. early' = [early EXCEPT ![u] = IF done[u] # NULL THEN early[u] ELSE early[u] + 1]
    BY <1>5 DEF ByteArrives
  <2>7. /\ early' \in [Usarts -> Nat] /\ early'[protocol] >= early[protocol]
        /\ (u = protocol /\ done[u] = NULL) => early'[protocol] > 0
    BY <1>0, <2>6 DEF Typed
  <2>8. early[protocol] \in Nat /\ early'[protocol] \in Nat
    BY <1>0, <2>7 DEF Typed
  <2>9. Typed' /\ Unhandled'
    BY <1>0, <1>1, <2>5, <2>7 DEF Typed, Unhandled
  <2>10. Opened'
    <3>1. Ready' <=> Ready
      BY <1>1 DEF Ready
    <3>2. u # protocol => Got(protocol)' = Got(protocol)
      <4>1. usart = [w \in Usarts |-> usart[w]]
        BY <1>0 DEF AllWhole
      <4>. QED BY <1>0, <1>1, <2>4, <4>1 DEF Written, Got, Typed
    <3>3. (~Ready /\ Got(protocol)' # {}) => early'[protocol] > 0
      <4>1. CASE u = protocol
        BY <1>0, <2>7, <4>1 DEF Opened
      <4>2. CASE u # protocol
        BY <1>0, <2>7, <2>8, <3>2, <4>2 DEF Opened
      <4>. QED BY <4>1, <4>2
    <3>. QED BY <1>0, <1>1, <3>1, <3>3 DEF Opened
  <2>11. Entered'
    BY <1>0, <1>1, <2>7, <2>8 DEF Entered
  <2>. QED BY <1>2, <2>9, <2>10, <2>11 DEF BInv
<1>. QED BY <1>3, <1>4, <1>5 DEF hardware

LEMMA BInvStep == BInv /\ [Next]_vars => BInv'
<1> SUFFICES ASSUME BInv, [Next]_vars
             PROVE  BInv'
  OBVIOUS
<1>1. CASE UNCHANGED vars
  <2>1. Settled /\ irq' = irq /\ pc' = pc /\ usart' = usart /\ masked' = masked
    BY <1>1 DEF vars, Settled
  <2>2. Where' /\ AllWhole(usart)
    BY <2>1 DEF BInv, Typed, Settled, Where, Initialising, debug_console_init, protocol_init, LineConfig
  <2>. QED BY <2>1, <2>2, SameCalms, SettledStep DEF BInv, Typed, Entered
<1>. QED BY <1>1, ThreadStep, CallStep, InitStep, InterruptStep, HardwareStep DEF Next, thread

\* A handler is entered through a null pointer, or is missing while its request holds
\* the thread, only if a byte came on the protocol's line while usart_init was at work
\* on it (usart.c:88-112, 351-390): for any two lines, any moment and number of bytes on the
\* six lines and any polled line opened later.
THEOREM BootSafe == Spec => []NullOnlyIfEarly
<1>1. Spec => []BInv
  BY BInvInit, BInvStep, PTL DEF Spec
<1>2. BInv => NullOnlyIfEarly
  <2>1. SUFFICES ASSUME BInv, Storm \/ pc = "fault"
                 PROVE  early[protocol] > 0
    BY DEF NullOnlyIfEarly
  <2>2. CASE pc = "fault"
    BY <2>1, <2>2 DEF BInv, Entered
  <2>3. CASE Storm
    <3>1. PICK u \in Usarts : Pending(u) /\ cb[u] = NULL
      BY <2>3 DEF Storm
    <3>2. u \in nvic /\ ~masked /\ Got(u) # {}
      BY <3>1 DEF Pending, Requests, Got
    <3>3. u = protocol /\ ~Ready
      BY <2>1, <3>1, <3>2 DEF BInv, Unhandled, Ready
    <3>. QED BY <2>1, <3>2, <3>3 DEF BInv, Opened
  <2>. QED BY <2>1, <2>2, <2>3
<1>. QED BY <1>1, <1>2, PTL

(***************************************************************************)
(* usart_read and usart_write.  While one runs, what is left and what is   *)
(* done make the length asked for; the length goes below zero, and round,  *)
(* only on leaving the loop.                                               *)
(***************************************************************************)
Counts ==
    /\ io = [op |-> io.op, usart |-> io.usart, start_len |-> io.start_len, len |-> io.len,
             moved |-> io.moved, last |-> io.last, ret |-> io.ret]
    /\ io.start_len \in 0..(WORD - 2) /\ io.moved \in Nat /\ io.len \in Int
    /\ io.op \in {"read", "write"} => io.len \in Nat /\ io.len + io.moved = io.start_len

RInv == Counts /\ ReadCounts

\* Arithmetic modulo the word.
LEMMA Modulo ==
    ASSUME NEW a \in 0..(WORD - 1)
    PROVE  a % WORD = a /\ (a - WORD) % WORD = a
<1>0. WORD \in Nat /\ WORD > 0
  BY BootAssumption
<1>1. ASSUME NEW x \in Int
      PROVE  x % WORD \in 0..(WORD - 1) /\ x = (x \div WORD) * WORD + (x % WORD) /\ x \div WORD \in Int
  BY <1>0
<1>2. ASSUME NEW q \in Int, NEW r \in 0..(WORD - 1), q * WORD + r = a
      PROVE  q = 0
  <2>1. CASE q > 0
    <3>1. PICK e \in Nat : q = 1 + e
      BY <2>1
    <3>2. q * WORD = WORD + e * WORD /\ e * WORD \in Nat
      BY <1>0, <3>1
    <3>. QED BY <1>0, <1>2, <3>2
  <2>2. CASE q < 0
    <3>1. PICK e \in Nat : q = -1 - e
      <4>1. -1 - q \in Nat /\ q = -1 - (-1 - q)
        BY <2>2
      <4>. QED BY <4>1
    <3>2. q * WORD = -WORD - e * WORD /\ e * WORD \in Nat
      BY <1>0, <3>1
    <3>. QED BY <1>0, <1>2, <3>2
  <2>. QED BY <2>1, <2>2
<1>3. a % WORD = a
  <2>1. a \div WORD = 0
    BY <1>1, <1>2
  <2>. QED BY <1>0, <1>1, <2>1
<1>4. (a - WORD) % WORD = a
  <2> DEFINE q == (a - WORD) \div WORD
             r == (a - WORD) % WORD
  <2>1. a - WORD \in Int
    BY <1>0
  <2>2. q \in Int /\ r \in 0..(WORD - 1) /\ a - WORD = q * WORD + r
    BY <1>1, <2>1
  <2> HIDE DEF q, r
  <2>3. q * WORD \in Int /\ (q + 1) * WORD = q * WORD + WORD
    BY <1>0, <2>2
  <2>4. (q + 1) * WORD + r = a
    BY <1>0, <2>2, <2>3
  <2>5. q + 1 = 0
    BY <1>2, <2>2, <2>4
  <2>6. q = -1
    BY <2>2, <2>5
  <2>7. q * WORD = -WORD
    BY <1>0, <2>6
  <2>8. r = a
    BY <1>0, <2>2, <2>7
  <2>. QED BY <2>8 DEF r
<1>. QED BY <1>3, <1>4

LEMMA RInvInit == Init => RInv
<1>1. WORD \in Nat \ {0, 1}
  BY BootAssumption
<1>. QED BY <1>1 DEF Init, NoIo, RInv, Counts, ReadCounts

\* One turn of usart_read or of usart_write.
LEMMA RInvTurn ==
    ASSUME RInv, ReadByte \/ WriteByte
    PROVE  RInv'
<1>0. /\ WORD \in Nat /\ WORD > 1 /\ io.start_len \in 0..(WORD - 2) /\ io.moved \in Nat
      /\ io.len \in Nat /\ io.len # 0 /\ io.len + io.moved = io.start_len
  <2>1. io.op \in {"read", "write"} /\ io.len # 0
    BY DEF ReadByte, WriteByte
  <2>. QED BY <2>1, BootAssumption DEF RInv, Counts
<1>1. LenDown = io.len - 1
  <2>1. io.len - 1 \in 0..(WORD - 1)
    BY <1>0
  <2>. QED BY <2>1, Modulo DEF LenDown
<1>2. (io.start_len - LenDown) % WORD = io.moved + 1
  <2>1. io.start_len - LenDown = io.moved + 1 /\ io.moved + 1 \in 0..(WORD - 1)
    BY <1>0, <1>1
  <2>. QED BY <2>1, Modulo
<1>3. CASE ReadByte
  <2>1. PICK c \in Chars :
          io' = [io EXCEPT !.len = LenDown, !.moved = @ + 1, !.last = c,
                           !.op = IF c = NEWLINE THEN "read_done" ELSE "read",
                           !.ret = IF c = NEWLINE THEN (io.start_len - LenDown) % WORD ELSE 0]
    BY <1>3 DEF ReadByte
  <2>2. io' = [op |-> IF c = NEWLINE THEN "read_done" ELSE "read", usart |-> io.usart,
               start_len |-> io.start_len, len |-> io.len - 1, moved |-> io.moved + 1,
               last |-> c, ret |-> IF c = NEWLINE THEN io.moved + 1 ELSE 0]
    BY <1>1, <1>2, <2>1 DEF RInv, Counts
  <2>. QED BY <1>0, <2>2 DEF RInv, Counts, ReadCounts
<1>4. CASE WriteByte
  <2>1. io' = [io EXCEPT !.len = LenDown, !.moved = @ + 1] /\ io.op = "write"
    BY <1>4 DEF WriteByte
  <2>2. io' = [op |-> "write", usart |-> io.usart, start_len |-> io.start_len, len |-> io.len - 1,
               moved |-> io.moved + 1, last |-> io.last, ret |-> io.ret]
    BY <1>1, <2>1 DEF RInv, Counts
  <2>3. /\ io'.op = "write" /\ io'.start_len = io.start_len
        /\ io'.len = io.len - 1 /\ io'.moved = io.moved + 1
    BY <2>2
  <2>4. io'.len \in Nat /\ io'.moved \in Nat /\ io'.len + io'.moved = io'.start_len
    BY <1>0, <2>3
  <2>5. Counts'
    BY <1>0, <2>2, <2>3, <2>4 DEF Counts
  <2>6. ReadCounts'
    BY <1>0, <2>3, <2>4 DEF ReadCounts
  <2>. QED BY <2>5, <2>6 DEF RInv
<1>. QED BY <1>3, <1>4

\* Leaving the loop with the length used up: the count is one too many.
LEMMA RInvEnd ==
    ASSUME RInv, EndIo
    PROVE  RInv'
<1>0. /\ WORD \in Nat /\ WORD > 1 /\ io.start_len \in 0..(WORD - 2) /\ io.moved \in Nat
      /\ io.len = 0 /\ io.moved = io.start_len
  BY BootAssumption DEF RInv, Counts, EndIo
<1>1. LenDown = WORD - 1
  <2>1. WORD - 1 \in 0..(WORD - 1) /\ (WORD - 1) - WORD = io.len - 1
    BY <1>0
  <2>. QED BY <2>1, Modulo DEF LenDown
<1>2. (io.start_len - LenDown) % WORD = io.moved + 1
  <2>1. io.moved + 1 \in 0..(WORD - 1) /\ io.start_len - LenDown = (io.moved + 1) - WORD
    BY <1>0, <1>1
  <2>. QED BY <2>1, Modulo
<1>3. io' = [io EXCEPT !.len = LenDown, !.op = IF @ = "read" THEN "read_end" ELSE "write_end",
                       !.ret = (io.start_len - LenDown) % WORD]
  BY DEF EndIo
<1>4. io' = [op |-> IF io.op = "read" THEN "read_end" ELSE "write_end", usart |-> io.usart,
             start_len |-> io.start_len, len |-> WORD - 1, moved |-> io.moved,
             last |-> io.last, ret |-> io.moved + 1]
  BY <1>1, <1>2, <1>3 DEF RInv, Counts
<1>. QED BY <1>0, <1>4 DEF RInv, Counts, ReadCounts

LEMMA RInvStep == RInv /\ [Next]_vars => RInv'
<1> SUFFICES ASSUME RInv, [Next]_vars
             PROVE  RInv'
  OBVIOUS
<1>1. CASE io' = io
  BY <1>1 DEF RInv, Counts, ReadCounts
<1>2. CASE BeginIo
  <2>1. PICK op \in {"read", "write"}, n \in Lengths :
          io' = [NoIo EXCEPT !.op = op, !.usart = config.usart, !.start_len = n, !.len = n]
    BY <1>2 DEF BeginIo
  <2>2. io' = [op |-> op, usart |-> config.usart, start_len |-> n, len |-> n, moved |-> 0,
               last |-> NEWLINE, ret |-> 0]
    BY <2>1 DEF NoIo
  <2>3. WORD \in Nat /\ n \in 0..(WORD - 2)
    BY BootAssumption
  <2>. QED BY <2>2, <2>3 DEF RInv, Counts, ReadCounts
<1>. QED BY <1>1, <1>2, RInvTurn, RInvEnd
     DEF Next, vars, thread, Start, RunSystemInit, leds_init, InitConsole, InitProtocol, InitOther,
         CallUsartInit, RunUsartInit, Log, enable_irq, Stays, SwitchBits, Polls,
         interrupt, Enter, EnterNull, console_data_received, _comm_byte_received, IrqPolls, hardware

\* usart_read returns the number of characters that it stored when a newline ended it
\* and one more when the length did, and never stores more than asked
\* (usart.c:62-73): for every width of the length and every length it can hold, but
\* the largest.
THEOREM ReadSound == Spec => []ReadCounts
<1>1. Spec => []RInv
  BY RInvInit, RInvStep, PTL DEF Spec
<1>2. RInv => ReadCounts
  BY DEF RInv
<1>. QED BY <1>1, <1>2, PTL

(***************************************************************************)
(* The clock tree.  What system_init has written where it stands; the      *)
(* hardware moves the clock switch only, and only once it was asked to.    *)
(***************************************************************************)
Prescalers == HPRE2_DIV2 \cup HPRE1_DIV4
Asked      == Prescalers \cup SW_PLL
Running    == Prescalers \cup SW_PLL \cup SWS_PLL

WholeRcc(r) == r = [cr |-> r.cr, pllcfgr |-> r.pllcfgr, cfgr |-> r.cfgr, cir |-> r.cir,
                    ahb1enr |-> r.ahb1enr, apb1enr |-> r.apb1enr, apb2enr |-> r.apb2enr]

Powered == PWREN \in rcc.apb1enr /\ VOS \in pwr_cr
PllSet  == rcc.pllcfgr = PllConfig(build.prod_hse)
Waits   == FLASH_ACR.LATENCY_5WS \subseteq flash_acr

Stages == {"reset", "osc_on", "osc_wait", "power", "pll_on", "pll_wait", "flash", "switch",
           "switch_wait", "vectors", "done"}

CInv ==
    /\ WholeRcc(rcc) /\ cpc \in Stages
    /\ cpc \in {"reset", "osc_on", "osc_wait", "power"} => rcc.cfgr = {}
    /\ cpc \in {"pll_on", "pll_wait", "flash", "switch"} => rcc.cfgr = Prescalers
    /\ cpc \in {"pll_on", "pll_wait", "flash", "switch", "switch_wait"} => Powered
    /\ cpc \in {"pll_wait", "flash", "switch", "switch_wait"} => PllSet
    /\ cpc \in {"switch", "switch_wait"} => Waits
    /\ cpc = "switch_wait" => rcc.cfgr \in {Asked, Running}
    /\ cpc \in {"vectors", "done"} =>
         \/ rcc.cfgr = {}
         \/ rcc.cfgr = Running /\ Powered /\ PllSet /\ Waits

\* The switch and its status in the values that RCC_CFGR takes.
LEMMA Switches ==
    /\ {} \cap SW # SW_PLL /\ Prescalers \cap SW # SW_PLL
    /\ {} \cap SWS # SWS_PLL /\ Prescalers \cap SWS # SWS_PLL /\ Asked \cap SWS # SWS_PLL
    /\ Running \cap SWS = SWS_PLL
    /\ (Asked \ SWS) \cup SWS_PLL = Running
    /\ set_reg_bits(clear_reg_bits(Prescalers, SW), SW_PLL) = Asked
    /\ set_reg_bits({}, HPRE_DIV1 \cup HPRE2_DIV2 \cup HPRE1_DIV4) = Prescalers
<1>1. /\ \A b : b \in SW <=> b \in {0, 1}
      /\ \A b : b \in SWS <=> b \in {2, 3}
  BY DEF SW, SWS, Field
<1>2. SW_PLL = {1} /\ SWS_PLL = {3}
  BY DEF SW_PLL, SWS_PLL
<1>3. Prescalers = {15, 12, 10} /\ Asked = {15, 12, 10, 1} /\ Running = {15, 12, 10, 1, 3}
  BY <1>2 DEF Prescalers, Asked, Running, HPRE2_DIV2, HPRE1_DIV4
<1>4. /\ {} \cap SW # SW_PLL /\ Prescalers \cap SW # SW_PLL
      /\ {} \cap SWS # SWS_PLL /\ Prescalers \cap SWS # SWS_PLL /\ Asked \cap SWS # SWS_PLL
  BY <1>1, <1>2, <1>3
<1>5. Running \cap SWS = SWS_PLL
  BY <1>1, <1>2, <1>3
<1>6. (Asked \ SWS) \cup SWS_PLL = Running
  BY <1>1, <1>2, <1>3
<1>7. set_reg_bits(clear_reg_bits(Prescalers, SW), SW_PLL) = Asked
  BY <1>1, <1>2, <1>3 DEF set_reg_bits, clear_reg_bits
<1>8. set_reg_bits({}, HPRE_DIV1 \cup HPRE2_DIV2 \cup HPRE1_DIV4) = Prescalers
  BY DEF set_reg_bits, HPRE_DIV1, Prescalers
<1>. QED BY <1>4, <1>5, <1>6, <1>7, <1>8

\* Changing fields of the clock registers.
LEMMA RccField ==
    ASSUME NEW r, WholeRcc(r), NEW v
    PROVE  /\ [r EXCEPT !.cr = v]
                = [cr |-> v, pllcfgr |-> r.pllcfgr, cfgr |-> r.cfgr, cir |-> r.cir,
                   ahb1enr |-> r.ahb1enr, apb1enr |-> r.apb1enr, apb2enr |-> r.apb2enr]
           /\ [r EXCEPT !.cfgr = v]
                = [cr |-> r.cr, pllcfgr |-> r.pllcfgr, cfgr |-> v, cir |-> r.cir,
                   ahb1enr |-> r.ahb1enr, apb1enr |-> r.apb1enr, apb2enr |-> r.apb2enr]
           /\ [r EXCEPT !.cir = v]
                = [cr |-> r.cr, pllcfgr |-> r.pllcfgr, cfgr |-> r.cfgr, cir |-> v,
                   ahb1enr |-> r.ahb1enr, apb1enr |-> r.apb1enr, apb2enr |-> r.apb2enr]
           /\ [r EXCEPT !.ahb1enr = v]
                = [cr |-> r.cr, pllcfgr |-> r.pllcfgr, cfgr |-> r.cfgr, cir |-> r.cir,
                   ahb1enr |-> v, apb1enr |-> r.apb1enr, apb2enr |-> r.apb2enr]
           /\ [r EXCEPT !.pllcfgr = v]
                = [cr |-> r.cr, pllcfgr |-> v, cfgr |-> r.cfgr, cir |-> r.cir,
                   ahb1enr |-> r.ahb1enr, apb1enr |-> r.apb1enr, apb2enr |-> r.apb2enr]
           /\ [r EXCEPT !.apb1enr = v]
                = [cr |-> r.cr, pllcfgr |-> r.pllcfgr, cfgr |-> r.cfgr, cir |-> r.cir,
                   ahb1enr |-> r.ahb1enr, apb1enr |-> v, apb2enr |-> r.apb2enr]
           /\ [r EXCEPT !.apb2enr = v]
                = [cr |-> r.cr, pllcfgr |-> r.pllcfgr, cfgr |-> r.cfgr, cir |-> r.cir,
                   ahb1enr |-> r.ahb1enr, apb1enr |-> r.apb1enr, apb2enr |-> v]
<1> DEFINE a == r.cr
           b == r.pllcfgr
           c == r.cfgr
           d == r.cir
           e == r.ahb1enr
           f == r.apb1enr
           g == r.apb2enr
<1>1. r = [cr |-> a, pllcfgr |-> b, cfgr |-> c, cir |-> d, ahb1enr |-> e, apb1enr |-> f, apb2enr |-> g]
  BY DEF WholeRcc
<1> HIDE DEF a, b, c, d, e, f, g
<1>2. [r EXCEPT !.cr = v]
        = [cr |-> v, pllcfgr |-> b, cfgr |-> c, cir |-> d, ahb1enr |-> e, apb1enr |-> f, apb2enr |-> g]
  BY <1>1
<1>3. [r EXCEPT !.cfgr = v]
        = [cr |-> a, pllcfgr |-> b, cfgr |-> v, cir |-> d, ahb1enr |-> e, apb1enr |-> f, apb2enr |-> g]
  BY <1>1
<1>4. [r EXCEPT !.cir = v]
        = [cr |-> a, pllcfgr |-> b, cfgr |-> c, cir |-> v, ahb1enr |-> e, apb1enr |-> f, apb2enr |-> g]
  BY <1>1
<1>5. [r EXCEPT !.ahb1enr = v]
        = [cr |-> a, pllcfgr |-> b, cfgr |-> c, cir |-> d, ahb1enr |-> v, apb1enr |-> f, apb2enr |-> g]
  BY <1>1
<1>8. [r EXCEPT !.pllcfgr = v]
        = [cr |-> a, pllcfgr |-> v, cfgr |-> c, cir |-> d, ahb1enr |-> e, apb1enr |-> f, apb2enr |-> g]
  BY <1>1
<1>6. [r EXCEPT !.apb1enr = v]
        = [cr |-> a, pllcfgr |-> b, cfgr |-> c, cir |-> d, ahb1enr |-> e, apb1enr |-> v, apb2enr |-> g]
  BY <1>1
<1>7. [r EXCEPT !.apb2enr = v]
        = [cr |-> a, pllcfgr |-> b, cfgr |-> c, cir |-> d, ahb1enr |-> e, apb1enr |-> f, apb2enr |-> v]
  BY <1>1
<1>. QED BY <1>2, <1>3, <1>4, <1>5, <1>6, <1>7, <1>8 DEF a, b, c, d, e, f, g

\* A step that leaves the tree: at most it enables a bus clock or starts an oscillator.
LEMMA SameTree ==
    ASSUME CInv, UNCHANGED <<build, pwr_cr, flash_acr, cpc>>, WholeRcc(rcc'),
           rcc'.pllcfgr = rcc.pllcfgr, rcc'.cfgr = rcc.cfgr, rcc.apb1enr \subseteq rcc'.apb1enr
    PROVE  CInv'
  BY DEF CInv, Powered, PllSet, Waits

LEMMA CInvInit == Init => CInv
<1> SUFFICES ASSUME Init
             PROVE  CInv
  OBVIOUS
<1>1. /\ rcc = [cr |-> {CR.HSION, CR.HSIRDY}, pllcfgr |-> BitsOf(603992080), cfgr |-> {},
                cir |-> {}, ahb1enr |-> {}, apb1enr |-> {}, apb2enr |-> {}]
      /\ cpc = "reset"
  BY DEF Init, ClockInit
<1> DEFINE p == BitsOf(603992080)
<1> HIDE DEF p
<1>2. /\ rcc = [cr |-> {CR.HSION, CR.HSIRDY}, pllcfgr |-> p, cfgr |-> {},
                cir |-> {}, ahb1enr |-> {}, apb1enr |-> {}, apb2enr |-> {}]
  BY <1>1 DEF p
<1>3. WholeRcc(rcc) /\ rcc.cfgr = {}
  BY <1>2 DEF WholeRcc
<1>. QED BY <1>1, <1>3 DEF CInv, Stages

\* The steps of system_init.
LEMMA SystemStep ==
    ASSUME CInv, system_init
    PROVE  CInv'
<1>0. WholeRcc(rcc)
  BY DEF CInv
<1>1. CASE ResetClock
  <2> DEFINE p == BitsOf(603992080)
             q == (rcc.cr \cup {CR.HSION}) \ {CR.HSEON, CR.CSSON, CR.PLLON, CR.HSEBYP}
  <2>1. cpc' = "osc_on" /\ rcc' = [rcc EXCEPT !.cr = q, !.cfgr = {}, !.pllcfgr = p]
    BY <1>1 DEF ResetClock, At
  <2> DEFINE r1 == [rcc EXCEPT !.cr = q]
             r2 == [r1 EXCEPT !.cfgr = {}]
  <2> HIDE DEF p, q
  <2>4. r1 = [cr |-> q, pllcfgr |-> rcc.pllcfgr, cfgr |-> rcc.cfgr, cir |-> rcc.cir,
              ahb1enr |-> rcc.ahb1enr, apb1enr |-> rcc.apb1enr, apb2enr |-> rcc.apb2enr]
    BY <1>0, RccField
  <2>5. rcc' = [r2 EXCEPT !.pllcfgr = p]
    BY <2>1
  <2> HIDE DEF r1
  <2>6. r2 = [cr |-> q, pllcfgr |-> rcc.pllcfgr, cfgr |-> {}, cir |-> rcc.cir,
              ahb1enr |-> rcc.ahb1enr, apb1enr |-> rcc.apb1enr, apb2enr |-> rcc.apb2enr]
    BY <2>4
  <2> HIDE DEF r2
  <2>2. rcc' = [cr |-> q, pllcfgr |-> p, cfgr |-> {}, cir |-> rcc.cir, ahb1enr |-> rcc.ahb1enr,
                apb1enr |-> rcc.apb1enr, apb2enr |-> rcc.apb2enr]
    BY <2>5, <2>6
  <2>3. WholeRcc(rcc') /\ rcc'.cfgr = {}
    BY <2>2 DEF WholeRcc
  <2>. QED BY <2>1, <2>3 DEF CInv, Stages
<1>2. CASE OscOn
  <2>1. PICK v : rcc' = [rcc EXCEPT !.cr = v]
    BY <1>2 DEF OscOn
  <2>2. rcc' = [cr |-> v, pllcfgr |-> rcc.pllcfgr, cfgr |-> rcc.cfgr, cir |-> rcc.cir,
                ahb1enr |-> rcc.ahb1enr, apb1enr |-> rcc.apb1enr, apb2enr |-> rcc.apb2enr]
    BY <1>0, <2>1, RccField
  <2>3. WholeRcc(rcc') /\ rcc'.cfgr = rcc.cfgr
    BY <2>2 DEF WholeRcc
  <2>. QED BY <1>2, <2>3 DEF OscOn, At, CInv, Stages
<1>3. CASE OscWait
  <2>1. /\ UNCHANGED <<build, rcc, pwr_cr, flash_acr>> /\ cpc = "osc_wait"
        /\ cpc' \in {"power", "vectors", "osc_wait"}
    BY <1>3 DEF OscWait
  <2>. QED BY <2>1 DEF CInv, Stages
<1>4. CASE PowerUp
  <2> DEFINE v == set_reg_bits(rcc.apb1enr, {PWREN})
             w == set_reg_bits(rcc.cfgr, HPRE_DIV1 \cup HPRE2_DIV2 \cup HPRE1_DIV4)
  <2>1. rcc' = [rcc EXCEPT !.apb1enr = v, !.cfgr = w]
    BY <1>4 DEF PowerUp
  <2>2. /\ cpc = "power" /\ cpc' = "pll_on" /\ pwr_cr' = set_reg_bits(pwr_cr, {VOS})
        /\ UNCHANGED <<build, flash_acr>>
    BY <1>4 DEF PowerUp, At
  <2>3. w = Prescalers
    BY <2>2, Switches DEF CInv
  <2>4. PWREN \in v /\ VOS \in pwr_cr'
    BY <2>2 DEF set_reg_bits
  <2> DEFINE r1 == [rcc EXCEPT !.apb1enr = v]
  <2> HIDE DEF v, w
  <2>7. r1 = [cr |-> rcc.cr, pllcfgr |-> rcc.pllcfgr, cfgr |-> rcc.cfgr, cir |-> rcc.cir,
              ahb1enr |-> rcc.ahb1enr, apb1enr |-> v, apb2enr |-> rcc.apb2enr]
    BY <1>0, RccField
  <2>8. rcc' = [r1 EXCEPT !.cfgr = w]
    BY <2>1
  <2> HIDE DEF r1
  <2>5. rcc' = [cr |-> rcc.cr, pllcfgr |-> rcc.pllcfgr, cfgr |-> w, cir |-> rcc.cir,
                ahb1enr |-> rcc.ahb1enr, apb1enr |-> v, apb2enr |-> rcc.apb2enr]
    BY <2>7, <2>8
  <2>6. WholeRcc(rcc') /\ rcc'.cfgr = w /\ rcc'.apb1enr = v
    BY <2>5 DEF WholeRcc
  <2>. QED BY <2>2, <2>3, <2>4, <2>6 DEF CInv, Stages, Powered
<1>5. CASE PllOn
  <2> DEFINE v == PllConfig(build.prod_hse)
             w == set_reg_bits(rcc.cr, {CR.PLLON})
  <2>1. rcc' = [rcc EXCEPT !.pllcfgr = v, !.cr = w]
    BY <1>5 DEF PllOn
  <2>2. cpc = "pll_on" /\ cpc' = "pll_wait" /\ UNCHANGED <<build, pwr_cr, flash_acr>>
    BY <1>5 DEF PllOn, At
  <2> DEFINE r1 == [rcc EXCEPT !.pllcfgr = v]
  <2> HIDE DEF v, w
  <2>6. r1 = [cr |-> rcc.cr, pllcfgr |-> v, cfgr |-> rcc.cfgr, cir |-> rcc.cir,
              ahb1enr |-> rcc.ahb1enr, apb1enr |-> rcc.apb1enr, apb2enr |-> rcc.apb2enr]
    BY <1>0, RccField
  <2>7. rcc' = [r1 EXCEPT !.cr = w]
    BY <2>1
  <2> HIDE DEF r1
  <2>3. rcc' = [cr |-> w, pllcfgr |-> v, cfgr |-> rcc.cfgr, cir |-> rcc.cir, ahb1enr |-> rcc.ahb1enr,
                apb1enr |-> rcc.apb1enr, apb2enr |-> rcc.apb2enr]
    BY <2>6, <2>7
  <2>4. WholeRcc(rcc') /\ rcc'.cfgr = rcc.cfgr /\ rcc'.apb1enr = rcc.apb1enr /\ rcc'.pllcfgr = v
    BY <2>3 DEF WholeRcc
  <2>5. PllSet'
    BY <2>2, <2>4 DEF PllSet, v
  <2>. QED BY <2>2, <2>4, <2>5 DEF CInv, Stages, Powered
<1>6. CASE PllWait
  <2>1. /\ UNCHANGED <<build, rcc, pwr_cr, flash_acr>> /\ cpc = "pll_wait"
        /\ cpc' \in {"flash", "pll_wait"}
    BY <1>6 DEF PllWait
  <2>. QED BY <2>1 DEF CInv, Stages, Powered, PllSet
<1>7. CASE FlashWaitStates
  <2>1. /\ UNCHANGED <<build, rcc, pwr_cr>> /\ cpc = "flash" /\ cpc' = "switch"
        /\ flash_acr' = {FLASH_ACR.ICEN, FLASH_ACR.DCEN} \cup FLASH_ACR.LATENCY_5WS
    BY <1>7 DEF FlashWaitStates, At
  <2>2. Waits'
    BY <2>1 DEF Waits
  <2>. QED BY <2>1, <2>2 DEF CInv, Stages, Powered, PllSet
<1>8. CASE SwitchToPll
  <2> DEFINE v == set_reg_bits(clear_reg_bits(rcc.cfgr, SW), SW_PLL)
  <2>1. rcc' = [rcc EXCEPT !.cfgr = v]
    BY <1>8 DEF SwitchToPll
  <2>2. cpc = "switch" /\ cpc' = "switch_wait" /\ UNCHANGED <<build, pwr_cr, flash_acr>>
    BY <1>8 DEF SwitchToPll, At
  <2>3. v = Asked
    BY <2>2, Switches DEF CInv
  <2> HIDE DEF v
  <2>4. rcc' = [cr |-> rcc.cr, pllcfgr |-> rcc.pllcfgr, cfgr |-> v, cir |-> rcc.cir,
                ahb1enr |-> rcc.ahb1enr, apb1enr |-> rcc.apb1enr, apb2enr |-> rcc.apb2enr]
    BY <1>0, <2>1, RccField
  <2>5. WholeRcc(rcc') /\ rcc'.cfgr = v /\ rcc'.apb1enr = rcc.apb1enr /\ rcc'.pllcfgr = rcc.pllcfgr
    BY <2>4 DEF WholeRcc
  <2>. QED BY <2>2, <2>3, <2>5 DEF CInv, Stages, Powered, PllSet, Waits
<1>9. CASE SwitchWait
  <2>1. /\ UNCHANGED <<build, rcc, pwr_cr, flash_acr>> /\ cpc = "switch_wait"
        /\ cpc' = IF rcc.cfgr \cap SWS = SWS_PLL THEN "vectors" ELSE "switch_wait"
    BY <1>9 DEF SwitchWait
  <2>2. cpc' = "vectors" => rcc.cfgr = Running
    BY <2>1, Switches DEF CInv
  <2>. QED BY <2>1, <2>2 DEF CInv, Stages, Powered, PllSet, Waits
<1>10. CASE SetVectors
  <2>1. rcc' = [rcc EXCEPT !.cir = {}]
    BY <1>10 DEF SetVectors
  <2>2. cpc = "vectors" /\ cpc' = "done" /\ UNCHANGED <<build, pwr_cr, flash_acr>>
    BY <1>10 DEF SetVectors, At
  <2>3. rcc' = [cr |-> rcc.cr, pllcfgr |-> rcc.pllcfgr, cfgr |-> rcc.cfgr, cir |-> {},
                ahb1enr |-> rcc.ahb1enr, apb1enr |-> rcc.apb1enr, apb2enr |-> rcc.apb2enr]
    BY <1>0, <2>1, RccField
  <2>4. /\ WholeRcc(rcc') /\ rcc'.cfgr = rcc.cfgr /\ rcc'.apb1enr = rcc.apb1enr
        /\ rcc'.pllcfgr = rcc.pllcfgr
    BY <2>3 DEF WholeRcc
  <2>. QED BY <2>2, <2>4 DEF CInv, Stages, Powered, PllSet, Waits
<1>. QED BY <1>1, <1>2, <1>3, <1>4, <1>5, <1>6, <1>7, <1>8, <1>9, <1>10 DEF system_init

\* The oscillators and the clock switch.
LEMMA ClockHardwareStep ==
    ASSUME CInv, clockHardware
    PROVE  CInv'
<1>0. WholeRcc(rcc) /\ UNCHANGED <<build, pwr_cr, flash_acr, cpc>>
  BY DEF CInv, clockHardware, HseStarts, PllLocks, ClockSwitches
<1>1. CASE HseStarts \/ PllLocks
  <2>1. PICK v : rcc' = [rcc EXCEPT !.cr = v]
    BY <1>1 DEF HseStarts, PllLocks
  <2>2. rcc' = [cr |-> v, pllcfgr |-> rcc.pllcfgr, cfgr |-> rcc.cfgr, cir |-> rcc.cir,
                ahb1enr |-> rcc.ahb1enr, apb1enr |-> rcc.apb1enr, apb2enr |-> rcc.apb2enr]
    BY <1>0, <2>1, RccField
  <2>3. /\ WholeRcc(rcc') /\ rcc'.cfgr = rcc.cfgr /\ rcc'.apb1enr = rcc.apb1enr
        /\ rcc'.pllcfgr = rcc.pllcfgr
    BY <2>2 DEF WholeRcc
  <2>. QED BY <1>0, <2>3, SameTree
<1>2. CASE ClockSwitches
  <2> DEFINE v == (rcc.cfgr \ SWS) \cup SWS_PLL
  <2>1. rcc' = [rcc EXCEPT !.cfgr = v] /\ rcc.cfgr \cap SW = SW_PLL /\ rcc.cfgr \cap SWS # SWS_PLL
    BY <1>2 DEF ClockSwitches
  <2>2. cpc = "switch_wait" /\ rcc.cfgr = Asked
    <3>1. rcc.cfgr # {} /\ rcc.cfgr # Prescalers /\ rcc.cfgr # Running
      BY <2>1, Switches
    <3>. QED BY <3>1 DEF CInv, Stages
  <2>3. v = Running
    BY <2>2, Switches
  <2> HIDE DEF v
  <2>4. rcc' = [cr |-> rcc.cr, pllcfgr |-> rcc.pllcfgr, cfgr |-> v, cir |-> rcc.cir,
                ahb1enr |-> rcc.ahb1enr, apb1enr |-> rcc.apb1enr, apb2enr |-> rcc.apb2enr]
    BY <1>0, <2>1, RccField
  <2>5. WholeRcc(rcc') /\ rcc'.cfgr = v /\ rcc'.apb1enr = rcc.apb1enr /\ rcc'.pllcfgr = rcc.pllcfgr
    BY <2>4 DEF WholeRcc
  <2>. QED BY <1>0, <2>2, <2>3, <2>5 DEF CInv, Powered, PllSet, Waits
<1>. QED BY <1>1, <1>2 DEF clockHardware

\* What enables the clock of a peripheral leaves the tree.
LEMMA EnableStep ==
    ASSUME CInv, UNCHANGED <<build, pwr_cr, flash_acr, cpc>>, NEW v,
           \/ rcc' = [rcc EXCEPT !.ahb1enr = v]
           \/ rcc' = [rcc EXCEPT !.apb2enr = v]
           \/ rcc' = [rcc EXCEPT !.apb1enr = v] /\ rcc.apb1enr \subseteq v
    PROVE  CInv'
<1>0. WholeRcc(rcc)
  BY DEF CInv
<1>1. PICK a, f, g :
        /\ rcc' = [cr |-> rcc.cr, pllcfgr |-> rcc.pllcfgr, cfgr |-> rcc.cfgr, cir |-> rcc.cir,
                   ahb1enr |-> a, apb1enr |-> f, apb2enr |-> g]
        /\ rcc.apb1enr \subseteq f
  <2>1. CASE rcc' = [rcc EXCEPT !.ahb1enr = v]
    <3>1. rcc' = [cr |-> rcc.cr, pllcfgr |-> rcc.pllcfgr, cfgr |-> rcc.cfgr, cir |-> rcc.cir,
                  ahb1enr |-> v, apb1enr |-> rcc.apb1enr, apb2enr |-> rcc.apb2enr]
      BY <1>0, <2>1, RccField
    <3>. QED BY <2>1, <3>1
  <2>2. CASE rcc' = [rcc EXCEPT !.apb2enr = v]
    <3>1. rcc' = [cr |-> rcc.cr, pllcfgr |-> rcc.pllcfgr, cfgr |-> rcc.cfgr, cir |-> rcc.cir,
                  ahb1enr |-> rcc.ahb1enr, apb1enr |-> rcc.apb1enr, apb2enr |-> v]
      BY <1>0, <2>2, RccField
    <3>. QED BY <2>2, <3>1
  <2>3. CASE rcc' = [rcc EXCEPT !.apb1enr = v] /\ rcc.apb1enr \subseteq v
    <3>1. rcc' = [cr |-> rcc.cr, pllcfgr |-> rcc.pllcfgr, cfgr |-> rcc.cfgr, cir |-> rcc.cir,
                  ahb1enr |-> rcc.ahb1enr, apb1enr |-> v, apb2enr |-> rcc.apb2enr]
      BY <1>0, <2>3, RccField
    <3>. QED BY <2>3, <3>1
  <2>. QED BY <2>1, <2>2, <2>3
<1>2. /\ WholeRcc(rcc') /\ rcc'.cfgr = rcc.cfgr /\ rcc.apb1enr \subseteq rcc'.apb1enr
      /\ rcc'.pllcfgr = rcc.pllcfgr
  BY <1>1 DEF WholeRcc
<1>. QED BY <1>2, SameTree

LEMMA CInvStep == CInv /\ [Next]_vars => CInv'
<1> SUFFICES ASSUME CInv, [Next]_vars
             PROVE  CInv'
  OBVIOUS
<1>1. CASE UNCHANGED <<build, rcc, pwr_cr, flash_acr, cpc>>
  BY <1>1 DEF CInv, Powered, PllSet, Waits
<1>2. CASE RunSystemInit
  BY <1>2, SystemStep DEF RunSystemInit
<1>3. CASE leds_init
  <2>1. UNCHANGED <<build, pwr_cr, flash_acr, cpc>>
    BY <1>3 DEF leds_init
  <2>2. PICK v : rcc' = [rcc EXCEPT !.ahb1enr = v]
    BY <1>3 DEF leds_init
  <2>. QED BY <2>1, <2>2, EnableStep
<1>4. CASE RunUsartInit
  <2>1. UNCHANGED <<build, pwr_cr, flash_acr, cpc>>
    BY <1>4 DEF RunUsartInit, usart_init_step, usart_clock_init, init_gpio, BaudAndEnable, Control1,
       Control2, Control3, GuardTime, ClearStatus, NVIC_EnableIRQ, RegisterHandler, RegisterGetc,
       RegisterPutc, RegsStep, Cpu
  <2>2. CASE usart_clock_init
    <3>1. PICK v : \/ rcc' = [rcc EXCEPT !.apb2enr = v]
                   \/ rcc' = [rcc EXCEPT !.apb1enr = v] /\ rcc.apb1enr \subseteq v
      BY <2>2 DEF usart_clock_init, set_reg_bits
    <3>. QED BY <2>1, <3>1, EnableStep
  <2>3. CASE init_gpio /\ rcc' # rcc
    <3>1. PICK v : rcc' = [rcc EXCEPT !.ahb1enr = v]
      BY <2>3 DEF init_gpio
    <3>. QED BY <2>1, <3>1, EnableStep
  <2>4. CASE rcc' = rcc
    BY <1>1, <2>1, <2>4
  <2>. QED BY <1>4, <2>2, <2>3, <2>4
       DEF RunUsartInit, usart_init_step, BaudAndEnable, Control1,
       Control2, Control3, GuardTime, ClearStatus, NVIC_EnableIRQ, RegisterHandler, RegisterGetc,
       RegisterPutc, RegsStep
<1>5. CASE hardware
  BY <1>1, <1>5, ClockHardwareStep DEF hardware, ByteArrives, ByteSent, IoStep, Cpu
<1>6. CASE thread /\ ~RunSystemInit /\ ~leds_init /\ ~RunUsartInit
  BY <1>1, <1>6 DEF thread, Start, InitConsole, InitProtocol, InitOther, CallUsartInit, usart_init,
     Log, enable_irq, Stays, SwitchBits, BeginIo, ReadByte, WriteByte, EndIo, Polls, ApiStep, IoTurn,
     IoStep, Cpu, clockVars, vars
<1>7. CASE interrupt
  BY <1>1, <1>7 DEF interrupt, Enter, EnterNull, console_data_received, _comm_byte_received,
     IrqPolls, IoStep, Cpu, clockVars, vars
<1>8. CASE UNCHANGED vars
  BY <1>1, <1>8 DEF vars
<1>. QED BY <1>2, <1>3, <1>4, <1>5, <1>6, <1>7, <1>8 DEF Next

\* The fields of RCC_PLLCFGR as SetSysClock writes it.
LEMMA PllFields ==
    ASSUME PllSet
    PROVE  /\ PllField(0, 6) = 8 /\ PllField(6, 9) = 168 /\ PllField(16, 2) = 0
           /\ PLLSRC \in rcc.pllcfgr <=> build.prod_hse
<1> DEFINE src == IF build.prod_hse THEN {22} ELSE {}
           p == {3, 9, 11, 13, 24, 25, 26} \cup src
<1>1. BitsOf(PROD_PLL_M) = {3} /\ BitsOf(PROD_PLL_N) = {3, 5, 7} /\ BitsOf(PROD_PLL_Q) = {0, 1, 2}
  BY ClockNumbers DEF PROD_PLL_M, PROD_PLL_N, PROD_PLL_Q
<1>2. BitsOf((PROD_PLL_P \div 2) - 1) = {}
  <2>1. (PROD_PLL_P \div 2) - 1 = 0
    BY SMT DEF PROD_PLL_P
  <2>. QED BY <2>1, ClockNumbers
<1>3. /\ Shift({3, 5, 7}, 6) = {9, 11, 13} /\ Shift({}, 16) = {}
      /\ Shift({0, 1, 2}, 24) = {24, 25, 26}
  BY DEF Shift, Bits
<1>4. rcc.pllcfgr = {3} \cup {9, 11, 13} \cup {} \cup {24, 25, 26} \cup src
  BY <1>1, <1>2, <1>3, Zenon DEF PllSet, PllConfig, PLLSRC
<1>5. rcc.pllcfgr = p
  BY <1>4
<1> HIDE DEF src
<1>6. src \subseteq {22}
  BY DEF src
<1>7. get_reg_value(p, Field(0, 6), 0) = {3}
  <2>1. p \cap Field(0, 6) = {3} /\ Field(0, 6) # {}
    BY <1>6 DEF Field
  <2>. QED BY <2>1 DEF get_reg_value
<1>8. get_reg_value(p, Field(6, 9), 6) = {3, 5, 7}
  <2>1. p \cap Field(6, 9) = {9, 11, 13} /\ Field(6, 9) # {}
    BY <1>6 DEF Field
  <2>. QED BY <2>1 DEF get_reg_value
<1>9. get_reg_value(p, Field(16, 2), 16) = {}
  <2>1. p \cap Field(16, 2) = {}
    BY <1>6 DEF Field
  <2>. QED BY <2>1 DEF get_reg_value
<1>10. PLLSRC \in p <=> build.prod_hse
  BY DEF PLLSRC, src
<1>. QED BY <1>5, <1>7, <1>8, <1>9, <1>10, ClockNumbers DEF PllField

\* The frequencies of the two buses, on the PLL and on HSI.
LEMMA Frequencies ==
    /\ (rcc.cfgr = Running /\ PllSet) =>
         /\ build.prod_hse => Pclk1 = 21000000 /\ Pclk2 = 42000000
         /\ ~build.prod_hse => Pclk1 = 42000000 /\ Pclk2 = 84000000
    /\ rcc.cfgr = {} => Pclk1 = 16000000 /\ Pclk2 = 16000000
<1>1. ASSUME rcc.cfgr = Running, PllSet
      PROVE  /\ build.prod_hse => Pclk1 = 21000000 /\ Pclk2 = 42000000
             /\ ~build.prod_hse => Pclk1 = 42000000 /\ Pclk2 = 84000000
  <2>1. Running = {15, 12, 10, 1, 3}
    BY DEF Running, Prescalers, HPRE2_DIV2, HPRE1_DIV4, SW_PLL, SWS_PLL
  <2>2. BusDivider(10) = 4
    <3>1. get_reg_value(Running, Field(10, 3), 10) = {0, 2}
      <4>1. Running \cap Field(10, 3) = {10, 12} /\ Field(10, 3) # {}
        BY <2>1 DEF Field
      <4>. QED BY <4>1 DEF get_reg_value
    <3>2. NumOf(get_reg_value(rcc.cfgr, Field(10, 3), 10)) = 5
      BY <1>1, <3>1, ClockNumbers, Zenon
    <3>3. 2^(5 - 3) = 4 /\ ~(5 < 4)
      BY SMT
    <3>4. BusDivider(10) = IF 5 < 4 THEN 1 ELSE 2^(5 - 3)
      BY <3>2, Zenon DEF BusDivider
    <3>. QED BY <3>3, <3>4
  <2>3. BusDivider(13) = 2
    <3>1. get_reg_value(Running, Field(13, 3), 13) = {2}
      <4>1. Running \cap Field(13, 3) = {15} /\ Field(13, 3) # {}
        BY <2>1 DEF Field
      <4>. QED BY <4>1 DEF get_reg_value
    <3>2. NumOf(get_reg_value(rcc.cfgr, Field(13, 3), 13)) = 4
      BY <1>1, <3>1, ClockNumbers, Zenon
    <3>3. 2^(4 - 3) = 2 /\ ~(4 < 4)
      BY SMT
    <3>4. BusDivider(13) = IF 4 < 4 THEN 1 ELSE 2^(4 - 3)
      BY <3>2, Zenon DEF BusDivider
    <3>. QED BY <3>3, <3>4
  <2>4. OnPll
    BY <1>1, Switches DEF OnPll
  <2>5. build.prod_hse => Hclk = 84000000
    BY <1>1, <2>4, PllFields, SMT DEF Hclk
  <2>6. ~build.prod_hse => Hclk = 168000000
    BY <1>1, <2>4, PllFields, SMT DEF Hclk
  <2>. QED BY <2>2, <2>3, <2>5, <2>6, SMT DEF Pclk1, Pclk2
<1>2. ASSUME rcc.cfgr = {} PROVE Pclk1 = 16000000 /\ Pclk2 = 16000000
  <2>1. ~OnPll
    BY <1>2, Switches DEF OnPll
  <2>2. Hclk = 16000000
    BY <2>1 DEF Hclk
  <2>3. \A pos : get_reg_value({}, Field(pos, 3), pos) = {}
    BY DEF get_reg_value
  <2>4. BusDivider(10) = 1 /\ BusDivider(13) = 1
    <3>1. \A pos : NumOf(get_reg_value(rcc.cfgr, Field(pos, 3), pos)) = 0
      BY <1>2, <2>3, ClockNumbers, Zenon
    <3>. QED BY <3>1 DEF BusDivider
  <2>. QED BY <2>2, <2>4, SMT DEF Pclk1, Pclk2
<1>. QED BY <1>1, <1>2

\* The core never runs from the PLL before the regulator, the flash and the buses stand
\* it (init.c:53-86): whatever the oscillators do, and whenever; for each setting of the
\* two HSE switches and any limit of the wait for the oscillator.
THEOREM FastSafe == Spec => []FastOnlyWhenReady
<1>1. Spec => []CInv
  BY CInvInit, CInvStep, PTL DEF Spec
<1>2. CInv => FastOnlyWhenReady
  <2>1. SUFFICES ASSUME CInv, OnPll
                 PROVE  /\ PWREN \in rcc.apb1enr /\ VOS \in pwr_cr
                        /\ FLASH_ACR.LATENCY_5WS \subseteq flash_acr
                        /\ Pclk1 <= 42000000 /\ Pclk2 <= 84000000
    BY DEF FastOnlyWhenReady
  <2>2. rcc.cfgr = Running /\ Powered /\ PllSet /\ Waits
    <3>1. rcc.cfgr # {} /\ rcc.cfgr # Prescalers /\ rcc.cfgr # Asked
      BY <2>1, Switches DEF OnPll
    <3>. QED BY <2>1, <3>1 DEF CInv, Stages
  <2>3. \/ Pclk1 = 21000000 /\ Pclk2 = 42000000
        \/ Pclk1 = 42000000 /\ Pclk2 = 84000000
    BY <2>2, Frequencies
  <2>4. Pclk1 <= 42000000 /\ Pclk2 <= 84000000
    BY <2>3, SMT
  <2>. QED BY <2>2, <2>4 DEF Powered, Waits
<1>. QED BY <1>1, <1>2, PTL

(***************************************************************************)
(* What an initialised USART keeps: its baud rate and its pins.  First the *)
(* order: each USART is initialised once, with the clock tree set up and   *)
(* the LEDs on.                                                            *)
(***************************************************************************)
DoneOnly(s) == \A u \in Usarts : done[u] # NULL => u \in s

BeforeConsole  == {"start", "clock", "leds", "console", "console_init"}
BeforeProtocol == {"console_log", "enable", "log", "protocol", "protocol_init"}

Order ==
    /\ pc \in BeforeConsole => DoneOnly({})
    /\ pc \in BeforeProtocol => DoneOnly({console})
    /\ config = protocol_init \/ pc = "other_init" => DoneOnly({console, protocol})
    /\ (pc \in DOMAIN AfterInit /\ upc # "idle") => done[config.usart] = NULL
    /\ pc \in {"start", "clock", "leds"} => nvic = {} /\ irq.step = "none"
    /\ pc \notin {"start", "clock"} => cpc = "done"

LEMMA OrderInit == Init => Order
<1> SUFFICES ASSUME Init
             PROVE  Order
  OBVIOUS
<1>1. nvic = {} /\ upc = "idle" /\ done = [u \in Usarts |-> NULL] /\ pc = "start" /\ irq = NoIrq
  BY DEF Init, UsartInit
<1>2. \A s : DoneOnly(s)
  BY <1>1 DEF DoneOnly
<1>. QED BY <1>1, <1>2 DEF Order, NoIrq

\* Where main goes outside usart_init.
PcMoves ==
    \/ pc' = pc
    \/ pc = "start" /\ pc' = "clock"
    \/ pc = "clock" /\ pc' = "leds" /\ cpc' = "done"
    \/ pc = "leds" /\ pc' = "console" /\ leds_init
    \/ pc = "console_log" /\ pc' = "enable"
    \/ pc = "enable" /\ pc' = "log"
    \/ pc = "log" /\ pc' = "protocol"
    \/ pc = "protocol_log" /\ pc' = "tests"
    \/ pc = "api" /\ pc' = "tests"
    \/ pc' \in {"panic", "fault"} /\ (pc \in DOMAIN AfterLog \/ irq.step # "none")

Calls == InitConsole \/ InitProtocol \/ InitOther

\* A step outside usart_init.
Outside ==
    /\ UNCHANGED <<console, protocol, config, upc, done, nvic>> /\ PcMoves
    /\ cpc' = cpc \/ pc = "clock"
    /\ nvic = {} => irq'.step = irq.step \/ irq.step # "none"

LEMMA OutsideStep ==
    ASSUME [Next]_vars, ~Calls, ~RunUsartInit
    PROVE  Outside
<1>1. CASE UNCHANGED vars
  BY <1>1 DEF vars, Outside, PcMoves
<1>2. CASE Start \/ leds_init \/ enable_irq
  BY <1>2 DEF Start, leds_init, enable_irq, Goto, Outside, PcMoves, clockVars, usartVars
<1>3. CASE RunSystemInit
  BY <1>3 DEF RunSystemInit, Outside, PcMoves, usartVars
<1>4. CASE Log
  <2>1. /\ UNCHANGED <<console, protocol, config, upc, done, nvic, irq, cpc>>
        /\ pc \in DOMAIN AfterLog /\ pc' \in {"panic", AfterLog[pc]}
    BY <1>4 DEF Log, IoStep, Cpu
  <2>2. \/ pc = "console_log" /\ AfterLog[pc] = "enable"
        \/ pc = "log" /\ AfterLog[pc] = "protocol"
        \/ pc = "protocol_log" /\ AfterLog[pc] = "tests"
    BY <2>1 DEF AfterLog
  <2>. QED BY <2>1, <2>2 DEF Outside, PcMoves
<1>5. CASE SwitchBits \/ BeginIo \/ ReadByte \/ WriteByte \/ EndIo
  <2>1. UNCHANGED <<console, protocol, config, upc, done, nvic, irq, cpc>> /\ pc = "api"
    BY <1>5 DEF SwitchBits, BeginIo, ReadByte, WriteByte, EndIo, ApiStep, IoTurn, IoStep, Cpu
  <2>2. pc' \in {"api", "tests"}
    <3>1. CASE ReadByte
      BY <3>1 DEF ReadByte
    <3>2. CASE SwitchBits \/ BeginIo \/ WriteByte \/ EndIo
      BY <2>1, <3>2 DEF SwitchBits, BeginIo, WriteByte, EndIo
    <3>. QED BY <1>5, <3>1, <3>2
  <2>. QED BY <2>1, <2>2 DEF Outside, PcMoves
<1>6. ASSUME NEW u \in Usarts, Enter(u) PROVE Outside
  <2>1. u \in nvic
    BY <1>6 DEF Enter, Pending, Requests
  <2>. QED BY <1>6, <2>1 DEF Enter, Outside, PcMoves, clockVars, usartVars
<1>7. CASE console_data_received \/ _comm_byte_received
  <2>1. UNCHANGED <<console, protocol, config, upc, done, nvic, cpc>> /\ irq.step # "none"
        /\ pc' \in {pc, "panic", "fault"}
    BY <1>7 DEF console_data_received, _comm_byte_received, IoStep, Cpu
  <2>. QED BY <2>1 DEF Outside, PcMoves
<1>8. CASE hardware
  BY <1>8 DEF hardware, clockHardware, HseStarts, PllLocks, ClockSwitches, ByteArrives, ByteSent, IoStep,
     Cpu, usartVars, Outside, PcMoves
<1>. QED BY <1>1, <1>2, <1>3, <1>4, <1>5, <1>6, <1>7, <1>8
     DEF Next, thread, interrupt, Stays, Polls, EnterNull, IrqPolls, Calls

LEMMA OrderStep ==
    ASSUME BInv, Order, [Next]_vars
    PROVE  Order'
<1>0. Typed /\ Where
  BY DEF BInv
<1>1. CASE Outside
  <2>1. /\ \A s : DoneOnly(s)' <=> DoneOnly(s)
        /\ protocol_init' = protocol_init
    BY <1>1 DEF Outside, DoneOnly, protocol_init, LineConfig
  <2>2. pc \in DOMAIN AfterLog => pc \in {"console_log", "log", "protocol_log"}
    BY DEF AfterLog
  <2>3. /\ pc' \in BeforeConsole => pc \in BeforeConsole
        /\ pc' \in BeforeProtocol => pc \in BeforeConsole \cup BeforeProtocol
        /\ pc' = "other_init" => pc = "other_init"
        /\ pc' \in {"start", "clock", "leds"} => pc \in {"start", "clock", "leds"}
        /\ pc' \notin {"start", "clock"} => pc \notin {"start", "clock"} \/ cpc' = "done"
    BY <1>1, <2>2 DEF Outside, PcMoves, BeforeConsole, BeforeProtocol, Order
  <2>4. (pc' \in DOMAIN AfterInit /\ pc' # pc) => FALSE
    BY <1>1 DEF Outside, PcMoves, AfterInit
  <2>5. DoneOnly({}) => DoneOnly({console})
    BY DEF DoneOnly
  <2>. QED BY <1>1, <2>1, <2>3, <2>4, <2>5 DEF Order, Outside, BeforeConsole
<1>2. CASE Calls
  <2>1. /\ UNCHANGED <<console, protocol, done, cpc>>
        /\ \/ pc = "console" /\ pc' = "console_init" /\ config' = debug_console_init
           \/ pc = "protocol" /\ pc' = "protocol_init" /\ config' = protocol_init
           \/ /\ pc = "tests" /\ config = protocol_init
              /\ pc' = "other_init" /\ config' \in ExtraConfigs /\ config'.usart \notin {console, protocol}
    BY <1>2 DEF Calls, InitConsole, InitProtocol, InitOther, CallUsartInit, usart_init, Goto, Cpu
  <2>2. /\ \A s : DoneOnly(s)' <=> DoneOnly(s)
        /\ protocol_init' = protocol_init
        /\ debug_console_init.usart = console /\ protocol_init.usart = protocol
    BY <2>1 DEF DoneOnly, protocol_init, debug_console_init, LineConfig
  <2>3. DoneOnly({}) => DoneOnly({console}) /\ DoneOnly({console, protocol})
    BY DEF DoneOnly
  <2>4. DoneOnly({console}) => DoneOnly({console, protocol})
    BY DEF DoneOnly
  <2>5. config'.usart \in Usarts /\ console # protocol
    BY <1>0, <2>1, <2>2, BootAssumption DEF Typed
  <2>6. done[config'.usart] = NULL
    BY <2>1, <2>2, <2>3, <2>5 DEF Order, BeforeConsole, BeforeProtocol, DoneOnly
  <2>. QED BY <2>1, <2>2, <2>3, <2>4, <2>6 DEF Order, BeforeConsole, BeforeProtocol
<1>3. CASE RunUsartInit
  <2>1. /\ UNCHANGED <<console, protocol, cpc, config>> /\ upc # "idle"
        /\ pc \in {"console_init", "protocol_init", "other_init"} /\ pc \in DOMAIN AfterInit
        /\ done' = done \/ (done' = [done EXCEPT ![config.usart] = config] /\ upc' = "idle")
    BY <1>3 DEF RunUsartInit, usart_init_step, usart_clock_init, init_gpio, BaudAndEnable, Control1,
       Control2, Control3, GuardTime, ClearStatus, NVIC_EnableIRQ, RegisterHandler, RegisterGetc,
       RegisterPutc, RegsStep, Cpu, Step, AfterInit
  <2>2. /\ upc' = "panic" => pc' = "panic"
        /\ upc' = "idle" => pc' = CASE pc = "console_init" -> "console_log"
                                     [] pc = "protocol_init" -> "protocol_log"
                                     [] OTHER -> "api"
        /\ upc' \notin {"panic", "idle"} => pc' = pc
    BY <1>3, <2>1 DEF RunUsartInit, AfterInit
  <2>3. protocol_init' = protocol_init /\ protocol_init.usart = protocol
        /\ debug_console_init.usart = console
    BY <2>1 DEF protocol_init, debug_console_init, LineConfig
  <2>4. /\ pc = "console_init" => config.usart = console
        /\ pc = "protocol_init" => config.usart = protocol
        /\ pc = "other_init" => config # protocol_init
    BY <1>0, <2>1, <2>3, BootAssumption DEF Where, protocol_init, LineConfig
  <2>5. CASE done' = done
    <3>1. \A s : DoneOnly(s)' <=> DoneOnly(s)
      BY <2>5 DEF DoneOnly
    <3>2. DoneOnly({}) => DoneOnly({console})
      BY DEF DoneOnly
    <3>3. upc' # "idle" \/ pc' \notin DOMAIN AfterInit
      BY <2>2 DEF AfterInit
    <3>. QED BY <2>1, <2>2, <2>3, <2>5, <3>1, <3>2, <3>3 DEF Order, BeforeConsole, BeforeProtocol
  <2>6. CASE done' = [done EXCEPT ![config.usart] = config] /\ upc' = "idle"
    <3>1. ASSUME NEW s, NEW t, DoneOnly(s), s \subseteq t, config.usart \in t
          PROVE  \A u \in Usarts : done'[u] # NULL => u \in t
      <4>1. \A u \in Usarts : u # config.usart => done'[u] = done[u]
        BY <1>0, <2>6 DEF Typed
      <4>. QED BY <3>1, <4>1 DEF DoneOnly
    <3>2. CASE pc = "console_init"
      <4>1. DoneOnly({console})' /\ DoneOnly({console, protocol})'
        BY <2>1, <2>4, <3>1, <3>2 DEF Order, BeforeConsole, DoneOnly
      <4>2. pc' = "console_log"
        BY <2>2, <2>6, <3>2
      <4>. QED BY <2>1, <2>6, <4>1, <4>2 DEF Order, BeforeConsole, BeforeProtocol
    <3>3. CASE pc = "protocol_init"
      <4>1. DoneOnly({console, protocol})'
        BY <2>1, <2>4, <3>1, <3>3 DEF Order, BeforeProtocol, DoneOnly
      <4>2. pc' = "protocol_log"
        BY <2>2, <2>6, <3>3
      <4>. QED BY <2>1, <2>6, <4>1, <4>2 DEF Order, BeforeConsole, BeforeProtocol
    <3>4. CASE pc = "other_init"
      <4>1. pc' = "api" /\ config' # protocol_init'
        BY <2>1, <2>2, <2>3, <2>4, <2>6, <3>4
      <4>. QED BY <2>1, <2>6, <3>4, <4>1 DEF Order, BeforeConsole, BeforeProtocol
    <3>. QED BY <2>1, <3>2, <3>3, <3>4
  <2>. QED BY <2>1, <2>5, <2>6
<1>. QED BY <1>1, <1>2, <1>3, OutsideStep

(***************************************************************************)
(* The baud rate register: only usart_init writes it, before the line is   *)
(* open.                                                                   *)
(***************************************************************************)
BrrKept == \A u \in Usarts : usart'[u].brr = usart[u].brr

\* A write to another register of one USART.
LEMMA FieldKeeps ==
    ASSUME AllWhole(usart), NEW k, NEW v,
           \/ usart' = [usart EXCEPT ![k] = [usart[k] EXCEPT !.cr1 = v]]
           \/ usart' = [usart EXCEPT ![k] = [usart[k] EXCEPT !.cr2 = v]]
           \/ usart' = [usart EXCEPT ![k] = [usart[k] EXCEPT !.cr3 = v]]
           \/ usart' = [usart EXCEPT ![k] = [usart[k] EXCEPT !.gtpr = v]]
           \/ usart' = [usart EXCEPT ![k] = [usart[k] EXCEPT !.sr = v]]
    PROVE  BrrKept
<1> DEFINE old == usart[k]
<1>0. k \in Usarts => Whole(old)
  BY DEF AllWhole
<1> HIDE DEF old
<1>1. PICK r :
        /\ usart' = [usart EXCEPT ![k] = r]
        /\ \/ r = [old EXCEPT !.cr1 = v]
           \/ r = [old EXCEPT !.cr2 = v]
           \/ r = [old EXCEPT !.cr3 = v]
           \/ r = [old EXCEPT !.gtpr = v]
           \/ r = [old EXCEPT !.sr = v]
  BY DEF old
<1>2. k \in Usarts => r.brr = old.brr
  BY <1>0, <1>1 DEF Whole
<1>3. ASSUME NEW u \in Usarts PROVE usart'[u].brr = usart[u].brr
  <2>1. usart = [w \in Usarts |-> usart[w]]
    BY DEF AllWhole
  <2>2. usart'[u] = IF u = k THEN r ELSE usart[u]
    BY <1>1, <2>1
  <2>. QED BY <1>2, <2>2 DEF old
<1>. QED BY <1>3 DEF BrrKept

LEMMA PollKeeps ==
    ASSUME AllWhole(usart), NEW u,
           \/ usart_putc(u) \/ usart_getc(u)
           \/ usart_enable_dma(u) \/ usart_disable_dma(u) \/ usart_disable(u)
    PROVE  BrrKept
<1>1. CASE usart_putc(u) \/ usart_getc(u)
  <2>1. PICK v : usart' = [usart EXCEPT ![u] = [usart[u] EXCEPT !.sr = v]]
    BY <1>1 DEF usart_putc, usart_getc
  <2>. QED BY <2>1, FieldKeeps
<1>2. CASE usart_enable_dma(u) \/ usart_disable_dma(u)
  <2>1. PICK v : usart' = [usart EXCEPT ![u] = [usart[u] EXCEPT !.cr3 = v]]
    BY <1>2 DEF usart_enable_dma, usart_disable_dma
  <2>. QED BY <2>1, FieldKeeps
<1>3. CASE usart_disable(u)
  <2>1. PICK v : usart' = [usart EXCEPT ![u] = [usart[u] EXCEPT !.cr1 = v]]
    BY <1>3 DEF usart_disable
  <2>. QED BY <2>1, FieldKeeps
<1>. QED BY <1>1, <1>2, <1>3

LEMMA BrrStep ==
    ASSUME AllWhole(usart), [Next]_vars
    PROVE  BrrKept \/ (RunUsartInit /\ BaudAndEnable)
<1>1. CASE usart' = usart
  BY <1>1 DEF BrrKept
<1>2. CASE RunUsartInit /\ ~BaudAndEnable /\ usart' # usart
  <2> DEFINE u == config.usart
  <2>1. CASE Control1
    <3>1. PICK v : usart' = [usart EXCEPT ![u] = [usart[u] EXCEPT !.cr1 = v]]
      BY <2>1 DEF Control1, Write
    <3>. QED BY <3>1, FieldKeeps
  <2>2. CASE Control2
    <3>1. PICK v : usart' = [usart EXCEPT ![u] = [usart[u] EXCEPT !.cr2 = v]]
      BY <2>2 DEF Control2, Write
    <3>. QED BY <3>1, FieldKeeps
  <2>3. CASE Control3
    <3>1. PICK v : usart' = [usart EXCEPT ![u] = [usart[u] EXCEPT !.cr3 = v]]
      BY <1>2, <2>3 DEF Control3, Write
    <3>. QED BY <3>1, FieldKeeps
  <2>4. CASE GuardTime
    <3>1. PICK v : usart' = [usart EXCEPT ![u] = [usart[u] EXCEPT !.gtpr = v]]
      BY <1>2, <2>4 DEF GuardTime, Write
    <3>. QED BY <3>1, FieldKeeps
  <2>5. CASE ClearStatus
    <3>1. PICK v : usart' = [usart EXCEPT ![u] = [usart[u] EXCEPT !.sr = v]]
      BY <2>5 DEF ClearStatus, Write
    <3>. QED BY <3>1, FieldKeeps
  <2>. QED BY <1>2, <2>1, <2>2, <2>3, <2>4, <2>5
       DEF RunUsartInit, usart_init_step, usart_clock_init, init_gpio, NVIC_EnableIRQ,
           RegisterHandler, RegisterGetc, RegisterPutc
<1>3. CASE thread /\ ~RunUsartInit /\ usart' # usart
  <2>1. PICK u : \/ usart_putc(u) \/ usart_getc(u)
                 \/ usart_enable_dma(u) \/ usart_disable_dma(u) \/ usart_disable(u)
    BY <1>3 DEF thread, Start, RunSystemInit, leds_init, InitConsole, InitProtocol, InitOther,
       CallUsartInit, usart_init, Log, enable_irq, Stays, SwitchBits, BeginIo, ReadByte, WriteByte,
       EndIo, Polls, usartVars, vars
  <2>. QED BY <2>1, PollKeeps
<1>4. CASE interrupt /\ usart' # usart
  <2>1. PICK u : usart_putc(u) \/ usart_getc(u)
    BY <1>4 DEF interrupt, Enter, EnterNull, console_data_received, _comm_byte_received, IrqPolls,
       usartVars, vars
  <2>. QED BY <2>1, PollKeeps
<1>5. CASE hardware /\ usart' # usart
  <2>1. PICK u, v : usart' = [usart EXCEPT ![u] = [usart[u] EXCEPT !.sr = v]]
    BY <1>5 DEF hardware, ByteArrives, ByteSent, usartVars
  <2>. QED BY <2>1, FieldKeeps
<1>. QED BY <1>1, <1>2, <1>3, <1>4, <1>5 DEF Next, vars

AfterBaud == {"cr1", "cr2", "cr3", "gtpr", "sr", "nvic", "cb", "getc", "putc"}

Rated ==
    /\ \A u \in Usarts :
         done[u] # NULL =>
           /\ done[u] \in {debug_console_init, protocol_init} \cup ExtraConfigs
           /\ done[u].usart = u /\ usart[u].brr = usart_set_baudrate(done[u])
    /\ upc \in AfterBaud =>
         config.usart \in Usarts /\ usart[config.usart].brr = usart_set_baudrate(config)

\* What a step of usart_init changes of what these invariants are about.
LEMMA InitMoves ==
    ASSUME BInv, Order, RunUsartInit
    PROVE  /\ UNCHANGED <<console, protocol, config>> /\ config.usart \in Usarts
           /\ config \in {debug_console_init, protocol_init} \cup ExtraConfigs
           /\ done[config.usart] = NULL /\ pc \notin {"start", "clock", "leds"}
           /\ debug_console_init' = debug_console_init /\ protocol_init' = protocol_init
           /\ \/ done' = done
              \/ /\ done' = [done EXCEPT ![config.usart] = config]
                 /\ upc = "putc" /\ upc' = "idle"
           /\ upc' \in AfterBaud => upc \in AfterBaud \/ BaudAndEnable
           /\ upc' \in AfterBaud \cup {"baud"} => upc \in AfterBaud \cup {"baud"} \/ init_gpio
<1>1. /\ UNCHANGED <<console, protocol, config>> /\ upc # "idle"
      /\ pc \in {"console_init", "protocol_init", "other_init"} /\ pc \in DOMAIN AfterInit
      /\ \/ done' = done
         \/ done' = [done EXCEPT ![config.usart] = config] /\ upc = "putc" /\ upc' = "idle"
  BY DEF RunUsartInit, usart_init_step, usart_clock_init, init_gpio, BaudAndEnable, Control1,
     Control2, Control3, GuardTime, ClearStatus, NVIC_EnableIRQ, RegisterHandler, RegisterGetc,
     RegisterPutc, RegsStep, Cpu, Step, AfterInit
<1>2. /\ upc' \in AfterBaud => upc \in AfterBaud \/ BaudAndEnable
      /\ upc' \in AfterBaud \cup {"baud"} => upc \in AfterBaud \cup {"baud"} \/ init_gpio
  BY DEF RunUsartInit, usart_init_step, usart_clock_init, init_gpio, BaudAndEnable, Control1,
     Control2, Control3, GuardTime, ClearStatus, NVIC_EnableIRQ, RegisterHandler, RegisterGetc,
     RegisterPutc, Step, Panic, AfterBaud
<1>3. config.usart \in Usarts
  BY <1>1, Purpose
<1>4. /\ config \in {debug_console_init, protocol_init} \cup ExtraConfigs
      /\ done[config.usart] = NULL
  BY <1>1 DEF BInv, Where, Order
<1>5. debug_console_init' = debug_console_init /\ protocol_init' = protocol_init
  BY <1>1 DEF debug_console_init, protocol_init, LineConfig
<1>. QED BY <1>1, <1>2, <1>3, <1>4, <1>5

LEMMA RatedInit == Init => Rated
  BY DEF Init, UsartInit, Rated, AfterBaud

LEMMA RatedStep ==
    ASSUME BInv, Order, Rated, [Next]_vars
    PROVE  Rated'
<1>0. Typed /\ Where /\ AllWhole(usart)
  BY DEF BInv, Typed
<1>1. CASE RunUsartInit
  <2> DEFINE u == config.usart
  <2>1. CASE BaudAndEnable
    <3>1. PICK w : usart' = [usart EXCEPT ![u] = [[usart[u] EXCEPT !.brr = usart_set_baudrate(config)]
                                                     EXCEPT !.cr1 = w]]
      BY <2>1 DEF BaudAndEnable, Write
    <3> DEFINE v == usart_set_baudrate(config)
               old == usart[u]
               q == [old EXCEPT !.brr = v]
               r == [q EXCEPT !.cr1 = w]
    <3>2. u \in Usarts /\ done[u] = NULL /\ config' = config /\ done' = done
      BY <1>1, <2>1, InitMoves DEF BaudAndEnable, RegsStep
    <3>3. Whole(old)
      BY <1>0, <3>2 DEF AllWhole
    <3> HIDE DEF old, v
    <3>4. Whole(q)
      BY <3>3, WriteField
    <3>11. q.brr = v
      BY <3>3 DEF Whole
    <3> HIDE DEF q
    <3>5. r.brr = v
      BY <3>4, <3>11 DEF Whole
    <3>6. usart' = [usart EXCEPT ![u] = r]
      BY <3>1 DEF r, q, old, v
    <3> HIDE DEF r
    <3>7. \A k \in Usarts : usart'[k] = IF k = u THEN r ELSE usart[k]
      <4>1. usart = [k \in Usarts |-> usart[k]]
        BY <1>0 DEF AllWhole
      <4>. QED BY <3>6, <4>1
    <3>8. config'.usart \in Usarts /\ usart'[config'.usart].brr = usart_set_baudrate(config')
      BY <3>2, <3>5, <3>7 DEF v
    <3>9. debug_console_init' = debug_console_init /\ protocol_init' = protocol_init
      BY <1>1, InitMoves
    <3>10. ASSUME NEW k \in Usarts, done'[k] # NULL
           PROVE  /\ done'[k] \in {debug_console_init', protocol_init'} \cup ExtraConfigs
                  /\ done'[k].usart = k /\ usart'[k].brr = usart_set_baudrate(done'[k])
      <4>1. k # u /\ done[k] # NULL
        BY <3>2, <3>10
      <4>2. usart'[k] = usart[k]
        BY <3>7, <4>1
      <4>. QED BY <3>2, <3>9, <4>1, <4>2 DEF Rated
    <3>. QED BY <3>8, <3>10 DEF Rated
  <2>2. CASE ~BaudAndEnable
    <3>1. BrrKept
      BY <1>0, <2>2, BrrStep
    <3>2. /\ config' = config /\ u \in Usarts /\ done[u] = NULL
          /\ config \in {debug_console_init, protocol_init} \cup ExtraConfigs
          /\ debug_console_init' = debug_console_init /\ protocol_init' = protocol_init
          /\ \/ done' = done
             \/ done' = [done EXCEPT ![u] = config] /\ upc = "putc"
          /\ upc' \in AfterBaud => upc \in AfterBaud
      BY <1>1, <2>2, InitMoves
    <3>3. upc' \in AfterBaud => config'.usart \in Usarts /\ usart'[config'.usart].brr = usart_set_baudrate(config')
      BY <3>1, <3>2 DEF Rated, BrrKept
    <3>4. ASSUME NEW k \in Usarts, done'[k] # NULL
          PROVE  /\ done'[k] \in {debug_console_init', protocol_init'} \cup ExtraConfigs
                 /\ done'[k].usart = k /\ usart'[k].brr = usart_set_baudrate(done'[k])
      <4>1. usart'[k].brr = usart[k].brr
        BY <3>1 DEF BrrKept
      <4>2. CASE done'[k] = done[k]
        BY <3>2, <3>4, <4>1, <4>2 DEF Rated
      <4>3. CASE done'[k] # done[k]
        <5>1. done' = [done EXCEPT ![u] = config] /\ upc = "putc"
          BY <3>2, <4>3
        <5>2. k = u /\ done'[k] = config
          BY <1>0, <4>3, <5>1 DEF Typed
        <5>3. usart[u].brr = usart_set_baudrate(config)
          BY <5>1 DEF Rated, AfterBaud
        <5>. QED BY <3>2, <4>1, <5>2, <5>3
      <4>. QED BY <4>2, <4>3
    <3>. QED BY <3>3, <3>4 DEF Rated
  <2>. QED BY <2>1, <2>2
<1>2. CASE ~RunUsartInit
  <2>1. BrrKept
    BY <1>0, <1>2, BrrStep
  <2>2. /\ UNCHANGED <<done, console, protocol>>
        /\ upc' \in AfterBaud => config' = config /\ upc \in AfterBaud
    BY <1>2, OutsideStep DEF Outside, Calls, InitConsole, InitProtocol, InitOther, CallUsartInit,
       usart_init, AfterBaud
  <2>3. debug_console_init' = debug_console_init /\ protocol_init' = protocol_init
    BY <2>2 DEF debug_console_init, protocol_init, LineConfig
  <2>. QED BY <2>1, <2>2, <2>3 DEF Rated, BrrKept
<1>. QED BY <1>1, <1>2

LEMMA Euclid ==
    ASSUME NEW a \in Nat, NEW k \in Nat \ {0}
    PROVE  a \div k \in Nat /\ a % k \in 0..(k - 1) /\ a = (a \div k) * k + (a % k)
  OBVIOUS

\* The divider as usart_set_baudrate splits it: what the register holds is its low
\* sixteen bits.
LEMMA Divider ==
    ASSUME NEW d \in Nat, NEW K \in Nat \ {0}, NEW L \in Nat \ {0}, NEW E \in Nat \ {0}, NEW J \in Nat \ {0},
           K = 16 * L, K = E * J, E = 256
    PROVE  /\ ((d % K) \div 16) % L \in 0..(L - 1)
           /\ ((d - ((d % K) \div 16) * 16) % E) % 16 \in 0..15
           /\ 16 * (((d % K) \div 16) % L) + (((d - ((d % K) \div 16) * 16) % E) % 16) = d % K
<1> DEFINE q == d \div K
           s == d % K
           m == s \div 16
           t == s % 16
<1>1. q \in Nat /\ s \in 0..(K - 1) /\ d = q * K + s
  BY Euclid, Zenon
<1> HIDE DEF q, s
<1>2. m \in Nat /\ t \in 0..15 /\ s = 16 * m + t
  BY <1>1
<1> HIDE DEF m, t
<1>3. m \in 0..(L - 1)
  BY <1>1, <1>2
<1>4. m % L = m
  <2>1. (0 * L + m) % L = m
    BY <1>3, Quotient
  <2>. QED BY <1>2, <2>1
<1>5. (d - m * 16) % E = t
  <2> DEFINE n == q * J
  <2>1. q * K = n * E /\ n \in Nat
    BY <1>1
  <2> HIDE DEF n
  <2>2. t \in 0..(E - 1)
    BY <1>2
  <2>3. (n * E + t) % E = t
    BY <2>1, <2>2, Quotient
  <2>4. d - m * 16 = n * E + t
    BY <1>1, <1>2, <2>1
  <2>. QED BY <2>3, <2>4
<1>6. t % 16 = t
  BY <1>2
<1>7. /\ ((d % K) \div 16) % L = m
      /\ ((d - ((d % K) \div 16) * 16) % E) % 16 = t
  BY <1>4, <1>5, <1>6, Zenon DEF m, s
<1>. QED BY <1>2, <1>3, <1>7, Zenon DEF s

LEMMA BrrValue ==
    ASSUME NEW c, usart_get_bus_clock(c.usart) \div c.baudrate \in Nat
    PROVE  NumOf(usart_set_baudrate(c)) = (usart_get_bus_clock(c.usart) \div c.baudrate) % 2^16
<1> DEFINE d == usart_get_bus_clock(c.usart) \div c.baudrate
           m == ((d % 2^16) \div 16) % 2^12
           f == ((d - ((d % 2^16) \div 16) * 16) % 2^8) % 16
<1>1. d \in Nat
  OBVIOUS
<1>2. usart_set_baudrate(c) = Shift(BitsOf(m), 4) \cup BitsOf(f)
  BY Zenon DEF usart_set_baudrate
<1> HIDE DEF d
<1>3. Below(m, 12) /\ f \in 0..15 /\ 16 * m + f = d % 2^16
  <2> DEFINE K == 2^16
             L == 2^12
             E == 2^8
  <2>1. K \in Nat \ {0} /\ L \in Nat \ {0} /\ E \in Nat \ {0} /\ E = 256 /\ K = 16 * L /\ K = E * 256
    BY SMT
  <2>2. m = ((d % K) \div 16) % L /\ f = ((d - ((d % K) \div 16) * 16) % E) % 16
    OBVIOUS
  <2> HIDE DEF K, L, E, m, f
  <2>3. /\ ((d % K) \div 16) % L \in 0..(L - 1)
        /\ ((d - ((d % K) \div 16) * 16) % E) % 16 \in 0..15
        /\ 16 * (((d % K) \div 16) % L) + (((d - ((d % K) \div 16) * 16) % E) % 16) = d % K
    <3>1. 256 \in Nat \ {0}
      OBVIOUS
    <3>. QED BY <1>1, <2>1, <3>1, Divider
  <2>4. m \in 0..(L - 1) /\ f \in 0..15 /\ 16 * m + f = d % K
    BY <2>2, <2>3, Zenon
  <2>5. m \in Nat /\ m < L
    BY <2>1, <2>4
  <2>. QED BY <2>4, <2>5, Zenon DEF Below, K, L
<1> HIDE DEF m, f
<1>4. NumOf(Shift(BitsOf(m), 4) \cup BitsOf(f)) = 16 * m + f
  BY <1>3, SplitBits, Zenon
<1>5. NumOf(usart_set_baudrate(c)) = d % 2^16
  BY <1>2, <1>3, <1>4, Zenon
<1>. QED BY <1>5 DEF d

\* The 2 % of BaudRight.
LEMMA Close ==
    ASSUME NEW r \in Nat, NEW b \in Nat, NEW e \in 0..(b - 1), r >= 50 * b
    PROVE  (r + e) - r \in -(r \div 50)..(r \div 50)
<1>1. r \div 50 \in Nat /\ r \div 50 >= b
  OBVIOUS
<1>2. (r + e) - r = e
  OBVIOUS
<1> DEFINE h == r \div 50
<1> HIDE DEF h
<1>3. h \in Nat /\ h >= b
  BY <1>1 DEF h
<1>4. e \in -h..h
  BY <1>3
<1>. QED BY <1>2, <1>4 DEF h

LEMMA Far ==
    ASSUME NEW r \in Nat, NEW x \in Nat, 100 * x < 97 * r \/ 100 * x > 103 * r
    PROVE  x - r \notin -(r \div 50)..(r \div 50)
<1> DEFINE h == r \div 50
<1>1. h \in Nat /\ 50 * h <= r
  OBVIOUS
<1> HIDE DEF h
<1>2. ASSUME x - r \in -h..h PROVE FALSE
  BY <1>1, <1>2
<1>. QED BY <1>2 DEF h

\* A divider that fits gives a rate within the last unit of the clock it is for.
LEMMA Fitting ==
    ASSUME NEW clk \in Nat, NEW b \in Nat \ {0}, 50 * b <= clk
    PROVE  LET d == clk \div b
           IN  /\ d \in Nat /\ d * b \in Nat /\ d * b >= 50 * b
               /\ \E e \in 0..(b - 1) : clk = d * b + e
<1> DEFINE d == clk \div b
           e == clk % b
<1>1. d \in Nat /\ e \in 0..(b - 1) /\ clk = d * b + e
  BY Euclid, Zenon
<1> HIDE DEF d, e
<1>2. d * b \in Nat
  BY <1>1
<1>3. d * b >= 50 * b
  <2>1. CASE d >= 50
    <3>1. PICK k \in Nat : d = 50 + k
      <4>1. d - 50 \in Nat /\ d = 50 + (d - 50)
        BY <1>1, <2>1
      <4>. QED BY <4>1
    <3>2. d * b = 50 * b + k * b /\ k * b \in Nat
      BY <3>1
    <3>. QED BY <3>2
  <2>2. CASE ~(d >= 50)
    <3>1. PICK k \in Nat : 50 = d + 1 + k
      <4>1. 49 - d \in Nat /\ 50 = d + 1 + (49 - d)
        BY <1>1, <2>2
      <4>. QED BY <4>1
    <3>2. (d + 1 + k) * b = d * b + b + k * b /\ k * b \in Nat
      BY <1>1
    <3>3. 50 * b = d * b + b + k * b
      BY <3>1, <3>2
    <3>4. clk < 50 * b
      BY <1>1, <1>2, <3>2, <3>3
    <3>. QED BY <3>4
  <2>. QED BY <2>1, <2>2
<1>. QED BY <1>1, <1>2, <1>3 DEF d

\* A line works at its baud rate exactly when the core runs from the PLL, fed by HSI,
\* and the divider fits (usart.c:132-165): whichever two lines are the console's and the
\* protocol's, whatever the oscillators do, and for any polled line opened later.
THEOREM BaudSafe ==
    (\A c \in ExtraConfigs : Unambiguous(c)) => (Spec => []BaudIffClockTree)
<1> SUFFICES ASSUME \A c \in ExtraConfigs : Unambiguous(c)
             PROVE  Spec => []BaudIffClockTree
  OBVIOUS
<1> DEFINE I == BInv /\ CInv /\ Order /\ Rated
<1>1. Init => I
  BY BInvInit, CInvInit, OrderInit, RatedInit
<1>2. I /\ [Next]_vars => I'
  BY BInvStep, CInvStep, OrderStep, RatedStep
<1>3. I => BaudIffClockTree
  <2> SUFFICES ASSUME I, NEW u \in Usarts, done[u] # NULL
               PROVE  BaudRight(u) <=> /\ OnPll /\ PLLSRC \notin rcc.pllcfgr
                                       /\ usart_get_bus_clock(u) \div done[u].baudrate < 2^16
    BY DEF BaudIffClockTree
  <2> DEFINE c == done[u]
             b == c.baudrate
             clk == usart_get_bus_clock(u)
             d == clk \div b
             now == IF u \in {1, 6} THEN Pclk2 ELSE Pclk1
             rate == (d % 2^16) * b
  <2>1. c.usart = u /\ usart[u].brr = usart_set_baudrate(c)
        /\ c \in {debug_console_init, protocol_init} \cup ExtraConfigs
    BY DEF Rated
  <2>2. cpc = "done"
    <3>1. pc \notin BeforeConsole
      BY DEF Order, DoneOnly
    <3>. QED BY <3>1 DEF Order, BeforeConsole
  <2>3. clk = IF u \in {1, 6} THEN 84000000 ELSE 42000000
    BY DEF usart_get_bus_clock, PROD_CLOCK_APB1, PROD_CLOCK_APB2
  <2>4. clk \in Nat /\ clk >= 42000000 /\ clk <= 84000000
    BY <2>3, SMT
  <2>5. 2^16 = 65536 /\ 2^16 \in Nat \ {0}
    BY SMT
  <2>6. b \in Nat \ {0} /\ b <= 840000 /\ (d < 2^16 \/ rate < 15000000)
    <3>1. CASE c \in {debug_console_init, protocol_init}
      <4>1. b = 115200
        BY <3>1 DEF debug_console_init, protocol_init, LineConfig
      <4>2. b \in Nat \ {0} /\ b <= 840000
        BY <4>1, SMT
      <4>3. clk \div 115200 < 65536
        BY <2>4, SMT
      <4>. QED BY <2>5, <4>1, <4>2, <4>3, SMT
    <3>2. CASE c \in ExtraConfigs
      <4>1. Unambiguous(c)
        BY <3>2
      <4>. QED BY <2>1, <4>1, SMT DEF Unambiguous
    <3>. QED BY <2>1, <3>1, <3>2, SMT
  <2>7. PICK e \in 0..(b - 1) : clk = d * b + e /\ d \in Nat /\ d * b \in Nat /\ d * b >= 50 * b
    <3> HIDE DEF clk, b, rate
    <3>1. b \in Nat \ {0} /\ 50 * b <= clk
      BY <2>4, <2>6, SMT
    <3>2. clk \in Nat
      BY <2>4, SMT
    <3>3. d \in Nat /\ d * b \in Nat /\ d * b >= 50 * b /\ \E e \in 0..(b - 1) : clk = d * b + e
      BY <3>1, <3>2, Fitting
    <3> HIDE DEF d
    <3>. QED BY <3>3
  <2>8. BaudRight(u) <=> now - rate \in -(rate \div 50)..(rate \div 50)
    <3>1. NumOf(usart_set_baudrate(c)) = (usart_get_bus_clock(c.usart) \div c.baudrate) % 2^16
      BY <2>1, <2>7, BrrValue
    <3>2. NumOf(usart[u].brr) * done[u].baudrate = rate
      BY <2>1, <3>1, Zenon
    <3>. QED BY <3>2, Zenon DEF BaudRight
  <2>9. \/ OnPll /\ PLLSRC \notin rcc.pllcfgr /\ now = clk
        \/ ~(OnPll /\ PLLSRC \notin rcc.pllcfgr) /\ (now = 16000000 \/ 2 * now = clk) /\ now \in Nat
    <3>1. CASE rcc.cfgr = {}
      <4>1. ~OnPll
        BY <3>1, Switches DEF OnPll
      <4>. QED BY <3>1, <4>1, Frequencies, SMT
    <3>2. CASE rcc.cfgr = Running /\ PllSet
      <4>1. OnPll /\ (PLLSRC \in rcc.pllcfgr <=> build.prod_hse)
        BY <3>2, Switches, PllFields DEF OnPll
      <4>2. CASE build.prod_hse
        <5>1. Pclk1 = 21000000 /\ Pclk2 = 42000000
          BY <3>2, <4>2, Frequencies, SMT
        <5>2. 2 * now = clk /\ now \in Nat
          BY <2>3, <5>1, SMT
        <5>. QED BY <4>1, <4>2, <5>2, SMT
      <4>3. CASE ~build.prod_hse
        <5>1. Pclk1 = 42000000 /\ Pclk2 = 84000000
          BY <3>2, <4>3, Frequencies, SMT
        <5>. QED BY <2>3, <4>1, <4>3, <5>1, SMT
      <4>. QED BY <4>2, <4>3
    <3>. QED BY <2>2, <3>1, <3>2, SMT DEF CInv
  <2> HIDE DEF I, clk, d, now, b
  <2>10. b \in Nat /\ b >= 1 /\ b <= 840000
    BY <2>6, SMT
  <2>11. CASE d < 2^16
    <3>1. d % 2^16 = d
      <4> DEFINE m == 2^16
      <4>1. m \in Nat \ {0} /\ d < m
        BY <2>5, <2>11
      <4> HIDE DEF m
      <4>2. (0 * m + d) % m = d
        <5>1. d \in 0..(m - 1)
          BY <2>7, <4>1
        <5>. QED BY <4>1, <5>1, Quotient
      <4>3. 0 * m + d = d
        BY <2>7, <4>1
      <4>. QED BY <4>2, <4>3, Zenon DEF m
    <3> DEFINE r == d * b
    <3>2. rate = r
      BY <3>1, Zenon
    <3>3. r \in Nat /\ r >= 50 * b /\ clk = r + e
      BY <2>7
    <3> HIDE DEF r, rate
    <3>4. CASE OnPll /\ PLLSRC \notin rcc.pllcfgr /\ now = clk
      <4>1. now - rate \in -(rate \div 50)..(rate \div 50)
        BY <2>10, <3>2, <3>3, <3>4, Close, SMT
      <4>. QED BY <2>8, <2>11, <3>4, <4>1 DEF clk, d, b
    <3>5. CASE ~(OnPll /\ PLLSRC \notin rcc.pllcfgr) /\ (now = 16000000 \/ 2 * now = clk) /\ now \in Nat
      <4>1. 100 * now < 97 * r
        BY <2>4, <2>7, <2>10, <3>3, <3>5, SMT
      <4>2. now - rate \notin -(rate \div 50)..(rate \div 50)
        BY <3>2, <3>3, <3>5, <4>1, Far, SMT
      <4>. QED BY <2>8, <3>5, <4>2, SMT
    <3>. QED BY <2>9, <3>4, <3>5, SMT
  <2>12. CASE ~(d < 2^16)
    <3>1. rate \in Nat /\ rate < 15000000
      <4>1. d % 2^16 \in Nat
        BY <2>5, <2>7
      <4>2. rate \in Nat
        <5> DEFINE w == d % 2^16
        <5> HIDE DEF w
        <5>1. w \in Nat
          BY <4>1 DEF w
        <5>2. w * b \in Nat
          BY <2>10, <5>1
        <5>. QED BY <5>2 DEF w
      <4>. QED BY <2>6, <2>12, <4>2, SMT
    <3> HIDE DEF rate
    <3>2. now \in Nat /\ now >= 16000000
      BY <2>4, <2>9, SMT
    <3>3. 100 * now > 103 * rate
      BY <3>1, <3>2, SMT
    <3>4. now - rate \notin -(rate \div 50)..(rate \div 50)
      BY <3>1, <3>2, <3>3, Far, SMT
    <3>. QED BY <2>8, <2>12, <3>4 DEF clk, d, b
  <2>. QED BY <2>11, <2>12
<1>4. Spec => []I
  BY <1>1, <1>2, PTL DEF Spec
<1>. QED BY <1>3, <1>4, PTL

(***************************************************************************)
(* The pins.  Each belongs to one USART or to none, whichever way the      *)
(* USART is used; the LEDs are no USART's.                                 *)
(***************************************************************************)
Owner(port, pin) ==
    IF port = "A" THEN (IF pin \in 2..4 THEN 2 ELSE IF pin \in 8..9 THEN 1 ELSE 0)
    ELSE IF port = "B" THEN (IF pin \in 6..7 THEN 1 ELSE IF pin \in 10..12 THEN 3 ELSE 0)
    ELSE IF port = "C" THEN (IF pin \in 6..8 THEN 6 ELSE IF pin \in 10..11 THEN 4
                             ELSE IF pin = 12 THEN 5 ELSE 0)
    ELSE IF port = "D" /\ pin = 2 THEN 5 ELSE 0

\* A row of the tables: two pins of the USART, each once.
Row(p, u) ==
    /\ p[1] \in Ports /\ p[2] \in 0..15 /\ Owner(p[1], p[2]) = u
    /\ p[3] \in Ports /\ p[4] \in 0..15 /\ Owner(p[3], p[4]) = u
    /\ p[1] # p[3] \/ p[2] # p[4]

LEMMA Rows ==
    ASSUME NEW u \in Usarts
    PROVE  /\ Row(UartPins[u], u)
           /\ SmartcardPins[u][1] # "0" => Row(SmartcardPins[u], u)
           /\ GPIO_AF_USART[u] \in 0..15
<1>1. u = 1 \/ u = 2 \/ u = 3 \/ u = 4 \/ u = 5 \/ u = 6
  BY DEF Usarts
<1>2. CASE u = 1
  BY <1>2 DEF Row, Owner, UartPins, SmartcardPins, Ports, GPIO_AF_USART
<1>3. CASE u = 2
  BY <1>3 DEF Row, Owner, UartPins, SmartcardPins, Ports, GPIO_AF_USART
<1>4. CASE u = 3
  BY <1>4 DEF Row, Owner, UartPins, SmartcardPins, Ports, GPIO_AF_USART
<1>5. CASE u = 4
  BY <1>5 DEF Row, Owner, UartPins, SmartcardPins, Ports, GPIO_AF_USART
<1>6. CASE u = 5
  BY <1>6 DEF Row, Owner, UartPins, SmartcardPins, Ports, GPIO_AF_USART
<1>7. CASE u = 6
  BY <1>7 DEF Row, Owner, UartPins, SmartcardPins, Ports, GPIO_AF_USART
<1>. QED BY <1>1, <1>2, <1>3, <1>4, <1>5, <1>6, <1>7

LEMMA LedsFree ==
    /\ \A pin \in LedPins : Owner("D", pin) = 0 /\ pin \in 0..15
    /\ "D" \in Ports
  BY DEF Owner, LedPins, Ports

\* The configuration of one pin of a row.
PinOk(p, u) ==
    /\ IsConfig(p) /\ p.set_mask = GPIO_SET_ALL /\ gpio_accepts(p)
    /\ p.port \in Ports /\ p.pin \in 0..15 /\ Owner(p.port, p.pin) = u

LEMMA PinConfigOk ==
    ASSUME NEW u \in Usarts, NEW port \in Ports, NEW pin \in 0..15, Owner(port, pin) = u,
           NEW type \in {"PIN_OTYPER_PP", "PIN_OTYPER_OD"}, NEW pupd \in {"GPIO_NOPULL", "GPIO_PULLUP"}
    PROVE  /\ PinOk(PinConfig(port, pin, type, pupd, u), u)
           /\ PinConfig(port, pin, type, pupd, u).port = port
           /\ PinConfig(port, pin, type, pupd, u).pin = pin
<1> DEFINE af == GPIO_AF_USART[u]
           ty == OutType[type]
           pu == Pull[pupd]
           p == PinConfig(port, pin, type, pupd, u)
<1>1. af \in 0..15
  BY Rows
<1>2. ty \in 0..1 /\ pu \in 0..3
  BY DEF OutType, Pull
<1>3. Mode.PIN_ALTERNATE_MODE = 2 /\ Speed.PIN_VERY_HIGH_SPEED = 3
  BY DEF Mode, Speed
<1>4. p = [port |-> port, pin |-> pin, set_mask |-> GPIO_SET_ALL, mode |-> 2, type |-> ty,
           speed |-> 3, pupd |-> pu, afr |-> af, od |-> 0, bsr_r |-> 0, bsr_s |-> 0, lck |-> 0]
  BY <1>3, Zenon DEF PinConfig
<1> HIDE DEF af, ty, pu, p
<1>5. /\ p.port = port /\ p.pin = pin /\ p.set_mask = GPIO_SET_ALL /\ p.mode = 2 /\ p.type = ty
      /\ p.speed = 3 /\ p.pupd = pu /\ p.afr = af /\ p.od = 0 /\ p.bsr_r = 0 /\ p.bsr_s = 0 /\ p.lck = 0
  BY <1>4
<1>6. IsConfig(p)
  BY <1>1, <1>2, <1>5 DEF IsConfig
<1>7. gpio_accepts(p)
  BY <1>5 DEF gpio_accepts
<1>. QED BY <1>5, <1>6, <1>7 DEF PinOk, p

\* The configurations that init_gpio does not refuse.
Accepted(c) ==
    /\ c.mode \in {"UART", "SMARTCARD"}
    /\ "0" \notin {PinsOf(c)[1].port, PinsOf(c)[2].port}

LEMMA PinsAre ==
    ASSUME NEW c, c.usart \in Usarts, Accepted(c)
    PROVE  /\ PinOk(PinsOf(c)[1], c.usart) /\ PinOk(PinsOf(c)[2], c.usart)
           /\ PinsOf(c)[1].port # PinsOf(c)[2].port \/ PinsOf(c)[1].pin # PinsOf(c)[2].pin
<1> DEFINE u == c.usart
<1>1. CASE c.mode = "UART"
  <2> DEFINE p == UartPins[u]
  <2>1. /\ PinsOf(c)[1] = PinConfig(p[1], p[2], "PIN_OTYPER_PP", "GPIO_NOPULL", u)
        /\ PinsOf(c)[2] = PinConfig(p[3], p[4], "PIN_OTYPER_PP", "GPIO_NOPULL", u)
    BY <1>1 DEF PinsOf, uart_gpio_config
  <2>2. Row(p, u)
    BY Rows
  <2> HIDE DEF p
  <2> DEFINE x == PinConfig(p[1], p[2], "PIN_OTYPER_PP", "GPIO_NOPULL", u)
             y == PinConfig(p[3], p[4], "PIN_OTYPER_PP", "GPIO_NOPULL", u)
  <2>3. PinOk(x, u) /\ x.port = p[1] /\ x.pin = p[2]
    BY <2>2, PinConfigOk DEF Row
  <2>4. PinOk(y, u) /\ y.port = p[3] /\ y.pin = p[4]
    BY <2>2, PinConfigOk DEF Row
  <2>5. p[1] # p[3] \/ p[2] # p[4]
    BY <2>2 DEF Row
  <2>6. PinsOf(c)[1] = x /\ PinsOf(c)[2] = y
    BY <2>1
  <2> HIDE DEF x, y
  <2>. QED BY <2>3, <2>4, <2>5, <2>6
<1>2. CASE c.mode # "UART"
  <2> DEFINE p == SmartcardPins[u]
  <2>1. /\ PinsOf(c)[1] = PinConfig(p[1], p[2], "PIN_OTYPER_OD", "GPIO_PULLUP", u)
        /\ PinsOf(c)[2] = PinConfig(p[3], p[4], "PIN_OTYPER_PP", "GPIO_PULLUP", u)
    BY <1>2 DEF PinsOf, smartcard_gpio_config
  <2>2. PinsOf(c)[1].port = p[1]
    BY <2>1 DEF PinConfig
  <2>3. Row(p, u)
    BY <2>2, Rows DEF Accepted
  <2> HIDE DEF p
  <2> DEFINE x == PinConfig(p[1], p[2], "PIN_OTYPER_OD", "GPIO_PULLUP", u)
             y == PinConfig(p[3], p[4], "PIN_OTYPER_PP", "GPIO_PULLUP", u)
  <2>4. PinOk(x, u) /\ x.port = p[1] /\ x.pin = p[2]
    BY <2>3, PinConfigOk DEF Row
  <2>5. PinOk(y, u) /\ y.port = p[3] /\ y.pin = p[4]
    BY <2>3, PinConfigOk DEF Row
  <2>6. p[1] # p[3] \/ p[2] # p[4]
    BY <2>3 DEF Row
  <2>7. PinsOf(c)[1] = x /\ PinsOf(c)[2] = y
    BY <2>1
  <2> HIDE DEF x, y
  <2>. QED BY <2>4, <2>5, <2>6, <2>7
<1>. QED BY <1>1, <1>2

\* What a pin's settings are after a call that asks for the whole of them.
LEMMA Configures ==
    ASSUME NEW g, PortsOf(g), NEW p, NEW u, PinOk(p, u)
    PROVE  LET h == gpio_set_config(g, p)
           IN  /\ PortsOf(h)
               /\ \A f \in GPIO_SET_ALL : PinSettings(h[p.port], p.pin)[f] = BitsOf(p[f])
               /\ \A port \in Ports : \A pin \in 0..15 :
                    (port # p.port \/ pin # p.pin) =>
                      PinSettings(h[port], pin) = PinSettings(g[port], pin)
<1> DEFINE h == gpio_set_config(g, p)
           w == Wanted(p)
           old == PinSettings(g[p.port], p.pin)
<1>1. PortsOf(h) /\ PinChanged(g, h, p.port, p.pin, w)
  BY ConfigCall DEF PinOk
<1>2. \A f \in GPIO_SET_ALL : f \in DOMAIN w /\ w[f] = BitsOf(p[f])
  BY WantedIs DEF PinOk, Settable, GPIO_SET_ALL
<1>3. \A f \in GPIO_SET_ALL : f \in DOMAIN old
  BY DEF PinSettings, GPIO_SET_ALL
<1> HIDE DEF h, w, old
<1>4. PinSettings(h[p.port], p.pin) = Merged(old, w)
  BY <1>1 DEF PinChanged, PinOk, old
<1>5. \A f \in GPIO_SET_ALL : Merged(old, w)[f] = BitsOf(p[f])
  BY <1>2, <1>3 DEF Merged
<1>6. \A port \in Ports : \A pin \in 0..15 :
        (port # p.port \/ pin # p.pin) => PinSettings(h[port], pin) = PinSettings(g[port], pin)
  BY <1>1 DEF PinChanged
<1>. QED BY <1>1, <1>4, <1>5, <1>6 DEF h

\* The pins of c are set as its tables say in the ports g, clocked by enr.
PinsSet(g, enr, c) ==
    \A i \in 1..2 :
      /\ PinsOf(c)[i].port \in enr
      /\ \A f \in GPIO_SET_ALL :
           PinSettings(g[PinsOf(c)[i].port], PinsOf(c)[i].pin)[f] = BitsOf(PinsOf(c)[i][f])

LedsOut(g) == \A pin \in LedPins : PinSettings(g["D"], pin).mode = BitsOf(Mode.PIN_OUTPUT_MODE)

\* From g to h the pins that are not of USART u keep their settings.
OthersKept(g, h, u) ==
    \A port \in Ports : \A pin \in 0..15 :
      Owner(port, pin) # u => PinSettings(h[port], pin) = PinSettings(g[port], pin)

LEMMA TwoPins ==
    ASSUME NEW g, PortsOf(g), NEW c, c.usart \in Usarts, Accepted(c), NEW enr,
           PinsOf(c)[1].port \in enr, PinsOf(c)[2].port \in enr
    PROVE  LET h == gpio_set_config(gpio_set_config(g, PinsOf(c)[1]), PinsOf(c)[2])
           IN  PortsOf(h) /\ PinsSet(h, enr, c) /\ OthersKept(g, h, c.usart)
<1> DEFINE p == PinsOf(c)[1]
           q == PinsOf(c)[2]
           m == gpio_set_config(g, p)
           h == gpio_set_config(m, q)
<1>1. /\ PinOk(p, c.usart) /\ PinOk(q, c.usart)
      /\ p.port # q.port \/ p.pin # q.pin
  BY PinsAre
<1> HIDE DEF p, q
<1>2. /\ PortsOf(m)
      /\ \A f \in GPIO_SET_ALL : PinSettings(m[p.port], p.pin)[f] = BitsOf(p[f])
      /\ \A port \in Ports : \A pin \in 0..15 :
           (port # p.port \/ pin # p.pin) => PinSettings(m[port], pin) = PinSettings(g[port], pin)
  BY <1>1, Configures
<1> HIDE DEF m
<1>3. /\ PortsOf(h)
      /\ \A f \in GPIO_SET_ALL : PinSettings(h[q.port], q.pin)[f] = BitsOf(q[f])
      /\ \A port \in Ports : \A pin \in 0..15 :
           (port # q.port \/ pin # q.pin) => PinSettings(h[port], pin) = PinSettings(m[port], pin)
  BY <1>1, <1>2, Configures
<1> HIDE DEF h
<1>4. \A f \in GPIO_SET_ALL : PinSettings(h[p.port], p.pin)[f] = BitsOf(p[f])
  BY <1>1, <1>2, <1>3 DEF PinOk
<1>5. p.port \in enr /\ q.port \in enr
  BY DEF p, q
<1>6. PinsSet(h, enr, c)
  <2>1. ASSUME NEW i \in 1..2
        PROVE  /\ PinsOf(c)[i].port \in enr
               /\ \A f \in GPIO_SET_ALL :
                    PinSettings(h[PinsOf(c)[i].port], PinsOf(c)[i].pin)[f] = BitsOf(PinsOf(c)[i][f])
    <3>1. CASE i = 1
      BY <1>4, <1>5, <3>1 DEF p
    <3>2. CASE i = 2
      BY <1>3, <1>5, <3>2 DEF q
    <3>. QED BY <3>1, <3>2
  <2>. QED BY <2>1 DEF PinsSet
<1>7. OthersKept(g, h, c.usart)
  <2>1. ASSUME NEW port \in Ports, NEW pin \in 0..15, Owner(port, pin) # c.usart
        PROVE  PinSettings(h[port], pin) = PinSettings(g[port], pin)
    <3>1. (port # p.port \/ pin # p.pin) /\ (port # q.port \/ pin # q.pin)
      BY <1>1, <2>1 DEF PinOk
    <3>. QED BY <1>2, <1>3, <3>1
  <2>. QED BY <2>1 DEF OthersKept
<1>. QED BY <1>3, <1>6, <1>7 DEF h, m, p, q

\* One call of leds_init.
LEMMA OneLed ==
    ASSUME NEW g, PortsOf(g), NEW k \in LedPins
    PROVE  LET h == gpio_set_config(g, LedConfig(k))
           IN  /\ PortsOf(h)
               /\ PinSettings(h["D"], k).mode = BitsOf(Mode.PIN_OUTPUT_MODE)
               /\ \A pin \in LedPins \ {k} : PinSettings(h["D"], pin) = PinSettings(g["D"], pin)
<1> DEFINE c == LedConfig(k)
           h == gpio_set_config(g, c)
           w == Wanted(c)
           old == PinSettings(g["D"], k)
<1>1. /\ c.port = "D" /\ c.pin = k /\ c.mode = Mode.PIN_OUTPUT_MODE /\ "mode" \in c.set_mask
      /\ IsConfig(c) /\ gpio_accepts(c)
  BY DEF LedConfig, LedPins, IsConfig, gpio_accepts, Mode, Pull, Speed, OutType, Ports
<1> HIDE DEF c
<1>2. PortsOf(h) /\ PinChanged(g, h, "D", k, w)
  BY <1>1, ConfigCall
<1>3. "mode" \in DOMAIN w /\ w["mode"] = BitsOf(Mode.PIN_OUTPUT_MODE)
  <2>1. "mode" \in DOMAIN w
    BY <1>1, WantedIs DEF Settable
  <2>2. w["mode"] = BitsOf(IF "mode" = "od" /\ Sets(c) THEN 1 ELSE c["mode"])
    BY <2>1, WantedIs, Zenon
  <2>3. w["mode"] = BitsOf(c["mode"])
    BY <2>2
  <2>. QED BY <1>1, <2>1, <2>3
<1>4. "mode" \in DOMAIN old
  BY DEF PinSettings
<1> HIDE DEF h, w, old
<1>5. PinSettings(h["D"], k) = Merged(old, w)
  BY <1>2, LedsFree DEF PinChanged, old
<1>6. PinSettings(h["D"], k).mode = BitsOf(Mode.PIN_OUTPUT_MODE)
  BY <1>3, <1>4, <1>5 DEF Merged
<1>7. \A pin \in LedPins \ {k} : PinSettings(h["D"], pin) = PinSettings(g["D"], pin)
  BY <1>2, LedsFree DEF PinChanged
<1>. QED BY <1>2, <1>6, <1>7 DEF h, c

LEMMA LedsSet ==
    ASSUME PortsOf(gpio), leds_init
    PROVE  PortsOf(gpio') /\ LedsOut(gpio')
<1> DEFINE a == gpio_set_config(gpio, LedConfig(13))
           b == gpio_set_config(a, LedConfig(12))
           c == gpio_set_config(b, LedConfig(14))
           d == gpio_set_config(c, LedConfig(15))
           out == BitsOf(Mode.PIN_OUTPUT_MODE)
<1>0. gpio' = d
  BY DEF leds_init
<1>1. LedPins = {13, 12, 14, 15}
  BY DEF LedPins
<1>2. PortsOf(a) /\ PinSettings(a["D"], 13).mode = out
  BY <1>1, OneLed
<1> HIDE DEF a, out
<1>3. /\ PortsOf(b) /\ PinSettings(b["D"], 12).mode = out
      /\ \A pin \in LedPins \ {12} : PinSettings(b["D"], pin) = PinSettings(a["D"], pin)
  BY <1>1, <1>2, OneLed DEF out
<1> HIDE DEF b
<1>4. /\ PortsOf(c) /\ PinSettings(c["D"], 14).mode = out
      /\ \A pin \in LedPins \ {14} : PinSettings(c["D"], pin) = PinSettings(b["D"], pin)
  BY <1>1, <1>3, OneLed DEF out
<1> HIDE DEF c
<1>5. /\ PortsOf(d) /\ PinSettings(d["D"], 15).mode = out
      /\ \A pin \in LedPins \ {15} : PinSettings(d["D"], pin) = PinSettings(c["D"], pin)
  BY <1>1, <1>4, OneLed DEF out
<1> HIDE DEF d
<1>6. \A pin \in LedPins : PinSettings(d["D"], pin).mode = out
  BY <1>1, <1>2, <1>3, <1>4, <1>5
<1>. QED BY <1>0, <1>5, <1>6 DEF LedsOut, out

\* Which steps move pins.
LEMMA PinStep ==
    ASSUME WholeRcc(rcc), [Next]_vars
    PROVE  \/ gpio' = gpio /\ rcc'.ahb1enr = rcc.ahb1enr
           \/ leds_init
           \/ RunUsartInit /\ init_gpio
<1>1. CASE RunSystemInit \/ hardware
  <2>1. gpio' = gpio
    BY <1>1 DEF RunSystemInit, hardware, usartVars, ByteArrives, ByteSent, IoStep
  <2>2. CASE rcc' = rcc
    BY <2>1, <2>2
  <2>3. CASE rcc' # rcc
    <3>1. PICK r, v : /\ r.ahb1enr = rcc.ahb1enr /\ WholeRcc(r)
                      /\ \/ rcc' = [r EXCEPT !.cr = v]
                         \/ rcc' = [r EXCEPT !.cfgr = v]
                         \/ rcc' = [r EXCEPT !.cir = v]
                         \/ rcc' = [r EXCEPT !.pllcfgr = v]
      <4>1. CASE OscOn \/ HseStarts \/ PllLocks
        <5>1. PICK v : rcc' = [rcc EXCEPT !.cr = v]
          BY <4>1 DEF OscOn, HseStarts, PllLocks
        <5>. QED BY <5>1
      <4>2. CASE SwitchToPll \/ ClockSwitches
        <5>1. PICK v : rcc' = [rcc EXCEPT !.cfgr = v]
          BY <4>2 DEF SwitchToPll, ClockSwitches
        <5>. QED BY <5>1
      <4>3. CASE SetVectors
        <5>1. rcc' = [rcc EXCEPT !.cir = {}]
          BY <4>3 DEF SetVectors
        <5>. QED BY <5>1
      <4>4. CASE ResetClock
        <5>1. PICK v, w, x : rcc' = [[[rcc EXCEPT !.cr = v] EXCEPT !.cfgr = w] EXCEPT !.pllcfgr = x]
          <6> DEFINE p == BitsOf(603992080)
                     q == (rcc.cr \cup {CR.HSION}) \ {CR.HSEON, CR.CSSON, CR.PLLON, CR.HSEBYP}
          <6>1. rcc' = [rcc EXCEPT !.cr = q, !.cfgr = {}, !.pllcfgr = p]
            BY <4>4, SMT DEF ResetClock
          <6> HIDE DEF p, q
          <6>. QED BY <6>1
        <5> DEFINE r1 == [rcc EXCEPT !.cr = v]
                   r2 == [r1 EXCEPT !.cfgr = w]
        <5>5. r1 = [cr |-> v, pllcfgr |-> rcc.pllcfgr, cfgr |-> rcc.cfgr, cir |-> rcc.cir,
                    ahb1enr |-> rcc.ahb1enr, apb1enr |-> rcc.apb1enr, apb2enr |-> rcc.apb2enr]
          BY RccField
        <5> HIDE DEF r1
        <5>2. r1.ahb1enr = rcc.ahb1enr /\ WholeRcc(r1)
          BY <5>5 DEF WholeRcc
        <5>3. r2.ahb1enr = rcc.ahb1enr /\ WholeRcc(r2)
          BY <5>2, RccField DEF WholeRcc
        <5>4. rcc' = [r2 EXCEPT !.pllcfgr = x]
          BY <5>1 DEF r1
        <5> HIDE DEF r2
        <5>. QED BY <5>3, <5>4
      <4>5. CASE PowerUp
        <5>1. PICK v, w : rcc' = [[rcc EXCEPT !.apb1enr = v] EXCEPT !.cfgr = w]
          BY <4>5 DEF PowerUp
        <5> DEFINE r1 == [rcc EXCEPT !.apb1enr = v]
        <5>2. r1.ahb1enr = rcc.ahb1enr /\ WholeRcc(r1)
          BY RccField DEF WholeRcc
        <5> HIDE DEF r1
        <5>. QED BY <5>1, <5>2 DEF r1
      <4>6. CASE PllOn
        <5>1. PICK v, w : rcc' = [[rcc EXCEPT !.pllcfgr = v] EXCEPT !.cr = w]
          BY <4>6 DEF PllOn
        <5> DEFINE r1 == [rcc EXCEPT !.pllcfgr = v]
        <5>2. r1.ahb1enr = rcc.ahb1enr /\ WholeRcc(r1)
          BY RccField DEF WholeRcc
        <5> HIDE DEF r1
        <5>. QED BY <5>1, <5>2 DEF r1
      <4>. QED BY <1>1, <2>3, <4>1, <4>2, <4>3, <4>4, <4>5, <4>6
           DEF RunSystemInit, system_init, OscWait, PllWait, FlashWaitStates, SwitchWait, hardware,
               clockHardware, ByteArrives, ByteSent, IoStep
    <3>2. rcc'.ahb1enr = r.ahb1enr
      BY <3>1 DEF WholeRcc
    <3>. QED BY <2>1, <3>1, <3>2
  <2>. QED BY <2>2, <2>3
<1>2. CASE RunUsartInit
  <2>1. CASE usart_clock_init
    <3>1. PICK v : \/ rcc' = [rcc EXCEPT !.apb2enr = v]
                   \/ rcc' = [rcc EXCEPT !.apb1enr = v]
      BY <2>1 DEF usart_clock_init
    <3>2. rcc'.ahb1enr = rcc.ahb1enr
      BY <3>1, RccField
    <3>. QED BY <2>1, <3>2 DEF usart_clock_init
  <2>. QED BY <1>2, <2>1
       DEF RunUsartInit, usart_init_step, BaudAndEnable, Control1, Control2, Control3, GuardTime,
           ClearStatus, NVIC_EnableIRQ, RegisterHandler, RegisterGetc, RegisterPutc, RegsStep
<1>3. CASE thread /\ ~RunSystemInit /\ ~leds_init /\ ~RunUsartInit
  BY <1>3 DEF thread, Start, InitConsole, InitProtocol, InitOther, CallUsartInit, usart_init,
     Log, enable_irq, Stays, SwitchBits, BeginIo, ReadByte, WriteByte, EndIo, Polls, ApiStep, IoTurn,
     IoStep, clockVars, usartVars, vars
<1>4. CASE interrupt
  BY <1>4 DEF interrupt, Enter, EnterNull, console_data_received, _comm_byte_received,
     IrqPolls, IoStep, clockVars, usartVars, vars
<1>. QED BY <1>1, <1>2, <1>3, <1>4 DEF Next, vars

FromBaud == AfterBaud \cup {"baud"}

PinsInv ==
    /\ PortsOf(gpio)
    /\ \A u \in Usarts :
         done[u] # NULL => Accepted(done[u]) /\ PinsSet(gpio, rcc.ahb1enr, done[u])
    /\ upc \in FromBaud =>
         /\ config.usart \in Usarts /\ Accepted(config)
         /\ PinsSet(gpio, rcc.ahb1enr, config)
    /\ pc \notin {"start", "clock", "leds"} => LedsOut(gpio)

LEMMA PinsInvInit == Init => PinsInv
<1> SUFFICES ASSUME Init
             PROVE  PinsInv
  OBVIOUS
<1>1. /\ gpio = [p \in Ports |-> PortReset] /\ upc = "idle" /\ done = [u \in Usarts |-> NULL]
      /\ pc = "start"
  BY DEF Init, UsartInit
<1>2. PortsOf(gpio)
  BY <1>1, ResetPort DEF PortsOf
<1>. QED BY <1>1, <1>2 DEF PinsInv, FromBaud, AfterBaud

\* Setting a USART's pins leaves those of another one set, and the LEDs.
LEMMA OthersStay ==
    ASSUME NEW g, NEW h, NEW u \in Usarts, OthersKept(g, h, u)
    PROVE  /\ LedsOut(g) => LedsOut(h)
           /\ \A c, enr, bigger :
                (c.usart \in Usarts /\ c.usart # u /\ Accepted(c) /\ enr \subseteq bigger
                   /\ PinsSet(g, enr, c)) => PinsSet(h, bigger, c)
<1>1. LedsOut(g) => LedsOut(h)
  <2>1. \A pin \in LedPins : PinSettings(h["D"], pin) = PinSettings(g["D"], pin)
    BY LedsFree DEF OthersKept, Usarts
  <2>. QED BY <2>1 DEF LedsOut
<1>2. ASSUME NEW c, NEW enr, NEW bigger, c.usart \in Usarts, c.usart # u, Accepted(c),
             enr \subseteq bigger, PinsSet(g, enr, c)
      PROVE  PinsSet(h, bigger, c)
  <2>1. ASSUME NEW i \in 1..2
        PROVE  /\ PinsOf(c)[i].port \in bigger
               /\ \A f \in GPIO_SET_ALL :
                    PinSettings(h[PinsOf(c)[i].port], PinsOf(c)[i].pin)[f] = BitsOf(PinsOf(c)[i][f])
    <3> DEFINE p == PinsOf(c)[i]
    <3>1. PinOk(p, c.usart)
      <4>1. i = 1 \/ i = 2
        OBVIOUS
      <4>. QED BY <1>2, <4>1, PinsAre
    <3>2. PinSettings(h[p.port], p.pin) = PinSettings(g[p.port], p.pin)
      BY <1>2, <3>1 DEF PinOk, OthersKept
    <3>3. p.port \in enr /\ \A f \in GPIO_SET_ALL : PinSettings(g[p.port], p.pin)[f] = BitsOf(p[f])
      BY <1>2 DEF PinsSet
    <3>. QED BY <1>2, <3>2, <3>3
  <2>. QED BY <2>1 DEF PinsSet
<1>. QED BY <1>1, <1>2

LEMMA PinsInvStep ==
    ASSUME BInv, CInv, Order, Rated, PinsInv, [Next]_vars
    PROVE  PinsInv'
<1>0. WholeRcc(rcc) /\ Typed /\ Where
  BY DEF BInv, CInv
<1>1. CASE leds_init
  <2>1. pc = "leds" /\ UNCHANGED <<done, upc>>
    BY <1>1 DEF leds_init, Goto
  <2>2. upc = "idle" /\ \A u \in Usarts : done[u] = NULL
    BY <1>0, <2>1 DEF Where, Initialising, Order, BeforeConsole, DoneOnly
  <2>3. PortsOf(gpio') /\ LedsOut(gpio')
    BY <1>1, LedsSet DEF PinsInv
  <2>. QED BY <2>1, <2>2, <2>3 DEF PinsInv, FromBaud, AfterBaud
<1>2. CASE RunUsartInit /\ init_gpio
  <2> DEFINE u == config.usart
             p == PinsOf(config)[1]
             q == PinsOf(config)[2]
             h == gpio_set_config(gpio_set_config(gpio, p), q)
             enr == rcc.ahb1enr \cup {p.port} \cup {q.port}
  <2>1. /\ u \in Usarts /\ done[u] = NULL /\ config' = config
        /\ pc \notin {"start", "clock", "leds"} /\ done' = done
    BY <1>2, InitMoves DEF init_gpio
  <2>2. CASE upc' = "panic" /\ gpio' = gpio /\ rcc' = rcc
    BY <2>1, <2>2 DEF PinsInv, FromBaud, AfterBaud
  <2>3. CASE Accepted(config) /\ upc' = "baud" /\ gpio' = h
             /\ rcc' = [rcc EXCEPT !.ahb1enr = gpio_clock(gpio_clock(@, p), q)]
    <3>1. PinOk(p, u) /\ PinOk(q, u)
      BY <2>1, <2>3, PinsAre
    <3>2. gpio_clock(gpio_clock(rcc.ahb1enr, p), q) = enr
      BY <3>1 DEF gpio_clock, PinOk
    <3>3. rcc'.ahb1enr = enr
      BY <1>0, <2>3, <3>2, RccField
    <3>4. p.port \in enr /\ q.port \in enr /\ rcc.ahb1enr \subseteq enr
      OBVIOUS
    <3> HIDE DEF enr
    <3>5. PortsOf(h) /\ PinsSet(h, enr, config) /\ OthersKept(gpio, h, u)
      BY <2>1, <2>3, <3>4, TwoPins DEF PinsInv
    <3>6. ASSUME NEW k \in Usarts, done[k] # NULL
          PROVE  Accepted(done[k]) /\ PinsSet(h, enr, done[k])
      <4>1. k # u /\ done[k].usart = k /\ Accepted(done[k]) /\ PinsSet(gpio, rcc.ahb1enr, done[k])
        BY <2>1, <3>6 DEF Rated, PinsInv
      <4>. QED BY <2>1, <3>4, <3>5, <4>1, OthersStay
    <3>7. LedsOut(h)
      BY <2>1, <3>5, OthersStay DEF PinsInv
    <3> HIDE DEF u, p, q, h
    <3>. QED BY <2>1, <2>3, <3>3, <3>5, <3>6, <3>7 DEF PinsInv, u
  <2>4. \/ upc' = "panic" /\ gpio' = gpio /\ rcc' = rcc
       \/ /\ Accepted(config) /\ upc' = "baud" /\ gpio' = h
          /\ rcc' = [rcc EXCEPT !.ahb1enr = gpio_clock(gpio_clock(@, p), q)]
    BY <1>2, Zenon DEF init_gpio, Accepted, Panic
  <2>. QED BY <2>2, <2>3, <2>4
<1>3. CASE gpio' = gpio /\ rcc'.ahb1enr = rcc.ahb1enr /\ ~leds_init
  <2>1. CASE RunUsartInit /\ ~init_gpio
    <3>1. /\ config' = config /\ config.usart \in Usarts /\ pc \notin {"start", "clock", "leds"}
          /\ \/ done' = done
             \/ done' = [done EXCEPT ![config.usart] = config] /\ upc \in FromBaud
          /\ upc' \in FromBaud => upc \in FromBaud
      BY <2>1, InitMoves DEF FromBaud, AfterBaud
    <3>2. ASSUME NEW k \in Usarts, done'[k] # NULL
          PROVE  Accepted(done'[k]) /\ PinsSet(gpio, rcc.ahb1enr, done'[k])
      <4>1. CASE done'[k] = done[k]
        BY <3>2, <4>1 DEF PinsInv
      <4>2. CASE done'[k] # done[k]
        <5>1. done'[k] = config /\ upc \in FromBaud
          BY <1>0, <3>1, <4>2 DEF Typed
        <5>. QED BY <5>1 DEF PinsInv
      <4>. QED BY <4>1, <4>2
    <3>. QED BY <1>3, <3>1, <3>2 DEF PinsInv
  <2>2. CASE ~RunUsartInit
    <3>1. done' = done /\ (upc' \in FromBaud => upc \in FromBaud /\ config' = config)
      BY <2>2, OutsideStep DEF Outside, Calls, InitConsole, InitProtocol, InitOther, CallUsartInit,
         usart_init, FromBaud, AfterBaud
    <3>2. pc' \notin {"start", "clock", "leds"} => pc \notin {"start", "clock", "leds"}
      <4>1. CASE Calls
        BY <4>1 DEF Calls, InitConsole, InitProtocol, InitOther, CallUsartInit, Goto
      <4>2. CASE ~Calls
        <5>1. PcMoves
          BY <2>2, <4>2, OutsideStep DEF Outside
        <5>2. pc \in DOMAIN AfterLog => pc \in {"console_log", "log", "protocol_log"}
          BY DEF AfterLog
        <5>. QED BY <1>3, <5>1, <5>2 DEF PcMoves, Order
      <4>. QED BY <4>1, <4>2
    <3>. QED BY <1>3, <3>1, <3>2 DEF PinsInv
  <2>3. CASE RunUsartInit /\ init_gpio
    BY <1>2, <2>3
  <2>. QED BY <2>1, <2>2, <2>3
<1>. QED BY <1>0, <1>1, <1>2, <1>3, PinStep

\* An initialised USART keeps its two pins in its alternate function and clocked, and the
\* LEDs stay outputs (gpio.c, stm32f4xx_usart.c:28-86, leds.c:12-37): whichever lines and
\* configurations are initialised, in main's order, and whatever happens between.
THEOREM PinsSafe == Spec => []PinsKept
<1> DEFINE I == BInv /\ CInv /\ Order /\ Rated /\ PinsInv
<1>1. Init => I
  BY BInvInit, CInvInit, OrderInit, RatedInit, PinsInvInit
<1>2. I /\ [Next]_vars => I'
  BY BInvStep, CInvStep, OrderStep, RatedStep, PinsInvStep
<1>3. I => PinsKept
  BY DEF PinsInv, PinsSet, LedsOut, PinsKept
<1>4. Spec => []I
  BY <1>1, <1>2, PTL DEF Spec
<1>. QED BY <1>3, <1>4, PTL

=============================================================================
