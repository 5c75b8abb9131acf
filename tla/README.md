# Formal models of SecAESSTM32

SecAESSTM32 is an AES-128 library for the Cortex-M4 whose primitives, written in
assembly, are protected by affine masking, together with a firmware for the
STM32F407 Discovery board (and QEMU) that runs AES tests sent by a Python script
over a serial line. This directory holds TLA+ models of the parts of it whose
behaviour depends on order, on interleaving and on long sequences of calls, the
TLC configurations that check them and the theorems TLAPS proves about them.

Paths are relative to the directory above this one, as in `PROJECT.json`.

## 1. Inventory

| part | state it keeps | operations | hard behaviour | what makes it correct |
|---|---|---|---|---|
| AES engine, `src/src/aes/aes.c` | `STRUCT_AES`: key context, AES context, two use counters, state flags | `aes()`: check the mode, the mode against the state and the parameters, then draw randomness, load the key, draw again, initialise the context, process a block | any sequence of 127 modes on one context; failures half-way; one random buffer for two purposes; counters that wrap | flags tell the truth about contexts, key and state masks are independent, a call does all or (nearly) nothing, each block is right for the key and direction asked |
| masked primitives, `src/src/aes/affine_aes.S` | the two contexts | `aes_loadKey`, `aes_init_enc`, `aes_init_dec`, `aes_enc`, `aes_dec` | shuffled loops with indices of another permutation, masks that change at each step, two multiplicative masks (key and state) | unmasked, every step is the AES step |
| receive path, `src/src/platform.c` (STM32) | ring buffer, `ring_buffer_initialized`, USART4's data register | handler `_comm_byte_received`, reader `_comm_getchar`, `_comm_getbuffer`, lazy `init_ring_buffer` from both sides | handler and reader interleave at every volatile access; level-triggered interrupt; a full ring; another interrupt holding the core | bytes come out complete, once and in order |
| test runner, `src/src/tests/test.c` | the test being received, the AES context of the session | tags `b`, `e`, `t`, 155 bytes of fields, call of `aes()`, checks, answer | framing by counting only, state left by an earlier session, two programs waiting for each other | every test is run as sent and its answer is the one awaited |
| host script, `src/scripts/test_aes.py` | position in the generated tests | generate cases, write a unit, read 18 bytes | no timeout | ends, and all tests pass |
| printf, `src/src/printf/printf.c` | a ring of 512 bytes, the conversion being parsed | `print` and its format parser, `printf`, `sprintf`, `snprintf`, `dbg_log`'s bare `print`, `print_and_reset_buffer` | `sprintf` takes its result back from the ring it shares with pending logs; widths and integer types of fixed size; formats that end inside a conversion | the text is the one the format and the arguments stand for, each conversion takes its own argument |
| debug console, `src/src/stm32discovery_F407/debug.c`, `main.c` | `console_putc`, the log flag, the same ring | `debug_console_init`, `dbg_log`, `dbg_flush`, `panic`, the console interrupt | main and the interrupt share the ring without a lock; `panic` and `dbg_flush` call each other | what is logged is printed once, and damage ends with the next flush |
| USART driver, `stm32f4xx_usart.c` | registers, handlers, `getc`/`putc` pointers | `usart_init`, pins, baud rate, `usart_getc`, `usart_putc`, `usart_read`, `usart_write`, DMA, disable, handlers | the interrupt is on before its callback is there; a divider computed from a clock nobody checked | no handler is missing, the baud rate is the one asked |
| clock setup, `init.c` | RCC, PWR and flash registers | `system_init`, `SetSysClock`, `set_vtor` | waits without a timeout, fallback clock, two switches for one oscillator | the fast clock comes last, and boot ends |
| boot, `main.c` | the program point of `main` | masking, LEDs, console, unmasking, protocol line, tests | bytes at any moment on lines being set up | reaches the runner |
| GPIO and EXTI, `stm32f4xx_gpio.c` | port registers, EXTI, SYSCFG and NVIC registers, handler table | `gpio_set_config`, `gpio_set_value`, `gpio_get`, `gpio_register_exti_handler`, dispatch | packed registers shared by sixteen pins; a registration that fails at its last step; a pending bit no one clears | no call disturbs another pin; the handler of an edge is called |
| LEDs, `leds.c`, `main.c` | `led_num` | `leds_init`, `leds_on`, `leds_off`, `leds_toggle`, `leds_blinky`, `toggle_leds` | a counter that wraps; a toggle that writes back what it reads | the LEDs on are those the documented calls leave on |
| systick, `cortex_m4_systick.c` | a 64-bit counter | `systick_init`, `SysTick_Handler`, `delay` | two loads of a counter an interrupt advances | a delay is never short and ends |
| random generator `get_random` | `round` | fill a buffer | a deterministic stub | fresh values |
| QEMU and Keil platforms, startup code, linker script, system control block, technical report | - | - | - | pure I/O, vendor code or constants |

Interactions: the host and the runner exchange bytes over USART4; the interrupt
handler and the main thread share the receive ring; the runner calls the engine;
the engine calls the primitives and `get_random`; every part prints through the
printf ring, which the console interrupt uses too; boot configures clocks, pins
and lines in an order on which all of the above rely.

## 2. Modules

```
ByteFifo <----- refines ----- CommRing <-- CommRingProofs
AesService <--- refines ----- AesEngine <-- AesEngineProofs
                                  ^
                                  | INSTANCE
       TestSessionProofs --> TestSession   (CommRing's channel, host, runner, engine)

AesMath <-- Aes <-- refines -- MaskedAes --> MaskTables --> Shuffle
                                   ^
                            MaskedAesProofs --> TableWalk --> MaskTables
                                         (AesTables: the literal tables, for TLC)

             PrintRing
             ^       ^
   Numerals  |       |
      ^      |       |
PrintfReference <- Printf   ConsoleLog
                       ^     ^
                     PrintProofs

             Registers
             ^   ^   ^
      GpioRegs   |   Clock
       ^   ^  UsartRegs  ^
       |   |     ^       |
       |   +-- Usart ----+
       |         ^
     Exti       Boot <-- BootProofs
       ^
     Board <-- BoardProofs          PinBank <--- refines ----- Board
       |
     SysTick

GpioRegs <-- RegisterProofs <-- BoardProofs, BootProofs
                  ^
                  | INSTANCE, for the induction alone
       PrintProofs, MaskedAesProofs
```

`MC...` modules hold what TLC needs to run a specification: symmetry, scripts,
keys, seeds, formats, configurations.

| module | models | state | actions and the code they stand for |
|---|---|---|---|
| `ByteFifo` | what the receive path promises | bytes sent, bytes delivered | `Send`, `Deliver` |
| `CommRing` | the ring of `platform.c`, its handler, its reader, USART4's data register, the console handler of `main.c` | the fields of `ring_buffer`, `ring_buffer_initialized`, the data register, the reader's program point | `IsrFirst`, `IsrStore`, `IsrRefuse`: `_comm_byte_received` (clearing the ring first, storing, refusing); `FirstRead`, `SetEnd` ... `InitDone`: `init_ring_buffer` run by the reader, one volatile write per step; `ReadEmpty`, `Take`, `Clear`: `ring_buffer_read_char`; `HostSend`, `ConsoleEnter`, `ConsoleExit`: the outside |
| `AesService` | what a user of `aes()` relies on | key, direction, their use counts, last block | `Load`, `Choose`, `Process` |
| `AesEngine` | `aes()` and its three checks | `STRUCT_AES` (contexts, `state`, `ctr_key`, `ctr_aes`), the buffer of randomness, the call in progress | `Check` (accept or refuse: `test_mode`, `test_mode_state`, `test_parameter_content`), `KeyRandom`, `LoadKey`, `AesRandom`, `InitAes`, `Process` and the failures of the two draws |
| `TestSession` | `test_aes.py`, `perform_aes_tests`, `perform_aes_basic_test` | where the host and the runner are in the stream, answers on their way, the test received, `AesEngine`'s state | `HostSend`, `HostRead`: the script; `RunnerBegin`, `RunnerSkip`, `RunnerTest`, `RunnerField`, `TestReceived`, `Answer`: the runner; `CallAes`, `AesRuns`: the engine |
| `AesMath`, `Aes` | FIPS-197 on clear values, the reference | round keys, block, round, phase | one action per transformation |
| `Shuffle`, `MaskTables` | the subroutines of `affine_aes.S` as functions: permuted orders, `Compute_GTab`, `field_division`, masked S-boxes, masked key expansion, MixColumns | - | - |
| `TableWalk` | a walk through the values of a byte, to state what holds of the subroutines at each | the byte | - |
| `AesTables` | the `.data` tables of `affine_aes.S`, value by value | - | - |
| `MaskedAes` | `aes_loadKey`, `aes_init_enc`, `aes_init_dec`, `aes_enc`, `aes_dec` | `STRUCT_KEY_CONTEXT`, `STRUCT_AES128_CONTEXT`, the four scratch areas | one action per subroutine a round calls |
| `PrintRing` | the print ring of `printf.c` as operators: write a character or a string, take back, flush, reset | - | - |
| `Numerals`, `PrintfReference` | the digits of a number; what a directive of a format stands for: as the standard printf prints it (`StandardNumber`), and three named departures of `printf.c` with what it prints then | - | - |
| `Printf` | `print`, the format parser, `printf`, `sprintf`, `snprintf` | the format, the arguments, the conversion being parsed (`fs_properties_t`), the ring, what `_putchar` got | one action per loop turn of `print` and per letter of the parser, one per way a call returns |
| `ConsoleLog` | `dbg_log`, `dbg_flush`, `panic`, `console_data_received`, `cb_console_data_irq` over the ring, character by character | main's program and program point, its register copies of `end` and `full`, the ring, the console | `LogChar`, `WriteBack`, `Reload`, `FlushChar`, `CarriageReturn`, `ResetIndices`, `FlushEnd`, `FlushUnset`, `CallPanic`, `Halt`; the two handlers, one step each |
| `Registers` | `helpers.h`: `set_reg_value`, `get_reg_value` and the bit setters, on registers as sets of bits | - | - |
| `GpioRegs` | the setters of `stm32f4xx_gpio.c` on the registers of a port | - | - |
| `UsartRegs`, `Usart` | the registers and `usart_init` step by step, pins, baud rate, flow control, the NVIC, callbacks, `usart_getc`, `usart_putc`, DMA bits, and the hardware of six lines | registers of every USART, the NVIC, the handler and pointer tables | one action per stage of `usart_init`; `ByteArrives`, `ByteSent`: the line |
| `Clock` | `system_init`, `SetSysClock`, `set_vtor` | RCC, PWR, flash registers, the oscillators | one action per register step or wait; `PllLocks`, `ClockSwitches`, the starting of an oscillator: the hardware |
| `Boot` | `main` from reset to the test loop over `Clock` and `Usart`, the console and protocol handlers, `usart_read`, `usart_write` | `main`'s program point, `PRIMASK`, the handler that runs | one action per call of `main`; `Enter`, `EnterNull`: the vector; `ReadByte`, `WriteByte`, `EndIo` |
| `Exti` | `gpio_register_exti_handler` step by step, `EXTI_IRQHANDLER` and the two grouped vectors | handler table, EXTI, SYSCFG and NVIC registers | `RegisterBegin`, `RegisterNvic`, `RegisterRoute`, `RegisterUnmask`, `RegisterEdge`, `EXTI_IRQHandler`; `Edge`: the pins |
| `SysTick` | the counter, `systick_init`, `delay` | the counter, the delay that runs | `LoadFirst`, `LoadStart`, `Check`: one load of half the counter per step; `SysTick_Handler` |
| `PinBank` | what the GPIO driver promises | settings of every pin | `Serve` |
| `Board` | GPIO, LEDs, EXTI and systick together, under their interrupts | those of `Exti` and `SysTick`, the port registers, `led_num` | `CallConfig`, `CallRegister`, `CallDelay`, `CallLeds` and their continuations; `leds_toggle`; `exti`, `systick`, `outside` |

### How close the models are

*CommRing.* The n-th byte of the host is the number n, so losing, repeating and
reordering are visible whatever the characters. The handler runs to completion
before the main thread takes a step, so it is one action; the main thread is cut
at every access to a field the handler writes too. Two reductions are made: the
read of `buf[start]` and the advance of `start` are one step, as the handler
writes neither, and the main thread does not run while a request is pending, as
an arrival the core has not taken yet is the same as an arrival a step later.
The request is level-triggered: a handler that does not read the data register
is entered again.

*AesEngine.* A mode is the set of its flags; bit 7 selects nothing. A context is
what went into it: a key or a table, and 19 random bytes. An operation on tables
of the other direction yields `garbage`, a value outside the type of `out`. The
assembly primitives return `SEC_OK` always, so the four `ERR_OP_...` branches
they would cause cannot be taken and are left out. `get_random` fails in the
model if `RandomMayFail`: the stub of `platform.c` does not, but it is the
function an integrator replaces. Random values, drawn or given by the caller,
are assumed fresh; the stub of `platform.c` repeats itself with period 256 and
does not satisfy this.

*TestSession.* A byte is a place in the script (unit and offset), which the
runner cannot see: it counts, and it takes whatever comes when it expects a tag
for a tag. The AES context is a local of `perform_aes_tests` that nothing sets
before the first `b` (`test.c:95`): it starts with any key, table, flags and
counters (`Uninitialized`), and a script that sends a test before a `b` would run on
them. An answer, 18 bytes in the code, is one message, as the host reads all
of them or waits. The line is the channel `CommRing` is shown to be; `InFlight`
is what that needs from the host (see below).

*MaskedAes.* A loop over the bytes of a block, the columns or a table is one
step: the subroutine runs alone on memory nothing else touches. The computed
orders are kept, since a block that two loops visit in different orders through
a common scratch area is where they matter; a loop in an order that is not a
permutation leaves bytes out in the model as in the code. Registers, loop
counters and code that only defeats physical measurements are left out.

*Printf.* Text is characters, since what is checked is the text; addresses and
the contents of strings are short sequences. Widths of C types are constants
(`UCHAR`, `SHORT`, `INT`, `LONG`, `LLONG`), so that casts and wraps happen with
small numbers. The width of a directive is kept in a byte by the parser, and wraps in
the model too. The reference is the standard printf where `printf.c` follows it. Where it
does not, `PrintfReference` names the directive as a departure and gives what the code prints:
a negative number (its 64 bits, without a sign), a pointer that is null or padded (the
`0x` is there for null, and the width does not count it), a width of more than a
byte. `PrintExact` holds with these three, and only with them. A read past the end of a format goes to a state of its own,
`astray`, and a copy that reads the ring where nothing was written gives `Junk`.
A ring that `sprintf` has filled stays marked full when the text is taken back
(`printf.c:239`), and drops what is logged until the next flush: the reference
(`Dropping`) says so.

*ConsoleLog.* `end` and `full` of the print ring are not volatile: main may keep
them in registers for the whole of one call of `print` or write them back after
each character. `WriteBack` and `Reload` leave that choice to the build, so a
handler that runs in between finds, and leaves, any of the mixtures the source
allows. `start`, which `print` does not touch, and the array are read and written in place.
A handler is one step: it is not interrupted by main.

*Boot, Usart, Clock.* A register is the set of its bits. Each write of `usart_init`
that another actor can observe (the enable of the peripheral, of the interrupt,
the callbacks) is a step; writes nobody can observe between are merged. The
oscillators, the PLL and the clock switch follow the registers later, or, for the
two oscillators, never. Interrupts have one priority, as the code sets none.
A byte that arrives while the data register is full sets the overrun bit.

*Board.* `delay` reads its 64-bit counter in two loads in either order, as the
compiler chooses. Edges and the functions that callers register are the
environment: one that clears `EXTI_PR` and one that does not. A read-modify-write
of a port register by a registered function is not modelled: no such function is
in the repository. The clock of SYSCFG is taken to be on, although no code under
`src/` switches it on; with it off `SYSCFG_EXTICR` would keep its reset value.

## 3. Runs

Every property is stated in words above its TLA+ text.

| run | instance | shows |
|---|---|---|
| `CommRingAnyHost` | ring of 3, 7 bytes, any window, console in use | `InOrder`: nothing is delivered twice or late, whatever happens. `Exact`: nothing is lost unless one of four named hazards has occurred (the ring filled, the handler refused, USART4 overran, the handler ran inside the first read) |
| `CommRingPoliteHost` | ring of 3, 8 bytes, window 2, silent boot, no console | `NoHazard`, and the refinement `IsFifo` of `ByteFifo` with its fairness: every byte sent is delivered |
| `CommRingStorm` | as above with a host that floods | violation: a full ring is never emptied, the handler starves the reader |
| `AesEngine` | 2 keys, 2 blocks, 4 random values, counters modulo 3, all 127 modes and the empty one | `ContextsMatchState`, `MasksApart`, `SuccessIsComplete`, `FailureIsClean`, the refinement `IsService` |
| `TestSession` | the generated sessions for one encryption and one decryption and a session of commands to be refused, 3 bytes per test, any context at the start | `InSync`, `AllPass`, `InFlight`, `Completes` |
| `AesTables` | each of the 256 bytes | `TablesAreAes`: the literal tables and the table computations are those of GF(256) and FIPS-197; `ShufflesArePermutations`; `InvMixColumnsSplits`: the split InvMixColumns is InvMixColumns |
| `MaskedAes` | full field, 10 rounds, FIPS-197 C.1 key and texts, 2 seeds | the refinement `IsAes` of `Aes` step by step, `KnownAnswer` |
| `Printf` | ring of 10, integer types of 4 to 10 bits, a log call followed by a call of each kind with one or two of 30 directives, among them every departure from the standard | `PrintExact` (the text, standard but for the departures, and -1 exactly for what is refused), `ArgsInStep`, `StaysInside`, `PrintfFlushes`, `SprintfExact` |
| `ConsoleLog` | ring of 6, three programs of main, two keys, three strokes at any moment, both handlers | `CleanExact`, `FlushRecovers`, `PanicStops`; `TypeOK` says that no interruption drives an index out of the array |
| `Boot` | the lines of `product.h` and another pair, the four settings of the HSE switches, a second call of `usart_init` with eight configurations, two bytes on any lines at any moment | `FastOnlyWhenReady`, `BaudIffClockTree`, `PinsKept`, `NullOnlyIfEarly`, `ReadCounts`, `BootCompletes` |
| `Board` | four pin configurations, nine registrations with every refusal, every LED call, delays of two ticks, two edges, a counter of two words of 3 | `OneLed` (but for LEDs given to `leds_toggle`), `OnlyGranted`, `DelayNotShort`, the refinement `ImplementsPins` of `PinBank`, `EdgeServed` (but for misrouted lines and vectors after a storm), `DelayEnds` |
| `ExtiRouting` | as `Board` | violation: a pin that is not a multiple of four is registered with success and its line connected to another port |

The runs expected to end in a violation are places where the code differs from
what its comments say; `findings` in `PROJECT.json` quotes them.

### Other differences between code and documents

Met while modelling; the models follow the code, and the properties above are
stated with the exceptions these make necessary.

- `platform.c:336`, `printf.c:105`: the write that fills a ring does not advance
  `end`, so the ring holds one byte less and that byte is overwritten (`Exact`
  counts it as a hazard; `Capacity` in `PrintRing` is smaller by one).
- `printf.c:225`: `ring_buffer_rewind` "remove[s] len chars (at most)". `sprintf` and
  `snprintf` pass the length of the format (`printf.c:647`), so a text shorter than
  its format takes characters of the pending log with it, or, if the ring holds
  less than that, moves `end` to the top of the array (`printf.c:248`): the ring then
  shows nearly all of its cells. `SprintfExact` has the length as a hypothesis for this reason.
- `platform.c:347`: bytes that arrive while the reader runs `init_ring_buffer` are
  skipped or read as `'\0'`.
- `aes.c:205`: a mode of only `RANDOM_...` flags is not an empty command to the
  code; it is accepted and does nothing.
- `aes.c:247`: after an encryption, `KEYINIT + AESINIT_DEC + DEC` is refused,
  though the command brings all it needs.
- `aes.h:125` gives `ERR_AESINIT_BAD` to an operation on a context initialised for
  the other direction; `test_mode_state` returns it so for a decryption only.
- `test.c:9`: the runner keeps 8 bits of the 32-bit error of `aes()`.
- `gpio.c:121`: `bsr_r` sets the pin, as `bsr_s` does.
- `leds.c:50`: `leds_toggle` writes the state it has read, where `leds.h:24` says that it
  toggles the LED. `lit`, the LEDs that should be on, follows the header; the LED and `lit` part
  at every `leds_toggle`, so `OneLed` says nothing of such a LED (`toggled`) until another call
  writes it.
- `gpio.c:367`: the line of a pin that is not a multiple of four is not routed to its
  port (`ExtiRouting`), so edges on it never reach the handler registered. They are
  owed nevertheless, and `EdgeServed` has the misrouted line as an exception.
- `printf.c:653` calls `printf` a "Standard printf API", and `:375` and `:398` say that integers and
  longs are handled. `ring_buffer_write_number` takes an unsigned 64-bit number, so a negative `%d`, `%i`,
  `%l`, `%ll` or `%h` is printed as its value modulo 2^64 (`:391`, `:429`, `:431`, `:470`; `NegativeNumber`).
- `printf.c:503` says `%p` is "as if using %#x": with a width the prefix is not
  counted, and a null pointer has one (`PaddedPointer`). A width is kept in a byte (`WideField`). `%hh` is
  read as unsigned, and `%l` and `%h` without a letter after them are conversions of this
  parser, which the standard does not have; `PrintfReference` gives them the meaning of
  `%ld` and `%hd`.
- `test.c:95`: the AES context is not initialised before the first `b`.
- `usart.c:65`: `usart_read` returns one more than it stored when the length
  ends it.
- `stm32f4xx_usart_regs.h:128` and `:382`: the definitions of `IDLEIE` and of one
  prescaler value are not those of the reference manual; no code uses them.
- `cortex_m4_systick.c:15`: the period of the tick is `LOAD + 1` cycles, and
  longer by the ratio of the clocks if boot fell back to the internal oscillator.

### Bounds and why they are enough

- `BUF_MAX` = 3 for 4095. Three slots have an empty, a partly filled and a full
  ring, indices that wrap independently, and a byte between `start` and `end`
  that is neither; seven or eight bytes take both indices round twice. The proofs
  hold for every size above 1.
- `MaxSent` bounds the host's stream, `Window` what it leaves unread. A `Window`
  not below `MaxSent` is no constraint.
- `CTR_MOD` = 3 (engine) and 4 (session) for 2^32: the counters wrap. The proofs
  are for every range.
- Four random values: two in the contexts, one in the buffer, one fresh. They
  are interchangeable (symmetry); no definition names one, and all properties
  of that run are safety properties.
- `PAYLOAD` = 3 for 155 bytes: a first, a middle and a last byte of a test. Only
  counting matters to the runner.
- `MaskedAes`: a block is one FIPS-197 text per direction, as IsAes compares each
  step with the reference and the tables are covered value by value in
  `AesTables`. The two seeds give different orders, different masks and
  multipliers, and the multiplier 0, which the header of `aes_loadKey` forbids
  and which behaves as 1. Key and state seeds are chosen independently and
  replaced at any time between operations.
- `Printf`: `BUF_SIZE` = 10 for 512, so that texts of two directives after a log
  fill the ring or not; `UCHAR` = 16 lets a width wrap within two digits, and
  every cast of a number truncates some argument. A format of two directives has
  every pair of states that one conversion can leave to the next.
- `ConsoleLog`: `BUF_SIZE` = 6, filled by one answer of the handler on top of a
  half-written message; three strokes fall inside a log, inside a flush and
  after both; `MaxDepth` = 3 nested panics stand for the stack.
- `Boot`: `MaxBytes` = 2: one byte fills a data register, the next overruns it or
  goes to another line. `STARTUP_TIMEOUT` = 2: an oscillator starts at once,
  late, or not. `WORD` = 256 for 2^32 with lengths 0 to 2.
- `Board`: `WORD` = 3 for 2^32 and four ticks carry once; a call that is not `toggle_leds` or `leds_blinky` costs 2 of
  6, so three calls of the drivers (`leds_toggle` among them) or up to six of those two are combined
  (`LedWord` = 4 for 2^32 wraps `led_num`); two edges on one vector find its
  pending bit set or clear.

### Fairness

- `CommRing`: weak fairness of the handler (a pending request that is not held
  off is taken), of the console handler's return (it polls a bounded message
  out), and of the main thread (it polls in a loop, and runs when no interrupt
  is pending). The host and the user of the console owe nothing.
- `ByteFifo`: weak fairness of `Deliver`, which is what the above has to yield.
- `TestSession`: weak fairness of the host and of the runner, two programs that
  execute without pausing; neither owes the other anything else.
- `ConsoleLog`: weak fairness of main. Keys need not come.
- `Boot`: weak fairness of the thread and of the handlers, of the PLL and the
  clock switch (which follow once asked, as the reference manual guarantees), and
  of the shift register of each line. Oscillators may fail, bytes need not come.
- `Board`: weak fairness of a call that began and of the interrupts that are
  requested. Whether calls, edges or ticks come is left open.
- The engine, the primitives and `Printf` have safety properties only.

Deadlock is checked where a system cannot stop: the engine and the primitives
always accept a call, the reader polls for ever (`ReadEmpty`, `Poll`), and so do
the loops of `Boot`. `Printf` and `ConsoleLog` end with their programs, and
`Board` with its bound on calls.

### The channel the session relies on

`TestSession` uses a channel that loses nothing. `CommRingPoliteHost` (and the
theorems) show that the ring is one if the host leaves fewer than `BUF_MAX` bytes
unread, is silent while the first read clears the ring and nobody types on the
console. The first is `InFlight`: at most PAYLOAD + 3 = 158 bytes, of 4095. The
second and third are assumptions on the user: the script does nothing to ensure
them.

## 4. Proofs

Eight modules hold proofs checked by TLAPS, with nothing left out. They assume
what the named assumptions of the modules say of the constants (types, ranges
and, for the primitives, the laws of the field), which TLC evaluates on the
instances above.

*CommRing* (`CommRingProofs`), for every ring size, stream length and window:

- `TypeCorrect`: `[]TypeOK`, inductive as it stands.
- `OrderCorrect`: `[]InOrder`. `InOrder` says nothing about the ring, so it is
  strengthened to `OrderInv`: the unread slots carry increasing numbers, above
  those delivered, except for zeros, and below the one in the data register.
  `FreshRing` (until the ring is initialised `start` and `end` are 0) covers the
  initialisation from both sides.
- `ExactCorrect`: `[]Exact`. `Exact` is inductive together with `Unharmed`: without
  a hazard the reader's initialisation is alone and the ring is not full.
- `PoliteIsSafe`: with `Polite` (window below `BUF_MAX`, silent boot, no console)
  no hazard occurs. `PoliteInv` counts: a write fills the ring only if `BUF_MAX`
  bytes are unread, which `Exact` excludes.
- `PoliteIsFifo`: under `Polite` every behaviour is one of `ByteFifo` (its safety
  part).

The index arithmetic is in five lemmas about `Succ` and `Dist`, without modulus.

*TestSession* (`TestSessionProofs`), for every script of well-formed units, every
length of a test, all keys, random values and counter ranges. `ScriptAssumption`
says of the script what the generator ensures: no test asks for the caller's
randomness, and of three units in a row one is a test.

- `InStep`: `[]InSync`. `Stream` is inductive: between units the runner is at the
  start of one, and in a test its place is that of the test in hand plus the bytes
  received. That the runner never overtakes the host is part of it.
- `NeverFarAhead`: `[]InFlight`. `Turns` adds who waits for whom: a test sent completely
  and not read completely is the last one, and the host waits for it; an answer is on
  its way only when everything is read. What is unread is then one test and the
  units before it that are none. The bytes before a place are counted with cardinalities,
  unit by unit (`StartNext`).
- `TestsPass`: `[]AllPass`, if every test of the script comes after some `b` and expects what it should
  be answered in the context that the units from there on build (`IsScriptOf`). The context before the first
  `b` is arbitrary, in the model and in the theorem, so a script that begins with a test is not covered. These contexts are given by the big-step
  definitions `Left` and `Answered`, which know nothing of the phases of `aes()`;
  `Run` ties each phase of a call to them once the session has begun (`Begun`). The hypothesis is not empty:
  `MCTestSession` computes the contexts of the generated script, and TLC
  evaluates that they satisfy it.

*AesEngine* (`AesEngineProofs`), for all keys, blocks, random values and counter
ranges:

- `TypeCorrect`, `StateCorrect`, `MasksCorrect`: from `EngineInv`, that is `Types`,
  `ContextsMatchState` and `CallInv`. `CallInv` carries what the checks established
  to the phases that rely on it: an operation's key and tables are in the contexts
  or still to be put there by this call. Without it a block of
  garbage could not be excluded. `MasksInv` adds that the buffer is fresh in the phases that use it.
- `SuccessCorrect`, `FailureCorrect`: the action properties, from `CallHistory`,
  which relates the contexts in each phase to those when the call began.
- `EngineIsService`: the engine implements `AesService`, action by action.

*Masked primitives* (`MaskedAesProofs`), for every field, every
key, block and table of random bytes, in any order of loads, initialisations and
operations:

- What is assumed, and what TLC evaluates for the literal tables of 256 bytes in
  the runs `AesTables` and `MaskedAes`: bytes are numbers of `Width` bits and `Xor` is
  exclusive or bit by bit (`XorAssumption`), `Xtime` is linear
  (`TableAssumption`), the logarithm tables are inverse to each other and
  successive powers differ by the factor 3 (`LogAssumption`), the tables by 4 and
  8 are `Xtime` repeated (`TimesAssumption`), and the shift tables are those of
  ShiftRows (`ShiftAssumption`).
- The first part derives the field: exclusive or is commutative, associative
  and its own inverse; multiplication through logarithms is linear and commutes
  with `Xtime` (`PowerLinear`, by induction on the exponent, and `FactorTimes`); a quotient by the
  multiplier undoes the product. `NibbleXor`, `PermOnto` and `TurnOnto` show
  that the shuffled orders are permutations, so that every loop reaches every
  byte, whatever the random bytes.
- `Masked(G, a, m, p)`: the block `a` with the masks `m`, under the multiplication `G`,
  stands for `p`. Each subroutine is shown to keep it, with the transformation of
  FIPS-197 on `p`.
- `ContextsCoherent`: `[]IInv`. The tables in a context all come from one multiplier and
  one pair of masks, an operation finds all round keys expanded and the context
  initialised for its direction, and `t_temp` holds the second part of the
  inverse mix between the two subroutines that share it. Without the last an
  inverse mix would add whatever ShiftRows left there.
- `AesCorrect`: `Spec => IsAes`, action by action.
- `ShufflesCorrect`, `SplitCorrect`: `[]ShufflesArePermutations`, `[]InvMixColumnsSplits` on
  the walk of `TableWalk`. The split inverse mix is an identity of sums of bits (`Part2Byte`). That InvMixColumns undoes MixColumns
  (`MixColumnsInverse`, for every block) needs of the field only that doubling is linear: the
  four coefficients of the product of the circulants are sums in which each power of x but 1
  occurs an even number of times (`CoefficientSums`).

*The print ring and the console* (`PrintProofs`, first part), for every ring size,
every text and every program of main:

- The lemmas on `PrintRing`: what the operations on the ring do to its indices and to the
  text it holds (`Holds`). Writing a string is a recursive function on its length;
  that it keeps the ring well formed and adds what fits, up to the capacity, is proved
  by induction. The library's induction theorems take an operator as a
  parameter, which the provers cannot instantiate; `RegisterProofs` begins with a
  form of induction that is about sets (`UpTo`), derived from the least element of a
  set of naturals, and the lemma applies it to the set of lengths for which it holds.
- `TypeCorrect`: no index of the ring or of a loop leaves the array, wherever the
  interrupt comes. The strengthening `IInv` adds what the program points know: a size never exceeds the
  ring, and a stale copy of `end` is still an index.
- `FlushCorrect`: every flush of main ends with the ring as at boot.
- `CleanCorrect`: `[]CleanExact`. The strengthening `Exact` follows the text: what main
  sees of the ring (`Seen`, through its copies of `end` and `full`) holds the text
  that waits, and what was sent is, with what a flush in progress has still to
  send, the text before it. The lemmas on `Sent` (it distributes over the
  parts of a text) are proved by the same induction.

*print and its parser* (`PrintProofs`, second part), for every sequence of calls, each with any
number of directives and any arguments, every ring size and every width of the integer types:

- What is assumed: integers wrap at a power of their own (`WidthAssumption`), the terminator is
  none of the characters the parser looks for (`CharAssumption`), and what callers pass is a
  format (`CallAssumption`): the arguments have the type of their conversion, and a directive is spelled in
  fewer characters than a byte counts. TLC evaluates them on the instance of the run.
- The width of the integer types is even and at most that of long long, so that each number
  converted reads back as its value (`CastIs`); `NumberRendered` shows that what the code prints is the
  standard rendering wherever none of the three departures applies.
- Data: `Numeral`, which `PrintfReference` defines on a number as a whole, is what
  `ring_buffer_write_number` writes digit by digit (by the induction of `UpTo`); a width reads back as it was
  spelled, modulo `UCHAR`; the casts of `ArgValue` are those of the reference (`ArgValueIs`).
- Places: the format is its directives one after the other, so each index is a place in one of them (`AtPiece`), and
  at a '%' the parser finds the conversion it belongs to (`ConversionAt`).
- The inductive invariant is `PInv`. At each turn of `print` some number k of directives has been
  shown (`Reached`): the index is where directive k+1 starts, their arguments and no others are
  taken, none was malformed, and the ring is that of the beginning of the call with their text (`Kept`). In a
  conversion `Parsing` adds how much of it has been read (its width or not, its letters or not), and when the call is
  to return `Returning` says that k was all of them, or that the next is malformed. What the steps of
  a call need of each other is all there: none of the properties below is inductive without it.
- `PrintCorrect` (`[]PrintExact`), `ArgsCorrect` (`[]ArgsInStep`), `InsideCorrect` (`[]StaysInside`), and the action
  properties `FlushesCorrect` (`PrintfFlushes`) and `SprintfCorrect` (`SprintfExact`).

*Registers* (`RegisterProofs`), which hold the lemmas on data that the drivers share:
induction over sets of naturals and the functions it defines; the bits of a number below a power of
two, and the number that a set of bits stands for (`BitsSum`, `SplitBits`, by induction on the
width); a field of a register reads back as it was written (`OwnField`) and leaves a
disjoint one alone (`OtherField`); what `gpio_set_config` does to its pin (`OwnPin`) and to the
others (`OtherPin`).

*Boot* (`BootProofs`), for every pair of lines, any polled lines opened later, any number of
bytes at any moments, and whatever the oscillators do:

- `BootSafe`: `[]NullOnlyIfEarly`. `BInv` states which lines have their interrupt
  enabled at each program point of `main` and stage of `usart_init`, that every
  line with a handler requested has it registered, except the one at
  work, whose requests are masked (console) or counted (protocol).
- `ReadSound`: `[]ReadCounts`, for every width of the length and every length but
  the largest, where the count wraps. `RInv` relates what is left, what was
  stored and what was asked.
- `FastSafe`: `[]FastOnlyWhenReady`. `CInv` says at each point of `SetSysClock` which fields of
  RCC, PWR and flash are already set, which oscillator is on, and what the switch
  and its status may show; that the PLL can be selected only after the wait states
  and the prescalers are there is then a matter of the point. The frequencies are computed from the
  fields (`Frequencies`).
- `BaudSafe`: `[]BaudIffClockTree`. `Order` says that each USART is initialised once, after the
  clocks, so no tree changes under a rate already set; `Rated` that its divider register
  holds what `usart_set_baudrate` computed. The rest is arithmetic: `Fitting` (a quotient of 50
  or more is within 2 %) and `Close`, `Far` (no other clock that boot can end
  with is). The lines of `main` need no hypothesis. A polled line opened later has one,
  `Unambiguous`, as for a divider cut to 16 bits the remainder could by accident
  be the divider of the clock that runs, and rates that leave the divider below 50 have no 2 % to
  spare; TLC evaluates it on the configurations of the run.
- `PinsSafe`: `[]PinsKept`. `PinsInv` lists the pins and who owns them (`Owner`): no two USARTs share
  a pin in the tables, none has that of a LED, and each configuration names all five fields,
  so by `OwnPin` and `OtherPin` a later call changes nothing that an earlier one set,
  although sixteen pins share every register.

*Board* (`BoardProofs`):

- `DelayLasts`: `[]DelayNotShort`, for every word size and delay. `DInv` says what a
  half-finished read knows: joined with the half still to load, it is at most
  the counter and at least the counter when the delay began, unless a carry
  tore it. It rests on lemmas about quotients and remainders (`Unique`, `NoCarry`).
- `RefusedStaysMasked`: `[]OnlyGranted`.
- `LedsFollow`: `[]OneLed`, if no caller configures the pin of a LED (`LedsApart`).
  `LInv` relates the LEDs that are on to those asked for through the writes a
  call has still to do: a pin without one is as asked unless it was given to `leds_toggle`, and the last write to
  each pin makes it so. The lemmas cover the modulus of `led_num` for every value.
- `PinsIndependent`: `Board` implements `PinBank`, for every set of configurations
  whose values fit their fields and every set of pins followed, from `OwnPin`
  and `OtherPin`.

What TLC checks and TLAPS does not: everything with fairness (`IsFifo`'s liveness
part, `Completes`, `PanicStops`, `BootCompletes`, `EdgeServed`, `DelayEnds`, `FullIsFlushed`), as
neither liveness nor `ENABLED` is within reach of the provers; and the values of the tables
(`TablesAreAes`), which are finite data, and with them `KnownAnswer`.

## 5. Not modelled

- The static and QEMU sources of tests, Keil stubs, semihosting: they read a file
  or an array or return 0.
- Startup code, linker scripts, the system control block beyond the vector table,
  the technical report: no behaviour beyond the constants the code above uses.
  Of the register headers, the fields that no code writes.
- `gpio.c`'s interrupt functions of the callers, of which the repository has none.
- Priorities of interrupts: the code sets none.
- Resistance of the primitives to physical measurements: not a property of the
  sequence of values these models keep. What is modelled of the masking is that
  it computes AES, and that key and state masks come from different draws.

## 6. Plan

Done, in the order of importance: the receive path, the engine, the session that
composes them, the masked primitives with the proof that they are AES, printf
and the console, boot, the drivers of the board; every safety property of the runs that does not
depend on literal tables is a theorem. What would add most next is the session as the host of
the ring: the hypotheses of `PoliteIsFifo` derived from `NeverFarAhead`.
