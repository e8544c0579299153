# A verification model of the PicoRV32 SoC for the Tang Nano 9K and 20K

TLA+ modules, TLC configurations and TLAPS proofs for the Verilog under `src/` and the C
under `c_code/` of this repository: a RISC-V core (`picorv32.v`), a bus with some small
devices (`top.v` and the files it instantiates), and bare-metal software. All paths
below are those of the repository.

- [The system](#the-system) - its parts, their state, how they interact, what is hard
- [The modules](#the-modules) - which module models what, and how
- [The runs](#the-runs) - what TLC checks, on which instances
- [Fairness](#fairness)
- [The proofs](#the-proofs)
- [Where comments and code differ](#where-comments-and-code-differ)
- [What is not modelled](#what-is-not-modelled)
- [Plan](#plan)

To check: `tlc -config MCSocBusMemory.cfg MCSocBus`, and so on for each run of
`PROJECT.json`; to prove: `tlapm SocBus_proofs.tla`, and so on
for each `.._proofs` module and `SocBusRefinement`.

## The system

### Parts, state, operations

| part | files | state | operations |
|---|---|---|---|
| core | `src/picorv32.v` | pc and next pc, decoder stages, `mem_do_*` flags, `mem_state`, main state, latched results, interrupt registers, timer | execute an instruction; fetch ahead; enter, leave, mask and wait for interrupts; trap |
| bus and memory map | `src/top.v` | `default_ready` | select a slave, OR the ready wires, multiplex the data |
| SRAM | `src/sram.v`, `src/sram8bit.v` | four byte lanes, `ready`, registered data | read a word, write lanes |
| LEDs | `src/leds.v` | six bits | read, write |
| reset | `src/reset.v` | `reset_count` | hold reset for 63 clocks after the button |
| button | `src/edge_finder.v` | three samples, `pulse` | turn a press into one pulse on `irq[3]` |
| UART | `src/uart_wrap.v`, `src/simpleuart.v` | divider, sender (bits left, dummy owed), receiver, one-byte buffer | set the divider, send, receive |
| timer | `src/countdown_timer.v` | 32-bit counter, `delay_state` | read, write bytes, count down |
| user flash (9K) | `src/uflash_controller.v` | sequencer state, six control lines, `cycle_count` | read a word, program a word, erase a page |
| LED string (20K) | `src/ws2812b_tgt.v`, `src/ws2812b.v` | colour shift register, waveform counters | send a colour |
| SD SPI helper | `src/sd_spi_helper.v` | shift registers, bit and clock counters, the pins | send a byte, set pins, read back |
| startup and interrupt entry | `c_code/startup.S`, `c_code/custom_ops.S` | saved registers | boot, save and restore, `retirq` |
| SD protocol | `c_code/sd_card_cgpt.c` | `sd_spi_use_helper`; the card's | init, read and write blocks, over the helper or bit by bit |
| monitor and library | `c_code/main.c`, `uart.c`, `countdown_timer.c`, `readtime.h`, ... | the line buffer, interrupt counts | read a line, parse it, call one of thirty commands; `irq()` |
| build tools | `c_code/conv_to_init.c`, `freq_search.c`, `Makefile` | host files and their time stamps | compile, link, make the memory lanes, find PLL settings |

### Interaction

One clock. The core is the only master. It raises `mem_valid` with an address, data and
byte strobes, keeps them until it sees `mem_ready`, and lets `mem_valid` fall for at
least one clock. Each slave has a select wire decoded from the address and answers on
its own ready wire; `mem_ready` is the OR of *all* ready wires, selected or not, and a
multiplexer that follows the *selects* chooses the data. So the two must agree, and no
slave may keep its ready up into the next request. Slaves answer in the clock of the
request (LEDs, SPI helper), in the next (SRAM, default device), in the third (timer), or
when they are done (UART with a character on its way, LED string, flash: up to 100 ms
for an erase). `reset_n` resets the devices asynchronously and the core and the UART
synchronously, and can fall in any clock, in the middle of any access. Interrupts come
from the button (`irq[3]`), the core's timer, illegal instructions and misaligned
accesses.

Software has one thread and one interrupt handler. Someone at a terminal types, whether
the monitor listens or not; the UART keeps one character for it. The monitor calls the
library, which polls devices; the SD card is reached through three registers and answers
at its own pace. A reset restarts the software but leaves SRAM, the flash and the card
as they are. Hardware and software are built from the same Makefile variables:
`conv_to_init` writes the Verilog parameters and the program into `src/`.

### What is hard

`PROJECT.json` lists the hazards with their lines. In short:

- *stale state*: registered ready wires that outlive their request; a prefetched word
  behind a taken branch; `mem_rdata_q` overwritten by a load while the decoder still
  wants it; a wait counter the flash sequencer does not clear before a program;
- *reset in the middle*: half a store, half an erase, a pulse that is held up;
- *interrupts* between any two instructions, arriving in the clock in which others are
  cleared, taken out of a wait, entered while a result is still to be written;
- *exactly once*: a character loaded, a byte taken from the receiver, a colour sent,
  however long the core waits;
- *never hanging*: every address is answered by someone, every wait ends;
- *numeric edges*: waits that must fit counters at every clock rate;
- *two reads of a running clock*, as in `readtime_ll`, and a delay that polls one;
- *a line and its end*: a buffer that fills up, characters typed ahead, arguments that
  are missing, a test of a pointer where its target was meant;
- *a card in any state*: it kept power through the reset, may be in the middle of a
  block, busy, refuse, or be pulled out;
- *one of several files*: a build that fails, or is interrupted, between its outputs.

What makes each part correct: the core executes the program that is in memory in program
order, whatever was prefetched or interrupted; a bus access is atomic; an answer belongs
to its request; side effects happen once; the flash sees its set-up and hold times; no
press is lost and none is invented. A line is carried out as it was echoed, or refused;
what the monitor reports is so; a call to the card that succeeds has moved the whole
block; a build that succeeds fits together.

## The modules

A step of every hardware module is one rising clock edge, on which all always blocks act
at once from the values before the edge; wires are operators over registers. A register
with an asynchronous reset holds its reset value after an edge if `reset_n` is low on
either side of the edge. Registers without an initial value power up as zero, as they do
in these FPGAs, except in SRAM, whose `ready` and contents are arbitrary. A device's
word addresses stand for byte addresses, since the core drives aligned addresses only.

| module | models | kind |
|---|---|---|
| `SocMap` | the select wires of `top.v` as sets of word addresses | operators |
| `UFlash` | `uflash_controller.v` with a bus that asks anything at any time | component |
| `SocBus` | `top.v`, `reset.v`, SRAM, LEDs and the bus side of all devices; instantiates `UFlash` | composition |
| `AtomicBus` | what software relies on: a request is performed at one moment, or not at all | abstract specification |
| `PicoCore` | the control of `picorv32.v` as `top.v` configures it | component |
| `ButtonIrq` | `edge_finder.v`, bit 3 of `irq_pending` and `irq_mask`, the code that unmasks it | composition |
| `SdSpiHelper` | `sd_spi_helper.v` | component |
| `SdMedium` | the card in the slot, as `sd_card_cgpt.c` takes it to be | environment (external) |
| `SdCard` | `sd_card_cgpt.c` over the helper, with the card and the button | composition |
| `Timers` | `readtime_ll`, `cdt_delay`, `countdown_timer_test` over running counters | component |
| `Monitor` | `main.c`, `uart.c`, the start of `startup.S`, somebody who types; extends `Timers` | composition |
| `FreqTables` | the tables of `freq_search.c`, the PLL, what Verilog computes from the clock | operators |
| `FreqSearch` | `freq_search()` | component |
| `Build` | `Makefile`, `conv_to_init.c`; extends `FreqSearch` | composition |
| `MCUFlash`, `MCSocBus`, `MCPicoCore`, `MCSdCard`, `MCMonitor`, `MCBuild` | instances for TLC | |
| `UFlash_proofs`, `SocBus_proofs`, `PicoCore_proofs`, `ButtonIrq_proofs`, `SdCard_proofs`, `Monitor_proofs`, `Build_proofs` | theorems about the module of that name | proofs |
| `SocBusRefinement` | `SocBus` implements `AtomicBus` | proofs |

`SocMap`, `SocBus`. `Next` is the conjunction of one `..Edge` action per always block.
`CoreEdge` is the core's side of the bus: ask, wait, take, idle. Its protocol is not
taken on trust, `PicoCore` checks it (`BusProtocol`). Of the serial devices `SocBus` has
what the bus sees: `send_bitcnt` and `send_dummy` decide when a character waits,
`ws_left` and `sd_left` are the clocks a colour or a byte still takes. `mem_rdata` of a
slave whose data another module is about is the model value `Other`. `effects` counts,
for the request that is up, the side effects it has had. `BOARD` chooses the slaves, as
the `` `ifdef``s do.

`UFlash`. One action per state of the sequencer, named as the state; `lines` is the set
of control lines that are high; `CLKS` gives the waits `E2_CLKS` .. `W7_CLKS`, which the
code computes from `CLK_FREQ`. `since` is a history: for how long each line has been as
it is, so that set-up and hold times are measured on the lines and not on the counter
that is meant to ensure them.

`AtomicBus`. Requests to cells (SRAM words, the LED register) in three phases: idle,
asked, done. A reset performs or drops what was asked, as a whole, and clears volatile
cells. `SocBus` refines it with `phase` read off `mem_valid` and `sram_ready`.

`PicoCore`. Three machines share the `mem_do_*` flags, each an action and a step their
conjunction: `MemEdge` (the memory interface and its prefetch), `DecoderEdge` (the two
decoder stages) and `CoreEdge` (one action per branch of the main state machine, with
what follows the case statement in `Flags`, `Goto` and `Pend`). An instruction is a
record: the word it came from, its kind, its target. Memory content is arbitrary and may
differ on every fetch, so every program, self-modifying ones too, is covered. Branch
outcomes, `jalr` and `retirq` targets, shift amounts and whether an address is
misaligned are chosen freely. Program counters count halfwords, so that a misaligned one
exists. `due` is a history: the address at which the last instruction said the program
goes on, updated when an instruction takes effect. Not reproduced is the waveform of a
signal while nobody looks at it (`reg_out` where the code assigns `'bx`).

`ButtonIrq`. The level of the button is free in every clock (bounces; and a metastable
sample falls one way or the other). `sig_in` is inverted where the code inverts it:
after the first sample, on the 9K. Interrupt entry is one step here; `PicoCore` has the
three clocks it takes. `owed` is a history, presses less interrupts: a press pending
when a second one arrives merges with it, as in the code.

`SdSpiHelper`, `SdMedium`, `SdCard`. A byte is a name and a bit on the wire is a pair,
the byte and its place, so bits that are out of step never make a byte again; all bits
of FF and of 00 are alike, as on a wire. The helper moves an edge at a time. `SdMedium`
is the card: it counts the clocks it sees while selected, takes a byte in and puts one
out with each eight of them, and chooses freely whether to refuse, to fail, how long to
let pass before it answers (`NCR`, `NAC`), how long it is busy and when it is pulled
out. It is not code of this repository; `CardAssumption` says what the driver relies on:
a card answers within the bytes `sd_cmd` and `sd_read_block` wait for, and wakes up with
the clocks `sd_init` sends. In `SdCard` the transfers of a function until it next looks
at a reply are one row of bytes, `todo`; every `if` and every loop that looks is an
action. A reset comes at any edge, in a call or between two, to processor and helper but
not to the card, and
`sd_spi_use_helper` keeps its value. Of the four bytes of an address the last stands for
all (`NumberByte`, any one for each address). Delays are left out: the model lets any
time pass anywhere.

`Timers`, `Monitor`. A step is an access to the UART or to a counter, a character looked
at, or a page of the flash. The line buffer `buf`, `pos` (`parse`'s pointer, as an index
into it) and `len` are those of the code, `len` with its wrap-around. `commands` is the
table `commands[]` with the arity of each function, `Rows` the rows of it. `irq()` is
one step, and an interrupt that is let in comes before the program's next step; a fault
whose interrupt is masked traps the core for good. The terminal types from a set of
`Texts`; the one character the UART keeps is `rx`, and a character FF is one the code
cannot tell from "empty". `shown` and `owed` are histories: the echo of the line, and
the characters typed but not read. Memory contents are left out (`mem` is written whole
before each of its uses). The addresses `wb`, `wh` and `ww` write to are memory nobody uses, the LEDs,
or a page of the flash; those `rb`, `rh` and `rw` read are any, and a read of the UART's
data register (`UART_DATA`) takes the character that is in it. A page is erased, filled
with what `wf` writes, or other, and a reset that comes while a command erases, programs
or writes it leaves it in any state (`Touched`). `"SP"` stands for the space. What a call
to the SD card does is `SdCard`'s: here the program is at `"sd"` until the call returns
(`SdReturns`), and nothing says that it ever does. `ahead` and `eaten` are histories too:
a character was typed while `uart_gets` was not waiting, and a command took one.

`FreqTables` holds one of the three tables in full, and the rules by which the other two
follow from it, so that a wrong row would break a rule. `FreqSearch` is the loop. In
`Build` a file is `None`, `Cut` short, or the record of what it was made from; `fresh`
is what make knows from time stamps; every `fopen` may fail; the user edits the Makefile
or a source, cleans, makes for either board, or interrupts. `tidy` is a history: make
was used as its comments say, which is to clean after a change of board or of a
variable.

Definitions named `Mut..` are *mutants*: variants with a bug a careless edit could make.
No specification uses them; each shows that some property notices the bug.

## The runs

| run | instance | what it shows |
|---|---|---|
| `flash_sequences` | waits of 2..5 clocks, three lanes, a counter of 3 bits | `LineTiming`: no line changes sooner than its wait after the change it follows, also after a reset at any clock and after any other sequence; `CountFresh`: waits start at zero, although `WRITE1` does not clear the counter; `LinesCompatible`: erase and program never together, high voltage only over a selected row; `RequestUnderLines`: address and data stand still under active lines |
| `bus_memory` | last SRAM word, the word after SRAM, the LEDs; two lanes, two byte values | `SramAnswer`, and `AtomicBusSpec`: the bus refines `AtomicBus`, through resets |
| `bus_serial` | 20K: both timer-like and serial devices, an unmapped address | `AnswerIsOwn`: only the addressed slave answers, for this request; `EffectOnce`; `EveryRequestAnswered` |
| `bus_flash` | 9K: ends of the flash window, their neighbours, the UART data register | `Settled` (the inductive invariant), `EffectOnce`, `EveryRequestAnswered` with the sequencer inside |
| `core_program` | four halfwords of program: jumps, branches, loads, stores, shifts, faults; button input in any clock; button and fault interrupts maskable in any combination | `InOrder`: what executes was fetched from the address the program reached, interrupts and returns included; `DecodedWhole`: both decoder stages mean the same instruction; `Asserts`: the assertions written in `picorv32.v`; `BusProtocol`; `InterruptsBetween`: when an interrupt is entered the previous result is written, q0 is the right return address, q1 names an interrupt; `FaultFirst`: a fault's interrupt precedes the next instruction; `NoInterruptLost`: a pending interrupt goes only when the handler gets it, and one that arrives stays, also in the clock in which others are cleared or a fault is made pending |
| `core_goes_on` | loads, `waitirq`, `retirq`, `maskirq`, `timer`; the button and the timer | `NoInterruptLost`, with the timer; `GoesOn`: an instruction begins again and again unless the core waits and no interrupt is pending, has trapped, or is in reset, so a wait that an interrupt does not end is refused; `InterruptTaken`: what is let in is taken, also by a core that sits in `waitirq` |
| `button_20k` | the 20K | `NoGhost`: no interrupt without a press; `NoneLost`, `PressTaken`: no press is lost |
| `button_9k_ghost` | the 9K | violates `NoGhost`, see below |
| `sd_card` | two blocks of two bytes, bytes of two bits; cards addressed by block, by byte, and one too old | `BlockWhole`: a call that returns 0 has moved its block, whole, and no other, and one that fails has written nothing; `InStep`: driver and card agree where a byte begins, in both modes and after a reset anywhere; `InitTruthful`: `sd_init` succeeds exactly with the cards it supports, whatever state a reset left them in; `CallReturns` |
| `monitor` | both boards; a buffer of 8, arguments of 2 digits; 66 texts: every command, every way to get an argument wrong, every end of a line, several lines in a row | `InBuffer`: no access of `uart_gets` or `parse` outside `buf`; `CommandMeant`: what is called is what the echoed line means, said of the whole line, and a line is refused only if it means nothing; `NothingTypedLost`: `uart_gets` loses no character of somebody who waits for the echo, and a command takes one only if it was typed ahead of the command's end; `ReportTrue`: the time read is one the counter had, a delay is long enough, `cf` reports no error only of a flash that `wf` filled, button counts are presses; `LineAnswered`: unless a masked fault stops the core, or the SD card keeps an unbounded loop of its driver waiting |
| `build` | the real tables; targets below, between and above the rows that are scanned; two feasible clocks and two that are not, memories of 16 and 32 bytes, programs that fit one or both | `Nearest`: the search finds the nearest row of its table; `BuildCoherent`: after a success the Verilog parameters, the board and the lanes belong to the sources and to each other, and whatever fails, complete lanes never stand beside parameters of another run |
| `search_last_rows` | the real tables; 594 and 621 MHz | violates `Nearest`, see below |

*Bounds.* `RESET_MAX` (63 in the code) is 2, `FRAME_BITS` and `DUMMY_BITS` (10, 15) 2
and 3, `WS_CLKS` and `SD_CLKS` 3 and 4: a wait of two clocks already lets every other
block act before, in and after it, and no code path depends on the number. `CLKS` in
`flash_sequences` are pairwise different enough that swapping two is noticed. Two lanes
(three in `UFlash`) show a lane that is written when it should not be; the code treats
all but lane 0 alike. One SRAM word suffices for `AtomicBus`, whose cells do not
interact, while the unmapped neighbour checks the window's end. `PC_MOD = 4`: one
aligned word besides the interrupt vector, so that a jump can go to itself, to the next
word, around the end of memory, into the handler, and to a misaligned address. `SHIFTS =
1` and `TIMER_MAX = 1`: the final step and one before it. `MAX_OWED = 4` in `ButtonIrq`
is never reached (`TypeOK` says so, and is proved).

In `sd_card` bytes of two bits (eight in the code) still have a first, a last and a
place in between clocks, and blocks of two bytes hold what looks like a token, an idle
or a busy line. `R1_LIMIT`, `TOKEN_LIMIT` and `INIT_BYTES` (8, 100000, 10) are 2: the
card answers with the last byte that is waited for, or not at all. In `monitor` `HALF`
is 11 and `BYTE` 3, with at most `STEP_MAX = 2` clocks from one access to the next:
enough for the high half to move on between any two of the three reads, and too few for
it to move twice, as in reality (`TimersAssumption`). A buffer of 8 (64) is filled by
the longest texts; one press, one reset, and one occasion to type without waiting
between two resets (`MAX_PRESSES`, `MAX_RESETS`, `hasty`). Nobody types before the
banner. In
`build` make runs twice (`MAX_MAKES`): whatever the first leaves behind, complete,
failed, interrupted, cleaned or not, the second starts from, for the same board or the
other, with the same values or new ones.

Every run terminates with the full state space. Deadlock is checked in all but
`monitor`, where somebody may stop typing and a masked fault stops the core.

What the runs showed beyond "it holds":

- After `retirq` one instruction always executes before the next interrupt
  (`irq_delay`). If `retirq` returned to a misaligned address that instruction executes
  from the word around it before the bus-error interrupt is taken. `FaultFirst` names
  the exception.
- `waitirq` does not end that delay: a program that after `retirq` executed one
  `waitirq` after the other, for ever, would never be interrupted although each returns at once. Any
  other instruction ends it. `InterruptTaken` names the exception, which counts the
  instructions that begin: a core that sits in one `waitirq` is no exception.
- `eat_spaces` tests `len`, a pointer, where `*len` was meant (`main.c` 565). It is
  harmless because behind the longest line there is still a NUL in `buf`, which is not a
  space; `InBuffer` rests on that alone.
- `get_hex` takes the one character that follows the number, whatever it is, so `wb 1z2`
  is carried out, and no space may stand in front of a comma. A line that ends because
  the buffer is full ends without its return, and the rest is the next command.
- On the 9K the interrupt of the next section is counted, but before `main` sets the
  counts to zero (`main.c` 667), so `pi` never shows it.
- Somebody who types ahead loses characters but for the last, and FF is never seen. The
  echo of a return comes before the command, so who waits for it and types on can lose a
  character to a command that reads it: `rb`, `rh` or `rw` of 0x8000000c, the UART's data
  register. That takes waiting for the prompt to avoid. A misaligned `rh` or `rw` of it
  takes the character too, for the access is made although it faults.
- `countdown_timer_test` reports an error of a healthy timer if the lower three bytes
  come to zero exactly between its write and its read (`main.c` 152); `TimersTrue` names
  the case.
- `sd_init` succeeds with a card that takes byte addresses, since it never asks (CMD58),
  and block numbers are then sent as they are. A card pulled out in the middle of a
  block it sends goes unnoticed, since the CRC is discarded; one pulled out in the loop
  over ACMD41 hangs `sd_init` (`CallReturns` names it), as does a card that never becomes ready, there or in the wait
  for a busy one, which the fairness of that run excludes and `Monitor` does not. An error token is noticed only
  by running out of bytes. The errors -1 to -4 of `sd_init` leave the card selected,
  which does the next call no harm (`InStep`).
- What is computed from `CLK_FREQ` fits for every clock in the table up to 108 MHz: the
  counts of the LED waveform stay positive and within 15 bits, the erase time within 24,
  and the UART, whose bit lasts two clocks more than its divider, stays in step with
  115200 baud. The pause of the LED string no longer fits from 111 MHz, the erase time
  from 140.4 MHz. (`MCBuild` has these as assumptions, which TLC evaluates.)
- `ready` of SRAM and of the default device is high one clock too long after every
  request. It is harmless only because the core lets `mem_valid` fall.

## Fairness

The clock runs: weak fairness of the step itself. Nowhere is it assumed that a reset
comes, so the fair actions are those that do not pull the line low (`Clocked`,
`Unreset`). Beyond that:

- `SocBus`: while the UART has bits left its divider runs out, again and again. This is
  so for every divider except 2^32-1, with which `send_divcnt > cfg_divider` never
  holds.
- `PicoCore`: the bus answers every request (`EveryRequestAnswered` of `SocBus`).
- `ButtonIrq`: the core takes an interrupt that is let in (`InterruptTaken` of
  `PicoCore`) and the handler returns (`irq()` in `main.c` has no loop).
- `SdCard`: software runs (`Software`), the helper is clocked (`Edge`), and a card comes
  to the end of a write and of its initialisation; that it answers a command is part of
  `SdMedium`. That anyone calls, or that a card stays in, is not assumed.
- `Monitor`: the program runs (`GoesOn` of `PicoCore`). Nothing of whoever types or
  presses, and nothing of the SD card: a call to its driver may never return.
- `Build` needs none.

## The proofs

TLC checks the instances above; TLAPS proves the following for all values of the
constants: every size of SRAM, any set of addresses, any waits that fit the counter, any
number of lanes, any width of a byte, a counter or an address, every program and every
text that can be typed.

| theorem | states |
|---|---|
| `UFlash_proofs!TypeCorrect` | the counter never overflows, lines and states stay in range |
| `UFlash_proofs!CountFreshAlways` | every wait starts from zero |
| `UFlash_proofs!LinesCompatibleAlways` | never erase and program together, high voltage only over a selected row |
| `UFlash_proofs!RequestUnderLinesAlways` | the request stands still under a line that is high |
| `UFlash_proofs!LineTimingAlways` | an action property: no line changes sooner than its wait after the change it follows |
| `SocBus_proofs!MapExclusive` | no address belongs to two slaves |
| `SocBus_proofs!TypeCorrect` | all registers stay in range |
| `SocBus_proofs!SettledAlways` | `Settled` is an invariant |
| `SocBus_proofs!AnswerIsOwnAlways` | the core is only answered by the slave it addressed, for this request |
| `SocBus_proofs!SramAnswerAlways` | a read takes what the word holds, a write is in it when the core goes on |
| `SocBus_proofs!EffectOnceAlways` | a request that is answered had its side effect once, however long it waited |
| `SocBusRefinement!ImplementsAtomicBus` | the bus refines `AtomicBus`: `Spec => AtomicBusSpec` |
| `PicoCore_proofs!TypeCorrect` | all registers keep their type |
| `PicoCore_proofs!AssertsAlways` | the assertions written in `picorv32.v` |
| `PicoCore_proofs!InOrderAlways` | what executes is from the address the program reached, whatever was prefetched or interrupted |
| `PicoCore_proofs!DecodedWholeAlways` | both decoder stages mean the same instruction |
| `PicoCore_proofs!InterruptsBetweenAlways` | an interrupt finds the result written, q0 and q1 right |
| `PicoCore_proofs!FaultFirstAlways` | a fault's interrupt precedes the next instruction |
| `PicoCore_proofs!NoInterruptLostAlways` | a pending bit goes only when the handler gets it, and one that arrives stays, whatever is cleared in that clock |
| `PicoCore_proofs!BusProtocolAlways` | a request stays until it is answered, and then the bus is let go |
| `ButtonIrq_proofs!TypeCorrect` | never more than three presses are on their way |
| `ButtonIrq_proofs!NothingLost` | on either board what is owed an interrupt is pending or on its way |
| `ButtonIrq_proofs!NoGhostOn20K` | on the 20K no interrupt without a press |
| `SdCard_proofs!InStepAlways` | driver and card agree where a byte begins, helper or pins, and a call that succeeds lets go of the card |
| `SdCard_proofs!InitTruthfulAlways` | `sd_init` succeeds exactly with the cards it supports, which are then ready |
| `SdCard_proofs!BlockWholeAlways` | a call that returns 0 has moved its block, whole, and no other; nothing else writes |
| `Monitor_proofs!InBufferAlways` | no access outside the line buffer, for every length of it and whatever is typed |
| `Monitor_proofs!NothingTypedLostAlways` | who waits for the echo loses no character to `uart_gets`, and a command takes none that was not typed ahead of its end, whatever he types and wherever the UART's register is |
| `Monitor_proofs!ReportTrueAlways` | what is printed of the clock, a delay, the timer test, the button and the flash is so |
| `Monitor_proofs!CommandMeantAlways` | what is called, and with what arguments, is what the echoed line means, and a line is refused only if it means nothing |
| `Build_proofs!NearestAlways` | the search finds the nearest row of its whole table, for every table and every number of rows, if all it is asked for is in reach of the rows it scans (`AllInReach`, the theorem's hypothesis) |
| `Build_proofs!BuildCoherentAlways` | files side by side are of one run, and a make that succeeds leaves hardware and software that agree |

### Assumptions

All are named in the modules, and TLC evaluates each on the instances above.

- `SocBus` (`SramAssumption`, `BusAssumption`): SRAM is not empty and ends where the
  flash window begins (the Makefile's sizes do); lane 0 exists and is not the only one.
- `UFlash` (`ClksAssumption`, `LaneAssumption`), `SocBus` (`FlashAssumption`): every
  wait of the flash is at least one clock and fits the counter, less than 2^24.
- `ButtonIrq` (`ButtonAssumption`): the bound on the history is greater than three. That
  it is never reached is then proved, so it hides nothing.
- `PicoCore` (`CoreAssumption`): addresses count halfwords and wrap at an even number,
  the interrupt vector is one of them, and none of the wires from outside is one of the
  core's own interrupts 0 to 2, as `top.v` ties them.
- `SdCard` (`BitsAssumption`, `MediumAssumption`, `CardAssumption`): a byte has a bit;
  blocks, on the card and in the caller's buffer, are of `BLOCK` bytes, none of which is
  a name the model has for something else (bits out of place, being busy); different
  addresses are different arguments; the card answers within the bytes the driver waits
  for and wakes with the clocks it sends.
- `Monitor` (`MonitorAssumption`, `PowersAssumption`, `TimersAssumption`): `len` counts further than the
  buffer is long, texts are of characters, NUL is one; a counter's high half moves on
  once at most while `readtime_ll` runs, that is, half of the counter lasts longer than
  five accesses, and a byte of the countdown timer longer than one. `PowersAssumption` is
  no assumption about the program but two laws of arithmetic, 16^0 = 1 and
  16^(d+1) = 16 * 16^d, which the provers do not know of `^`.
- `Build` (`TableAssumption`, `BuildAssumption`, `FileAssumption`, `RowAssumption`): the
  every table has the rows that are scanned, frequencies are integers, and to every
  `CLK_FREQ`, an `int` of Hz, one is nearer than the 99999 MHz the search starts from;
  `None` and `Cut` are no file's content.

### The arguments

*The bus.* `AnswerIsOwn` is not inductive: that only the right slave is ready now says
nothing of who will be. `Settled` adds where every slave stands while a request is up:
whoever has left its first state did so for the request that is up, and SRAM's `ready`
vouches for the data beside it. `IInv == TypeOK /\ Settled` is inductive, one lemma per
slave (`VouchStep`, `CdtStep`, `UfStep`, ...), each resting on `SelHolds` (a request that
is not answered does not move) and `OnlyOwnReady` (at most one slave is ready); the
latter uses `MapExclusive`. `AnswerIsOwn` and `SramAnswer` follow from `IInv` in any
state. For `EffectOnce`, `EffectsCounted` ties the history to a register: every
effect is in the clock of its answer but for the flash's, which is when the sequencer
leaves IDLE, so what has been counted of a request that waits is whether it has left.

*The refinement.* The mapping reads `phase` off `mem_valid` and `sram_ready`. Each step
of the bus is shown to be one of `AtomicBus` or none. A store to SRAM is written in the
clock after the request and, since the strobes stay up, in the clock of the answer once
more: that changes nothing, for `SramVouches` says that the word already holds what is
written, and that the data beside `ready` is the word's. A reset maps to the reset of
`AtomicBus`, which performs or drops what was asked.

*The flash.* `LineStates` says for every state of the sequencer which lines are high,
`Asked` that the request of the sequence is still up, and `Waited` that in a timed state
the line whose change began the wait has been where it is for at least `cycle_count`
clocks. Their conjunction `LInv` is inductive beside `TypeOK` and `CountFresh`; a line
changes only when its wait has been counted, hence `LineTiming`.

*The core.* The three machines of `picorv32.v` communicate through `mem_do_*`, so the
invariant says for each state of the main state machine which flags can be up
(`FetchInv`, `LdRs1Inv`, `ExecInv`, `ShiftInv`, `AccessInv`), where the memory interface
then is (`MemInv`), and which address each fetch is of: that of `due`, but behind a
branch that is taken, whose fetch is dropped. `InOrder`, `DecodedWhole` and `Asserts`
follow in any state; `InterruptsBetween` from what `FetchInv` says of `irq_state`;
`FaultFirst` needs `FaultInv` besides: a pending fault is on its way to the handler, or
waits for the one instruction behind a `retirq` to a misaligned address, or that
instruction has masked it and the core is about to trap. `NoInterruptLost` and
`BusProtocol` are action properties from the same invariant, one lemma per branch of the
main state machine.

*The button.* A press is carried through five places, each one bit wide: two edges
between samples that are never both there, the pulse and the pending bit. `Carried`
counts those that are occupied. `owed` is never more than `Carried` (nothing is lost)
and, on the 20K, is equal to it (no ghost). On the 9K the samples of a reset look like a
press, the equality fails, and `NoGhost` with it; only its half is then proved.

*The SD card.* `Shifting(n)` says that n bits of the byte under way have been clocked by
the helper: where `bit_cnt` and both shift registers are; `Hears(n)` the same of the
card. They hold with the same n, and n is zero whenever no byte is moving, in both modes
and after a switch, a reset, or a card pulled out in mid-byte. Hence no byte is ever made
of bits of two (`"??"`), and a write to the helper always finds it idle.

With that every step of a transfer, in either mode, is one of two things (`Stays`,
`Exchanges`): it changes nothing of the conversation, or driver and card exchange a
byte (`TransferMoves`). `BInv` is about the conversation. `left` are the bytes the card
has not yet seen, `came` the replies, and `Comes(k)` is the k-th byte the card is going to
put out; for each place of the driver it says how far the card has got and what is
coming. While a command is sent the card has as much of it as has left (`Sending`); then
an answer comes within the bytes `sd_cmd` still waits for (`Awaited`), which suits the
command (`Answered`) and is followed by what the command asks for (`Follows`): silence,
the echo of CMD8, or at last a token and a block, unless the card fails to read it.
`AtRead` carries the block from there into the buffer, `AtWrite` the buffer into the
card. `Before` is why the answers of `sd_init` are as they are: a command that resets
finds a card that has woken (`Wakes` counts its clocks), CMD41 follows a CMD55. `Dull`
and `Quiet` say what a reset in mid-call can leave behind: a card that is still busy
with a block, which the next call waits for, and nothing else.

*The line.* `InBuffer` says nothing of the characters. The invariant of
`Monitor_proofs` does: behind the text there are NULs up to the end of the buffer
(`BufOK`), and while a line is parsed `pos + len = i`, what has been taken and what is
left make up the text (`ParseOK`). So a space is always in the text (`SpaceInText`),
which is why `eat_spaces` stops although its test never fails, and `len` never wraps
(`Taken`). Every command is `Harmless`: it forgets the line or leaves it alone. For what
is typed, `EchoOK` adds that the monitor holds a character only while the echo is
outstanding, so one who waits finds `rx` empty, and `HeardOK` that what was not typed
ahead has `uart_gets` there to take it, so no command finds it (`Listening`).

*What a line means.* `Meant` speaks of the whole line, `parse` sees a character at a time
and keeps none. `MeantInv` ties the two: `buf` is what was echoed (`EchoInv`), what
`parse` has not looked at (`Left`) is the rest of the text behind the spaces, behind the
name, or behind the n spaces or digits it has taken of the argument it is at (`NameInv`,
`ArgumentInv`), the row it found has the name that is meant and as many arguments as are
done and to come (`Known`), and `val` is the number of the n digits (`Holds`). The steps
rest on three groups of lemmas. Of texts: a run of characters that is counted to its end
is the run `Behind` skips (`BehindIs`), and what is left of what is left is left of the
whole (`FromFrom`). Of the table: no two rows have a name in common (`RowsDiffer`), so the
first that matches is the one that is meant. Of numbers: `Value` is defined by its digits,
`get_hex` shifts and cuts off; `OneDigitMore` says that shifting a number of n digits by
one gives the number of n + 1, also when the first digits fall off the end, and
`OneValue` that no two numbers have all digits in common. Both need induction over the
digits, which is done with sets: one that has 0 and, with each number, the next has them
all (`Upward`, from the least number that is missing).

*What is reported.* `TimeInv` says that the high half `readtime_ll` read was that of a
moment during the call, one access back at most when the low half is there too; if the
high half has not moved on since, both are of the moment of the low one. `DelayInv` says
that what is left of the counter and what has gone by make up the delay; `TestInv` where
the counter is after each write of `countdown_timer_test`, unless its lower bytes were
about to reach zero (`Spared`, the exception `TimersTrue` names). `ButtonInv` bounds the
counts by the presses, with one to come for a pending interrupt; `PagesInv` says that
`cf` has no errors so far if and only if the pages it looked at are filled; `ArgsInv`
that `dc` is called with the one number that was typed.

*The build.* `Nearest` is made inductive by what `min` and `index_min` mean after
`i - 1` rows: nothing nearer than the start was seen (`Nothing`), or `min` is the
distance of row `index_min` and the least so far (`Something`). So the search returns the
nearest of the rows it scanned, if one is nearer than what `min` starts from. `InReach`
is what makes that row the nearest of all: a row that is scanned is near enough, and no
row that is not scanned is nearer; `Asked` that every target is one the hypothesis
`AllInReach` speaks of. `BuildCoherent` needs a
`Chain`: what make holds for fresh was made from what is fresh; `RunOf` and `FilesOf`: the
files `conv_to_init` has written so far are of the run it is in, and the lanes, whose
predecessors are gone before anything is written, are complete last; and `TidyInv`: if
make was used as the Makefile says, fresh objects are of the variables as they are.

### Only model-checked

- Liveness: `EveryRequestAnswered`, `GoesOn`, `InterruptTaken`, `PressTaken`,
  `CallReturns` and `LineAnswered`. TLAPS proves no `ENABLED`, hence nothing under
  fairness.
- The refutations of `NoGhost` on the 9K and of `Nearest` out of reach, which are
  counterexamples.

No module uses a RECURSIVE operator.

## Where comments and code differ

`button_9k_ghost`. A comment in `src/edge_finder.v` (lines 23-25) says that resetting
the samples to 0, which means *pressed* on the 9K, is all right "because many clocks
occur prior to interrupts being enabled". But `top.v` (line 67) makes all interrupts
latched: the pulse this causes in the third clock after every reset stays in
`irq_pending` while masked, and when `startup.S` (line 149) unmasks interrupts the
handler is entered and `irq3_count` is incremented, without a press. `main` then zeroes
the count.

`pulse` is missing from the reset branch (line 22). A reset that comes in the one clock
in which `pulse` is up holds it up until the reset ends, not "for one clock" (line 4),
and the core starts with that interrupt pending. The model has this, and counts it as
the press it came from.

`search_last_rows`. `freq_search.h` (lines 8-10) promises "rPLL parameters that yield a
target output frequence (as close as possible)", and that is what `Nearest` says. The loop
of `freq_search()` (line 989) runs over the length of the shortest table, whichever it
searches, so the stand-alone search for one board never sees the last two rows: asked for
594 MHz on the 9K it returns 567, asked for 621 on the 20K it returns 594.

The same line of `freq_search.h` fails in a second way that no run asks for: `min` starts
from 99999 MHz (line 986) and `index_min` from nothing (985), so that of a target further
than that from every row nothing is found, and the function returns the row of an index
that was never set. `InReach` leaves both out. Neither can happen to `conv_to_init`, which
searches the shortest table for a clock that fits an `int`, in Hz.

One more was met in the build tools; no property is about it. The Makefile (lines 44-46)
says that the build will fail if a frequency is not feasible: the first `make` does, but
the image it converted is by then newer than what it depends on, so a second `make`
reports success without lanes. `TidyBuild` asks for `make clean` after a failure.
`sd_card_cgpt.h` (line 8) says that functions "return 0 on success and a negative value
on failure"; see above for when `sd_init` does not return.

## What is not modelled

Values: what an instruction computes, the register file, the contents of memory, and the
data path of the serial devices but for the SPI helper. Parts of `picorv32.v` that
`top.v` does not enable (compressed instructions, multiplier, co-processor and AXI or
Wishbone wrappers, trace, RVFI). The vendor's generated wrappers and the encrypted flash
controller, with `src/uflash.v` that wraps it. Pins, pin constraints, clock generation.

Of the software: what is printed, but for the echo and what `ReportTrue` is about;
`uart_get_hex`, which nothing calls; the memory tests' patterns; a disk that is full,
for no write or close of `conv_to_init` is checked. The saving and restoring of
registers in `startup.S`, so that an interrupt is one step of `Monitor`.

Partly modelled: the UART and the LED string controller have in `SocBus` what the bus
sees of them, and in `Monitor` the one-byte buffer of the receiver, but not their bit
timing; the countdown timer has its ready states in `SocBus` and its count in `Timers`,
where the three writes that software makes are, not each of its byte writes.

## Plan

Done: everything above.

Next, in this order:

1. `SimpleUart` and `UartLink`: the sender's and receiver's dividers and bit counters,
   two of them joined by a line; a divider written while a character or a dummy is on
   its way, and the divider 2^32-1. Abstract specification: a channel of bytes.
2. `CountdownTimer`: every byte write in the clocks of an access, under `Timers`.
3. `Ws2812b`: the waveform, bit by bit.
4. The save and restore of registers in `startup.S` around `PicoCore`'s interrupts.
