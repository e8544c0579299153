------------------------------ MODULE Monitor ------------------------------
(***************************************************************************)
(* The monitor (main.c with uart.c, leds.c, uflash.c, ws2812b.c): reading  *)
(* a line, parse(), the commands, and the interrupts and resets that come  *)
(* in between.  With it somebody who types, and the one-byte buffer of the *)
(* receiver.  Output is left out but for the echo; so is the content of    *)
(* memory: the array mem is written whole before each of its uses.  A step *)
(* is an access to the UART or a character looked at.                      *)
(***************************************************************************)
EXTENDS Timers, Sequences

CONSTANTS
  Chars,        \* what can be typed, "NUL", "SP", "FF" included
  Texts,        \* bound: what somebody types between two resets
  BUFLEN,       \* 64
  VAL_DIGITS,   \* the hex digits an argument holds, 8
  LEN_MOD,      \* values of len, 2^32
  PAGES,        \* of the user flash, 38
  LEDS,         \* values of the LED register, 2^6
  UART_DATA,    \* the addresses of the receiver's data, 0x8000000c to f
  MAX_PRESSES, MAX_RESETS,   \* bounds
  Cycles, Counters,   \* bounds: what the registers hold at a call
  None          \* no character

VAL_MOD == 16 ^ VAL_DIGITS

ASSUME MonitorAssumption ==
  /\ "NUL" \in Chars /\ None \notin Chars /\ Texts \subseteq Seq(Chars)
  /\ BUFLEN \in Nat \ {0} /\ LEN_MOD \in Nat /\ LEN_MOD > BUFLEN
  /\ VAL_MOD \in Nat \ {0} /\ PAGES \in Nat
  /\ Cycles \subseteq 0..HALF * HALF - 1 /\ Counters \subseteq Nat

(* Laws of arithmetic, but the provers know none of ^.                     *)
ASSUME PowersAssumption ==
  /\ VAL_DIGITS \in Nat /\ 16 ^ 0 = 1
  /\ \A d \in 0..VAL_DIGITS - 1 : 16 ^ (d + 1) = 16 * 16 ^ d

VARIABLES
  board, rx,                                   \* 9K or 20K; the received byte
  leds, sd_spi_use_helper, flash,
  timer_on, irq_pending, irq_mask, counts,     \* of interrupts 0 to 3
  pc,
  buf, i, ch,                                  \* of uart_gets
  pos, len, stage, cmd, val, valid, args,      \* of parse; buf + pos
  page, errors,                                \* of the flash functions
  typing, begun, presses, resets,              \* somebody
  hasty, waiting, owed,   \* history: a character was typed before the last
                          \* was answered; the last is not; those not read
  ahead, eaten,   \* history: a character was typed while uart_gets was not
                  \* there to read it; a command took one
  shown                   \* history: the echo since the line began

somebody == <<typing, begun, hasty, ahead>>
receiver == <<rx, waiting, owed, eaten, somebody>>
devices == <<leds, sd_spi_use_helper, flash>>
interrupts == <<timer_on, irq_pending, irq_mask, counts>>
text == <<buf, i, ch, shown>>
arguments == <<cmd, val, valid, args>>
parsing == <<pos, len, stage, arguments>>
loop == <<page, errors>>
outside == <<board, presses, resets>>
vars == <<board, rx, leds, sd_spi_use_helper, flash, timer_on, irq_pending, irq_mask, counts,
          pc, buf, i, ch, pos, len, stage, cmd, val, valid, args, page, errors,
          typing, begun, presses, resets, hasty, waiting, owed, ahead, eaten, shown, timers>>

Irq == 0..3
Zeros == [k \in 0..BUFLEN - 1 |-> "NUL"]
Cancels == {"^C", "DEL", "BS"}

(* commands[]: the characters, and how many arguments the function takes.  *)
commands ==
  << <<"c","t",0>>, <<"d","c",1>>, <<"e","f",1>>, <<"c","f",0>>, <<"a","f",0>>, <<"w","f",0>>,
     <<"e","t",0>>, <<"r","l",0>>, <<"i","l",0>>, <<"s","l",1>>, <<"m","t",0>>, <<"r","c",0>>,
     <<"r","d",0>>, <<"h","e",0>>, <<"s","x",0>>, <<"s","i",0>>, <<"s","r",1>>, <<"s","w",2>>,
     <<"b","i",0>>, <<"i","i",0>>, <<"m","i",1>>, <<"p","i",0>>, <<"t","i",1>>, <<"s","n",1>>,
     <<"r","b",1>>, <<"r","h",1>>, <<"r","w",1>>, <<"w","b",2>>, <<"w","h",2>>, <<"w","w",2>> >>

(* The rows that are compiled for the board.                               *)
Rows == {k \in DOMAIN commands :
  CASE board = "9K" -> commands[k] # <<"s","n",1>>
    [] OTHER -> commands[k] \notin {<<"e","f",1>>, <<"c","f",0>>, <<"a","f",0>>, <<"w","f",0>>}}

Digits == <<"0","1","2","3","4","5","6","7","8","9","a","b","c","d","e","f">>
Capitals == <<"0","1","2","3","4","5","6","7","8","9","A","B","C","D","E","F">>
DigitsOf(c) == {d \in 0..15 : c \in {Digits[d + 1], Capitals[d + 1]}}
IsHex(c) == DigitsOf(c) # {}
Digit(c) == CHOOSE d \in 0..15 : d \in DigitsOf(c)

-----------------------------------------------------------------------------
(* An interrupt that is let in comes before the next step of the program.  *)
At(label) == pc = label /\ irq_pending \subseteq irq_mask

(* What a call leaves behind is of no use to the next.                     *)
Forget ==
  /\ buf' = Zeros /\ i' = 0 /\ ch' = None /\ shown' = <<>>
  /\ pos' = 0 /\ len' = 0 /\ stage' = 0
  /\ cmd' = <<>> /\ val' = 0 /\ valid' = FALSE /\ args' = <<>>
  /\ page' = 0 /\ errors' = 0

(* Definitions named Mut.. are mutants: a definition with a bug a careless *)
(* edit of the code could make, used only to see a property refuse it.     *)

-----------------------------------------------------------------------------
(* startup.S lets every interrupt in; it does not write the globals.       *)
Startup ==
  /\ At("boot") /\ pc' = "main" /\ irq_mask' = {}
  /\ UNCHANGED <<receiver, devices, timer_on, irq_pending, counts, text, parsing, loop,
                 timers, outside>>

Main ==
  /\ At("main") /\ pc' = "gets"
  /\ leds' = 6 % LEDS /\ counts' = [n \in Irq |-> 0]
  /\ UNCHANGED <<receiver, sd_spi_use_helper, flash, timer_on, irq_pending, irq_mask, text,
                 parsing, loop, timers, outside>>

-----------------------------------------------------------------------------
(* uart_gets.                                                              *)

InLine == UNCHANGED <<devices, interrupts, parsing, loop, timers, outside>>

(* The buffer of the receiver is emptied by a read.                        *)
Receive == rx' = None /\ UNCHANGED <<waiting, eaten, somebody>>

Gives(c) ==
  /\ ch' = c /\ pc' = "got_char"
  /\ owed' = IF owed # <<>> /\ c = owed[1] THEN Tail(owed) ELSE owed

Answered == waiting' = FALSE

MutFull == i >= BUFLEN
Full == i >= BUFLEN - 1

(* The test and the use each read the register.                            *)
MutUartGetchar ==
  /\ At("gets") /\ ~Full /\ rx \notin {None, "FF"}
  /\ Receive /\ Gives("FF")
  /\ UNCHANGED <<buf, i, shown>> /\ InLine

(* An empty buffer reads as 0xff, so a 0xff that is received is not seen.  *)
UartGetchar ==
  /\ At("gets") /\ ~Full /\ rx # None
  /\ Receive
  /\ IF rx = "FF" THEN UNCHANGED <<ch, pc, owed>> ELSE Gives(rx)
  /\ UNCHANGED <<buf, i, shown>> /\ InLine

Echo ==
  /\ At("got_char") /\ ch \notin Cancels \cup {"CR"}
  /\ buf' = [buf EXCEPT ![i] = ch] /\ i' = i + 1 /\ shown' = Append(shown, ch)
  /\ pc' = "gets" /\ ch' = None
  /\ Answered /\ UNCHANGED <<rx, owed, eaten, somebody>> /\ InLine

Cancelled ==
  /\ At("got_char") /\ ch \in Cancels
  /\ pc' = "gets" /\ Forget
  /\ Answered /\ UNCHANGED <<rx, owed, eaten, somebody, devices, interrupts, timers, outside>>

LineEnds ==
  /\ At("got_char") /\ ch = "CR"
  /\ pc' = "got_line" /\ ch' = None
  /\ Answered /\ UNCHANGED <<rx, owed, eaten, somebody, buf, i, shown>> /\ InLine

(* A line that fills the buffer ends without a "CR"; the rest is the next. *)
LineFull ==
  /\ At("gets") /\ Full
  /\ pc' = "got_line"
  /\ UNCHANGED <<receiver, text>> /\ InLine

-----------------------------------------------------------------------------
(* parse().                                                                *)

Line ==
  /\ At("got_line")
  /\ IF i = 0 THEN pc' = "gets" /\ UNCHANGED len ELSE pc' = "eat" /\ len' = i
  /\ UNCHANGED <<receiver, devices, interrupts, text, pos, stage, arguments, loop, timers, outside>>

Parses == UNCHANGED <<receiver, devices, interrupts, text, loop, timers, outside>>

Take(n) == pos' = pos + n /\ len' = (len - n) % LEN_MOD

MutEatSpace ==
  /\ At("eat") /\ buf[pos] = "SP"
  /\ UNCHANGED <<pc, pos, len, stage, arguments>> /\ Parses

(* while (len > 0): len is a pointer there, so only the text ends the loop. *)
EatSpace ==
  /\ At("eat") /\ buf[pos] = "SP"
  /\ Take(1)
  /\ UNCHANGED <<pc, stage, arguments>> /\ Parses

NoSpace ==
  /\ At("eat") /\ buf[pos] # "SP"
  /\ pc' = IF stage = 0 THEN "find" ELSE "hex"
  /\ UNCHANGED <<pos, len, stage, arguments>> /\ Parses

Matching == {k \in Rows : buf[pos] = commands[k][1] /\ buf[pos + 1] = commands[k][2]}

FindCommand ==
  /\ At("find") /\ len >= 2 /\ Matching # {}
  /\ LET k == CHOOSE k \in Matching : \A other \in Matching : k <= other
     IN  /\ cmd' = <<commands[k][1], commands[k][2]>>
         /\ pc' = IF commands[k][3] = 0 THEN "call" ELSE "eat"
         /\ stage' = commands[k][3]
  /\ Take(2)
  /\ UNCHANGED <<val, valid, args>> /\ Parses

NoCommand ==
  /\ At("find") /\ (len >= 2 => Matching = {})
  /\ pc' = "illegal"
  /\ UNCHANGED parsing /\ Parses

(* get_hex: stage counts the arguments that are still to come.             *)
HexDigit ==
  /\ At("hex") /\ len > 0 /\ IsHex(buf[pos])
  /\ val' = (16 * val + Digit(buf[pos])) % VAL_MOD /\ valid' = TRUE
  /\ Take(1)
  /\ UNCHANGED <<pc, stage, cmd, args>> /\ Parses

NumberEnds ==
  /\ val' = 0 /\ valid' = FALSE
  /\ IF valid
     THEN /\ args' = Append(args, val) /\ stage' = stage - 1
          /\ pc' = IF stage = 1 THEN "call" ELSE "eat"
     ELSE pc' = "illegal" /\ UNCHANGED <<args, stage>>
  /\ UNCHANGED cmd /\ Parses

MutHexEnds ==
  /\ At("hex") /\ (len > 0 => ~IsHex(buf[pos]))
  /\ NumberEnds /\ UNCHANGED <<pos, len>>

(* The character that ends a number is taken with it.                      *)
HexEnds ==
  /\ At("hex") /\ (len > 0 => ~IsHex(buf[pos]))
  /\ NumberEnds
  /\ IF len > 0 THEN Take(1) ELSE UNCHANGED <<pos, len>>

Illegal ==
  /\ At("illegal") /\ pc' = "gets" /\ Forget
  /\ UNCHANGED <<receiver, devices, interrupts, timers, outside>>

-----------------------------------------------------------------------------
(* The commands.                                                           *)

Calls(name) == At("call") /\ cmd = name
Ends == pc' = "gets" /\ Forget
Outside == UNCHANGED <<receiver, outside>>

(* Those that look and print.                                              *)
Prints(name) == Calls(name) /\ Ends /\ UNCHANGED <<devices, interrupts, timers>> /\ Outside
EndianTest == Prints(<<"e","t">>)
ReadLed == Prints(<<"r","l">>)
MemoryTest == Prints(<<"m","t">>)
ReadClock == Prints(<<"r","c">>)
Help == Prints(<<"h","e">>)
PrintIrqCounts == Prints(<<"p","i">>)
ChangeWs2812b == Prints(<<"s","n">>)

(* Those that call the driver of the SD card.  It is not here (SdCard):    *)
(* how long a card is busy, and whether it ever becomes ready, is up to    *)
(* the card.                                                               *)
CallsSd(name) ==
  /\ Calls(name) /\ pc' = "sd"
  /\ UNCHANGED <<devices, interrupts, text, parsing, loop, timers>> /\ Outside
SdCardInit == CallsSd(<<"s","i">>)
SdDisplayBlock == CallsSd(<<"s","r">>)
SdSetBlock == CallsSd(<<"s","w">>)

SdReturns ==
  /\ At("sd") /\ Ends
  /\ UNCHANGED <<devices, interrupts, timers>> /\ Outside

SetsLeds(name, value) ==
  /\ Calls(name) /\ Ends /\ leds' = value % LEDS
  /\ UNCHANGED <<sd_spi_use_helper, flash, interrupts, timers>> /\ Outside
IncrLed == SetsLeds(<<"i","l">>, leds + 1)
SetLed == SetsLeds(<<"s","l">>, args[1])

ToggleSpi ==
  /\ Calls(<<"s","x">>) /\ Ends /\ sd_spi_use_helper' = 1 - sd_spi_use_helper
  /\ UNCHANGED <<leds, flash, interrupts, timers>> /\ Outside

(* A fault stops the core if its interrupt is masked.                      *)
Faults(n) ==
  IF n \in irq_mask
  THEN pc' = "trapped" /\ Forget /\ UNCHANGED <<irq_pending, counts, irq_mask, timer_on>>
  ELSE Ends /\ irq_pending' = irq_pending \cup {n} /\ UNCHANGED <<counts, irq_mask, timer_on>>
IllegalInsn == Calls(<<"i","i">>) /\ Faults(1) /\ UNCHANGED <<devices, timers>> /\ Outside
BusErr == Calls(<<"b","i">>) /\ Faults(2) /\ UNCHANGED <<devices, timers>> /\ Outside

(* An access that faults is made all the same.                             *)
Accesses(name, align) ==
  /\ Calls(name)
  /\ IF args[1] % align # 0 THEN Faults(2) ELSE Ends /\ UNCHANGED interrupts
  /\ UNCHANGED <<timers, outside>>

(* Whoever reads the receiver's data empties its buffer.                   *)
TakesByte ==
  /\ rx' = None /\ eaten' = (eaten \/ rx # None)
  /\ UNCHANGED <<waiting, owed, somebody>>
Reads(name, align) ==
  /\ Accesses(name, align) /\ UNCHANGED devices
  /\ IF args[1] \in UART_DATA THEN TakesByte ELSE UNCHANGED receiver
ReadByte == Reads(<<"r","b">>, 1)
ReadHalf == Reads(<<"r","h">>, 2)
ReadWord == Reads(<<"r","w">>, 4)

(* The address is one of memory that nobody uses, of the LED register, or  *)
(* of a page of the flash, which a byte erases and a word programs.        *)
Writes(becomes) ==
  /\ UNCHANGED <<sd_spi_use_helper, receiver>>
  /\ \/ UNCHANGED <<leds, flash>>
     \/ leds' = args[2] % LEDS /\ UNCHANGED flash
     \/ /\ board = "9K" /\ UNCHANGED leds
        /\ \E p \in 0..PAGES - 1, c \in becomes : flash' = [flash EXCEPT ![p] = c]
WriteByte == Accesses(<<"w","b">>, 1) /\ Writes({"erased"})
WriteHalf == Accesses(<<"w","h">>, 2) /\ Writes({})
WriteWord == Accesses(<<"w","w">>, 4) /\ Writes({"other"})

DoMaskirqInstr ==
  /\ Calls(<<"m","i">>) /\ Ends
  /\ irq_mask' = {n \in Irq : (args[1] \div 2 ^ n) % 2 = 1}
  /\ UNCHANGED <<devices, timer_on, irq_pending, counts, timers>> /\ Outside

DoTimerInstr ==
  /\ Calls(<<"t","i">>) /\ Ends /\ timer_on' = (args[1] # 0)
  /\ UNCHANGED <<devices, irq_mask, irq_pending, counts, timers>> /\ Outside

-----------------------------------------------------------------------------
(* The functions that watch a clock are those of Timers.                   *)

Watches(name, label, arg, C, D) ==
  /\ Calls(name) /\ TimersCall(label, arg, C, D) /\ pc' = "timing"
  /\ UNCHANGED <<devices, interrupts, text, parsing, loop>> /\ Outside
ReadClockLl == Watches(<<"r","d">>, "rdtimeh", 0, Cycles, {0})
CycleDelay == Watches(<<"d","c">>, "delay", args[1], {0}, {0})
CountdownTimerTest == Watches(<<"c","t">>, "test", 0, {0}, Counters)

Watching ==
  /\ At("timing") /\ TimersStep
  /\ UNCHANGED <<pc, devices, interrupts, text, parsing, loop>> /\ Outside

Watched ==
  /\ At("timing") /\ TimersReturn /\ Ends
  /\ UNCHANGED <<devices, interrupts>> /\ Outside

-----------------------------------------------------------------------------
(* The user flash, a page at a time: filled with what wf writes, erased,   *)
(* or other.  Programming clears bits only.                                *)

ErasePageUflash ==
  /\ Calls(<<"e","f">>) /\ Ends
  /\ \/ UNCHANGED flash
     \/ \E p \in 0..PAGES - 1 : flash' = [flash EXCEPT ![p] = "erased"]
  /\ UNCHANGED <<leds, sd_spi_use_helper, interrupts, timers>> /\ Outside

Pages(name) == Calls(name) /\ page < PAGES /\ page' = page + 1
EachPage(name, Becomes) ==
  /\ Pages(name)
  /\ \E c \in Becomes : flash' = [flash EXCEPT ![page] = c]
  /\ UNCHANGED <<errors, pc, text, parsing, leds, sd_spi_use_helper, interrupts, timers>>
  /\ Outside
EraseAllFlash == EachPage(<<"a","f">>, {"erased"})
WriteAllFlash ==
  EachPage(<<"w","f">>,
           {"filled"} \cup (IF page < PAGES /\ flash[page] = "other" THEN {"other"} ELSE {}))

CheckAllFlash ==
  /\ Pages(<<"c","f">>)
  /\ errors' = errors + (IF flash[page] = "filled" THEN 0 ELSE 1)
  /\ UNCHANGED <<pc, text, parsing, devices, interrupts, timers>> /\ Outside

AllPages ==
  /\ At("call") /\ cmd \in {<<"c","f">>, <<"a","f">>, <<"w","f">>} /\ page = PAGES
  /\ Ends
  /\ UNCHANGED <<devices, interrupts, timers>> /\ Outside

-----------------------------------------------------------------------------
(* irq(): all that are pending and let in, at once.                        *)
TakeIrq ==
  /\ pc # "trapped" /\ ~(irq_pending \subseteq irq_mask)
  /\ counts' = [n \in Irq |-> counts[n] + (IF n \in irq_pending \ irq_mask THEN 1 ELSE 0)]
  /\ irq_pending' = irq_pending \cap irq_mask
  /\ UNCHANGED <<pc, receiver, devices, timer_on, irq_mask, text, parsing, loop, timers, outside>>

Gets == UartGetchar \/ Echo \/ Cancelled \/ LineEnds \/ LineFull
Parse == Line \/ EatSpace \/ NoSpace \/ FindCommand \/ NoCommand \/ HexDigit \/ HexEnds \/ Illegal
Command ==
  \/ EndianTest \/ ReadLed \/ MemoryTest \/ ReadClock \/ Help \/ PrintIrqCounts
  \/ SdCardInit \/ SdDisplayBlock \/ SdSetBlock \/ ChangeWs2812b \/ IncrLed \/ SetLed
  \/ ToggleSpi \/ IllegalInsn \/ BusErr \/ ReadByte \/ ReadHalf \/ ReadWord
  \/ WriteByte \/ WriteHalf \/ WriteWord \/ DoMaskirqInstr \/ DoTimerInstr
  \/ ReadClockLl \/ CycleDelay \/ CountdownTimerTest \/ Watching \/ Watched
  \/ ErasePageUflash \/ EraseAllFlash \/ WriteAllFlash \/ CheckAllFlash \/ AllPages

Program == Startup \/ Main \/ Gets \/ Parse \/ Command \/ TakeIrq

-----------------------------------------------------------------------------
(* What comes from outside.  Nobody types before the banner.               *)

Still == UNCHANGED <<board, pc, devices, text, parsing, loop, timers>>

BeginText ==
  /\ ~begun /\ begun' = TRUE
  /\ typing' \in Texts
  /\ UNCHANGED <<rx, hasty, ahead, waiting, owed, eaten, interrupts, presses, resets>> /\ Still

(* Bound: once between two resets he does not wait for an echo.  The echo  *)
(* of a return comes before the command: what is typed while it runs is    *)
(* typed ahead, as it is while a line that filled the buffer is parsed.    *)
Type ==
  /\ typing # <<>> /\ pc \notin {"boot", "main"}
  /\ waiting => ~hasty
  /\ rx' = typing[1] /\ typing' = Tail(typing)
  /\ hasty' = (hasty \/ waiting) /\ ahead' = (ahead \/ pc # "gets" \/ Full)
  /\ IF rx' = "FF" THEN UNCHANGED <<waiting, owed>>
     ELSE waiting' = TRUE /\ owed' = IF hasty' THEN <<>> ELSE Append(owed, rx')
  /\ UNCHANGED <<begun, eaten, interrupts, presses, resets>> /\ Still

PressButton ==
  /\ presses < MAX_PRESSES
  /\ presses' = presses + 1 /\ irq_pending' = irq_pending \cup {3}
  /\ UNCHANGED <<receiver, timer_on, irq_mask, counts, resets>> /\ Still

TimerFires ==
  /\ timer_on /\ timer_on' = FALSE /\ irq_pending' = irq_pending \cup {0}
  /\ UNCHANGED <<receiver, irq_mask, counts, presses, resets>> /\ Still

(* The pulse that follows a reset of the 9K (ButtonIrq).                   *)
PendingAtReset == IF board = "9K" THEN {3} ELSE {}

(* The pages that a command may be writing or erasing.                     *)
Touched ==
  CASE pc # "call" -> {}
    [] cmd \in {<<"a","f">>, <<"w","f">>} -> {page} \cap (0..PAGES - 1)
    [] cmd \in {<<"e","f">>, <<"w","b">>, <<"w","w">>} /\ board = "9K" -> 0..PAGES - 1
    [] OTHER -> {}

(* A page that is being written or erased is left in any state; SRAM, and  *)
(* with it the globals, is not reset.                                      *)
Reset ==
  /\ resets < MAX_RESETS /\ resets' = resets + 1
  /\ pc' = "boot" /\ Forget /\ TimersLeft
  /\ leds' = 0
  /\ \/ UNCHANGED flash
     \/ \E p \in Touched : flash' = [flash EXCEPT ![p] = "other"]
  /\ timer_on' = FALSE /\ irq_pending' = PendingAtReset /\ irq_mask' = Irq /\ presses' = 0
  /\ rx' = None /\ typing' = <<>> /\ hasty' = FALSE /\ waiting' = FALSE /\ owed' = <<>>
  /\ begun' = FALSE /\ ahead' = FALSE /\ eaten' = FALSE
  /\ UNCHANGED <<board, sd_spi_use_helper, counts>>

Init ==
  /\ board \in {"9K", "20K"} /\ rx = None
  /\ leds = 0 /\ sd_spi_use_helper = 1
  /\ \E c \in {"erased", "filled", "other"} :
       flash = [p \in 0..PAGES - 1 |-> IF board = "9K" THEN c ELSE "other"]
  /\ timer_on = FALSE /\ irq_pending = PendingAtReset /\ irq_mask = Irq
  /\ counts = [n \in Irq |-> 0]
  /\ pc = "boot" /\ buf = Zeros /\ i = 0 /\ ch = None
  /\ pos = 0 /\ len = 0 /\ stage = 0 /\ cmd = <<>> /\ val = 0 /\ valid = FALSE /\ args = <<>>
  /\ page = 0 /\ errors = 0
  /\ typing = <<>> /\ begun = FALSE /\ presses = 0 /\ resets = 0
  /\ hasty = FALSE /\ waiting = FALSE /\ owed = <<>> /\ shown = <<>>
  /\ ahead = FALSE /\ eaten = FALSE
  /\ TimersIdle

Next == Program \/ SdReturns \/ BeginText \/ Type \/ PressButton \/ TimerFires \/ Reset

Spec == Init /\ [][Next]_vars /\ WF_vars(Program)

-----------------------------------------------------------------------------
(* Properties.                                                             *)

(* No access of uart_gets or parse is outside of buf: what ends            *)
(* eat_spaces, whose test of len is one of the pointer (main.c:565), is    *)
(* the NUL that uart_gets leaves behind the longest line it takes.         *)
InBuffer ==
  /\ pc = "got_char" => i \in 0..BUFLEN - 1
  /\ pc = "eat" => pos \in 0..BUFLEN - 1
  /\ pc = "find" /\ len >= 2 => pos + 1 \in 0..BUFLEN - 1
  /\ pc = "hex" /\ len > 0 => pos \in 0..BUFLEN - 1

(* What a line means, said of the whole of it: spaces, the two characters  *)
(* of a command, and an argument is spaces, hex digits of which the last   *)
(* VAL_DIGITS count, and whatever one character comes next.                *)
From(t, n) == SubSeq(t, n, Len(t))
Behind(t, S) ==
  IF \E n \in 1..Len(t) : t[n] \notin S
  THEN From(t, CHOOSE n \in 1..Len(t) : t[n] \notin S /\ \A before \in 1..n - 1 : t[before] \in S)
  ELSE <<>>
HexChars == {c \in Chars : IsHex(c)}
Value(t, n) ==
  CHOOSE v \in 0..VAL_MOD - 1 : \A d \in 0..VAL_DIGITS - 1 :
    (v \div 16 ^ d) % 16 = IF n > d THEN Digit(t[n - d]) ELSE 0
Argument(text1) ==
  LET t == Behind(text1, {"SP"})
      n == Len(t) - Len(Behind(t, HexChars))
  IN  [found |-> n > 0, value |-> IF n > 0 THEN Value(t, n) ELSE 0, rest |-> From(t, n + 2)]
Meant(t0) ==
  LET t == Behind(t0, {"SP"})
      c == {k \in Rows : Len(t) >= 2 /\ SubSeq(commands[k], 1, 2) = SubSeq(t, 1, 2)}
      arity == commands[CHOOSE k \in c : TRUE][3]
      a1 == Argument(From(t, 3))
      a2 == Argument(a1.rest)
  IN  CASE c = {} -> <<>>
        [] c # {} /\ arity = 0 -> <<SubSeq(t, 1, 2), <<>> >>
        [] c # {} /\ arity = 1 /\ a1.found -> <<SubSeq(t, 1, 2), <<a1.value>> >>
        [] c # {} /\ arity = 2 /\ a1.found /\ a2.found ->
             <<SubSeq(t, 1, 2), <<a1.value, a2.value>> >>
        [] OTHER -> <<>>

(* The function that is called, and its arguments, are those of the line   *)
(* that was echoed; a line is refused only if it means none.               *)
CommandMeant ==
  /\ pc = "call" => Meant(shown) = <<cmd, args>>
  /\ pc = "illegal" => Meant(shown) = <<>>

(* Whoever waits for the echo of a character before he types the next      *)
(* loses none to uart_gets: those not read are in the receiver, in order.  *)
(* And he loses none at all if he also waits for the command that a line   *)
(* called: a command takes a character, by rb, rh or rw of the UART's own  *)
(* data register, only if it was typed ahead.                              *)
NothingTypedLost ==
  /\ ~hasty /\ ~eaten => owed = (IF rx \in {None, "FF"} THEN <<>> ELSE <<rx>>)
  /\ eaten => ahead

(* What the monitor prints is so: see Timers; without errors the user      *)
(* flash is what wf writes; and interrupts of the button that pi prints    *)
(* were presses since the start, although a reset keeps SRAM and, on the   *)
(* 9K, pends one (ButtonIrq).                                              *)
ReportTrue ==
  /\ TimersTrue
  /\ pc = "call" /\ cmd = <<"c","f">> /\ page = PAGES =>
       (errors = 0 <=> \A p \in 0..PAGES - 1 : flash[p] = "filled")
  /\ pc \notin {"boot", "main"} => counts[3] <= presses

(* Every line is answered, and every character taken, unless a fault whose *)
(* interrupt was masked has stopped the core, or the SD card keeps one of  *)
(* the loops of sd_init, sd_read_block or sd_write_block that have no      *)
(* bound (sd_card_cgpt.c:145, 194, 263) waiting for ever.                  *)
LineAnswered ==
  \/ <>[](pc = "sd")
  \/ /\ pc # "gets" ~> pc \in {"gets", "trapped"}
     /\ rx # None ~> (rx = None \/ pc = "trapped")

=============================================================================
