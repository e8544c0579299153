--------------------------- MODULE Monitor_proofs ---------------------------
(***************************************************************************)
(* No access of the monitor is outside of its line buffer, for every       *)
(* length of it and whatever is typed; what it prints of a timer, of the   *)
(* button and of the flash is so, for every size of their registers; and   *)
(* what it calls is what the line means, whatever the line.                *)
(***************************************************************************)
EXTENDS Monitor, WellFoundedInduction, TLAPS

Parsing == {"eat", "find", "hex"}
InText == {"got_char"} \cup Parsing

(* Behind the text there are NULs; what is left of the line ends with it.  *)
BufOK == /\ buf \in [0..BUFLEN - 1 -> Chars] /\ i \in 0..BUFLEN - 1
         /\ \A k \in i..BUFLEN - 1 : buf[k] = "NUL"
CharOK == /\ rx \in Chars \cup {None} /\ typing \in Seq(Chars)
          /\ pc = "got_char" => ch \in Chars /\ i < BUFLEN - 1
ParseOK == pc \in Parsing => pos \in Nat /\ len \in Nat /\ pos + len = i
StartOK == pc \in {"boot", "main", "gets", "got_char", "got_line"} => pos = 0
IInv == BufOK /\ CharOK /\ ParseOK /\ StartOK

(* A step that is not about the text: it drops it or leaves it alone.      *)
Harmless == /\ pc' \notin InText /\ (UNCHANGED receiver \/ TakesByte)
            /\ \/ Forget
               \/ UNCHANGED <<text, parsing>> /\ (StartOK => StartOK')

-----------------------------------------------------------------------------
(* A buffer of NULs is a line of no characters.                            *)
LEMMA ZerosOK == Zeros \in [0..BUFLEN - 1 -> Chars] /\ 0 \in 0..BUFLEN - 1
                 /\ \A k \in 0..BUFLEN - 1 : Zeros[k] = "NUL"
  BY MonitorAssumption DEF Zeros

(* Taking characters that are there does not wrap len.                     *)
LEMMA Taken ==
  ASSUME BufOK, pos \in Nat, len \in Nat, pos + len = i, NEW n \in Nat, n <= len, Take(n)
  PROVE  pos' \in Nat /\ len' \in Nat /\ pos' + len' = i
<1>1. len - n \in Nat /\ len - n < LEN_MOD
  BY MonitorAssumption DEF BufOK
<1>2. (len - n) % LEN_MOD = len - n
  BY <1>1, MonitorAssumption
<1> QED
  BY <1>1, <1>2 DEF Take

(* A space is in the text, as a NUL is not one.                            *)
LEMMA SpaceInText == ASSUME IInv, pc = "eat", buf[pos] = "SP" PROVE len >= 1
<1>1. pos \in Nat /\ len \in Nat /\ pos + len = i /\ i \in 0..BUFLEN - 1
  BY DEF IInv, ParseOK, Parsing, BufOK
<1>2. ASSUME len = 0 PROVE FALSE
  <2>1. pos = i /\ i \in i..BUFLEN - 1
    BY <1>1, <1>2, MonitorAssumption
  <2>2. buf[pos] = "NUL"
    BY <2>1 DEF IInv, BufOK
  <2> QED
    BY <2>2
<1> QED
  BY <1>1, <1>2

(* A harmless step keeps the invariant.                                    *)
LEMMA HarmlessStep == ASSUME IInv, Harmless PROVE IInv'
<1>1. CharOK'
  BY DEF IInv, CharOK, Harmless, InText, receiver, TakesByte, somebody
<1>2. ParseOK'
  BY DEF Harmless, InText, Parsing, ParseOK
<1>3. CASE Forget
  <2>1. BufOK'
    BY <1>3, ZerosOK DEF Forget, BufOK
  <2>2. StartOK'
    BY <1>3 DEF Forget, StartOK
  <2> QED
    BY <2>1, <2>2, <1>1, <1>2 DEF IInv
<1>4. CASE UNCHANGED <<text, parsing>> /\ (StartOK => StartOK')
  <2>1. BufOK'
    BY <1>4 DEF IInv, BufOK, text
  <2> QED
    BY <2>1, <1>1, <1>2, <1>4 DEF IInv
<1> QED
  BY <1>3, <1>4 DEF Harmless

(* Every command is harmless.                                              *)
LEMMA CommandHarmless == ASSUME Command \/ SdReturns PROVE Harmless
<1>1. ASSUME Ends, UNCHANGED receiver \/ TakesByte PROVE Harmless
  <2>1. pc' \notin InText
    BY <1>1 DEF Ends, InText, Parsing
  <2> QED
    BY <1>1, <2>1 DEF Harmless, Ends
<1>2. ASSUME NEW n, Faults(n), UNCHANGED receiver \/ TakesByte PROVE Harmless
  <2>1. pc' \notin InText
    BY <1>2 DEF Faults, Ends, InText, Parsing
  <2>2. Forget
    BY <1>2 DEF Faults, Ends
  <2> QED
    BY <1>2, <2>1, <2>2 DEF Harmless
<1>3. ASSUME pc \in {"call", "timing"}, pc' \in {pc, "timing", "sd"},
             UNCHANGED <<text, parsing>>, Outside
      PROVE  Harmless
  <2>1. pc' \notin InText /\ StartOK'
    BY <1>3 DEF InText, Parsing, StartOK
  <2>2. UNCHANGED receiver
    BY <1>3 DEF Outside
  <2> QED
    BY <1>3, <2>1, <2>2 DEF Harmless
<1>4. ASSUME NEW name, NEW align, Accesses(name, align), UNCHANGED receiver \/ TakesByte
      PROVE  Harmless
  BY <1>4, <1>1, <1>2 DEF Accesses
<1>5. ASSUME NEW name, NEW label, NEW arg, NEW C, NEW D, Watches(name, label, arg, C, D)
      PROVE  Harmless
  BY <1>5, <1>3 DEF Watches, Calls, At
<1>6. ASSUME NEW name, NEW becomes, EachPage(name, becomes) PROVE Harmless
  BY <1>6, <1>3 DEF EachPage, Pages, Calls, At
<1>7. ASSUME EndianTest \/ ReadLed \/ MemoryTest \/ ReadClock \/ Help \/ PrintIrqCounts
             \/ ChangeWs2812b
      PROVE  Harmless
  BY <1>7, <1>1 DEF Prints, EndianTest, ReadLed, MemoryTest, ReadClock, Help, PrintIrqCounts,
                    ChangeWs2812b, Outside
<1>8. ASSUME IncrLed \/ SetLed PROVE Harmless
  BY <1>8, <1>1 DEF SetsLeds, IncrLed, SetLed, Outside
<1>9. ASSUME ToggleSpi \/ DoMaskirqInstr \/ DoTimerInstr \/ ErasePageUflash PROVE Harmless
  BY <1>9, <1>1 DEF ToggleSpi, DoMaskirqInstr, DoTimerInstr, ErasePageUflash, Outside
<1>10. ASSUME IllegalInsn \/ BusErr PROVE Harmless
  BY <1>10, <1>2 DEF IllegalInsn, BusErr, Outside
<1>11. ASSUME ReadByte \/ ReadHalf \/ ReadWord \/ WriteByte \/ WriteHalf \/ WriteWord
       PROVE  Harmless
  <2>1. CASE ReadByte \/ ReadHalf \/ ReadWord
    BY <2>1, <1>4 DEF ReadByte, ReadHalf, ReadWord, Reads
  <2>2. CASE WriteByte \/ WriteHalf \/ WriteWord
    BY <2>2, <1>4 DEF WriteByte, WriteHalf, WriteWord, Writes
  <2> QED
    BY <1>11, <2>1, <2>2
<1>12. ASSUME ReadClockLl \/ CycleDelay \/ CountdownTimerTest PROVE Harmless
  BY <1>12, <1>5 DEF ReadClockLl, CycleDelay, CountdownTimerTest
<1>13. ASSUME Watching \/ Watched PROVE Harmless
  BY <1>13, <1>1, <1>3 DEF Watching, Watched, At, Outside
<1>14. ASSUME EraseAllFlash \/ WriteAllFlash PROVE Harmless
  BY <1>14, <1>6 DEF EraseAllFlash, WriteAllFlash
<1>15. ASSUME CheckAllFlash \/ AllPages PROVE Harmless
  BY <1>15, <1>1, <1>3 DEF CheckAllFlash, AllPages, Pages, Calls, At, Outside
<1>16. ASSUME SdCardInit \/ SdDisplayBlock \/ SdSetBlock \/ SdReturns PROVE Harmless
  BY <1>16, <1>1, <1>3
     DEF CallsSd, SdCardInit, SdDisplayBlock, SdSetBlock, SdReturns, Calls, At, Outside
<1> QED
  BY <1>7, <1>8, <1>9, <1>10, <1>11, <1>12, <1>13, <1>14, <1>15, <1>16 DEF Command

(* A command, or one of its steps, is under way and not uart_gets.         *)
LEMMA CommandBegins == ASSUME Command \/ SdReturns PROVE pc \in {"call", "timing", "sd"}
<1>1. CASE SdReturns \/ Watching \/ Watched \/ AllPages
  BY <1>1 DEF SdReturns, Watching, Watched, AllPages, At
<1>2. ASSUME NEW name, Calls(name) PROVE pc = "call"
  BY <1>2 DEF Calls, At
<1> QED
  BY <1>1, <1>2
     DEF Command, EndianTest, ReadLed, MemoryTest, ReadClock, Help, PrintIrqCounts, SdCardInit,
         SdDisplayBlock, SdSetBlock, CallsSd, ChangeWs2812b, Prints, IncrLed, SetLed, SetsLeds,
         ToggleSpi, IllegalInsn, BusErr, ReadByte, ReadHalf, ReadWord, Reads, WriteByte,
         WriteHalf, WriteWord, Accesses, DoMaskirqInstr, DoTimerInstr, ReadClockLl, CycleDelay,
         CountdownTimerTest, Watches, ErasePageUflash, EraseAllFlash, WriteAllFlash, EachPage,
         CheckAllFlash, Pages

-----------------------------------------------------------------------------
(* uart_gets keeps the invariant.                                          *)
LEMMA GetsStep == ASSUME IInv, Gets PROVE IInv'
<1> USE DEF IInv
<1>1. CASE UartGetchar
  <2>1. BufOK'
    BY <1>1 DEF UartGetchar, BufOK
  <2>2. CharOK'
    BY <1>1, MonitorAssumption DEF UartGetchar, Receive, Gives, At, Full, CharOK, BufOK, somebody
  <2>3. ParseOK' /\ StartOK'
    BY <1>1 DEF UartGetchar, Gives, At, ParseOK, Parsing, StartOK, InLine, parsing
  <2> QED
    BY <2>1, <2>2, <2>3
<1>2. CASE Echo
  <2>1. ch \in Chars /\ i < BUFLEN - 1 /\ i \in 0..BUFLEN - 1
    BY <1>2 DEF Echo, At, CharOK, BufOK
  <2>2. i' \in 0..BUFLEN - 1 /\ i' = i + 1
    BY <2>1, <1>2, MonitorAssumption DEF Echo
  <2>3. buf' \in [0..BUFLEN - 1 -> Chars] /\ buf' = [buf EXCEPT ![i] = ch]
    BY <2>1, <1>2 DEF Echo, BufOK
  <2>4. ASSUME NEW k \in i'..BUFLEN - 1 PROVE buf'[k] = "NUL"
    <3>1. k \in i..BUFLEN - 1 /\ k # i /\ k \in 0..BUFLEN - 1
      BY <2>1, <2>2, MonitorAssumption
    <3>2. buf'[k] = buf[k]
      BY <3>1, <2>3 DEF BufOK
    <3> QED
      BY <3>1, <3>2 DEF BufOK
  <2>5. CharOK'
    BY <1>2 DEF Echo, CharOK, somebody
  <2>6. ParseOK' /\ StartOK'
    BY <1>2 DEF Echo, At, ParseOK, Parsing, StartOK, InLine, parsing
  <2> QED
    BY <2>2, <2>3, <2>4, <2>5, <2>6 DEF BufOK
<1>3. CASE Cancelled
  <2>1. BufOK' /\ StartOK'
    BY <1>3, ZerosOK DEF Cancelled, Forget, BufOK, StartOK
  <2>2. CharOK' /\ ParseOK'
    BY <1>3 DEF Cancelled, CharOK, ParseOK, Parsing, somebody
  <2> QED
    BY <2>1, <2>2
<1>4. CASE LineEnds \/ LineFull
  <2>1. BufOK'
    BY <1>4 DEF LineEnds, LineFull, BufOK, text
  <2>2. CharOK'
    BY <1>4 DEF LineEnds, LineFull, CharOK, receiver, somebody
  <2>3. ParseOK' /\ StartOK'
    BY <1>4 DEF LineEnds, LineFull, At, ParseOK, Parsing, StartOK, InLine, parsing
  <2> QED
    BY <2>1, <2>2, <2>3
<1> QED
  BY <1>1, <1>2, <1>3, <1>4 DEF Gets

(* parse() keeps the invariant.                                            *)
LEMMA ParseStep == ASSUME IInv, Parse PROVE IInv'
<1>1. CASE Illegal
  <2>1. Harmless
    BY <1>1 DEF Illegal, Harmless, InText, Parsing
  <2> QED
    BY <2>1, HarmlessStep
<1>2. ASSUME UNCHANGED <<text, receiver>>, pc' # "got_char", ParseOK', StartOK' PROVE IInv'
  BY <1>2 DEF IInv, BufOK, CharOK, text, receiver, somebody
<1>3. CASE Line
  <2>1. UNCHANGED <<text, receiver>> /\ pc' # "got_char"
    BY <1>3 DEF Line, At
  <2>2. i' = i /\ pos' = 0 /\ pos = 0 /\ i \in Nat
    BY <1>3 DEF Line, At, IInv, StartOK, BufOK, text
  <2>3. ParseOK' /\ StartOK'
    BY <1>3, <2>2 DEF Line, At, ParseOK, Parsing, StartOK
  <2> QED
    BY <2>1, <2>3, <1>2
<1>4. ASSUME pc \in Parsing, Parses, NEW n \in Nat, n <= len, Take(n),
             pc' \in Parsing \cup {"call", "illegal"}
      PROVE  IInv'
  <2>1. pos' \in Nat /\ len' \in Nat /\ pos' + len' = i
    BY <1>4, Taken DEF IInv, ParseOK
  <2>2. i' = i /\ UNCHANGED <<text, receiver>>
    BY <1>4 DEF Parses, text
  <2>3. ParseOK' /\ StartOK' /\ pc' # "got_char"
    BY <1>4, <2>1, <2>2 DEF ParseOK, StartOK, Parsing
  <2> QED
    BY <2>2, <2>3, <1>2
<1>5. ASSUME pc \in Parsing, Parses, UNCHANGED <<pos, len>>,
             pc' \in Parsing \cup {"call", "illegal"}
      PROVE  IInv'
  <2>1. i' = i /\ UNCHANGED <<text, receiver>>
    BY <1>5 DEF Parses, text
  <2>2. ParseOK' /\ StartOK' /\ pc' # "got_char"
    BY <1>5, <2>1 DEF IInv, ParseOK, StartOK, Parsing
  <2> QED
    BY <2>1, <2>2, <1>2
<1>6. pc \in Parsing => len \in Nat
  BY DEF IInv, ParseOK
<1>7. CASE EatSpace
  <2>1. pc = "eat" /\ buf[pos] = "SP" /\ Take(1) /\ pc' = pc /\ Parses
    BY <1>7 DEF EatSpace, At
  <2>2. 1 <= len
    BY <2>1, <1>6, SpaceInText DEF Parsing
  <2> QED
    BY <2>1, <2>2, <1>4 DEF Parsing
<1>8. CASE NoSpace
  BY <1>8, <1>5 DEF NoSpace, At, Parsing
<1>9. CASE FindCommand
  <2>1. pc = "find" /\ len >= 2 /\ Take(2) /\ Parses /\ pc' \in {"call", "eat"}
    BY <1>9 DEF FindCommand, At
  <2> QED
    BY <2>1, <1>6, <1>4 DEF Parsing
<1>10. CASE NoCommand
  BY <1>10, <1>5 DEF NoCommand, At, Parsing, parsing
<1>11. CASE HexDigit
  <2>1. pc = "hex" /\ len > 0 /\ Take(1) /\ Parses /\ pc' = pc
    BY <1>11 DEF HexDigit, At
  <2> QED
    BY <2>1, <1>6, <1>4 DEF Parsing
<1>12. CASE HexEnds
  <2>1. pc = "hex" /\ Parses /\ pc' \in {"call", "eat", "illegal"}
    BY <1>12 DEF HexEnds, NumberEnds, At
  <2>2. (len > 0 /\ Take(1)) \/ UNCHANGED <<pos, len>>
    BY <1>12 DEF HexEnds
  <2> QED
    BY <2>1, <2>2, <1>4, <1>5, <1>6 DEF Parsing
<1> QED
  BY <1>1, <1>3, <1>7, <1>8, <1>9, <1>10, <1>11, <1>12 DEF Parse

-----------------------------------------------------------------------------
(* What comes from outside keeps the invariant.                            *)
LEMMA OutsideStep ==
  ASSUME IInv, BeginText \/ Type \/ PressButton \/ TimerFires \/ Reset PROVE IInv'
<1>1. ASSUME Still, rx' \in Chars \cup {None}, typing' \in Seq(Chars) PROVE IInv'
  BY <1>1 DEF Still, text, parsing, IInv, BufOK, CharOK, ParseOK, StartOK
<1>2. rx \in Chars \cup {None} /\ typing \in Seq(Chars)
  BY DEF IInv, CharOK
<1>3. CASE BeginText
  BY <1>1, <1>2, <1>3, MonitorAssumption DEF BeginText
<1>4. CASE Type
  <2>1. rx' \in Chars /\ typing' \in Seq(Chars)
    BY <1>2, <1>4 DEF Type
  <2> QED
    BY <2>1, <1>1, <1>4 DEF Type
<1>5. CASE PressButton \/ TimerFires
  BY <1>1, <1>2, <1>5 DEF PressButton, TimerFires, receiver, somebody
<1>6. CASE Reset
  <2>1. BufOK' /\ StartOK'
    BY <1>6, ZerosOK DEF Reset, Forget, BufOK, StartOK
  <2>2. CharOK' /\ ParseOK'
    BY <1>6 DEF Reset, CharOK, ParseOK, Parsing
  <2> QED
    BY <2>1, <2>2 DEF IInv
<1> QED
  BY <1>3, <1>4, <1>5, <1>6

LEMMA ProgramStep == ASSUME IInv, Program PROVE IInv'
<1>1. CASE Startup \/ Main
  <2>1. Harmless
    BY <1>1 DEF Startup, Main, At, Harmless, InText, Parsing, StartOK, parsing
  <2> QED
    BY <2>1, HarmlessStep
<1>2. CASE TakeIrq
  <2>1. UNCHANGED <<pc, rx, typing, ch, buf, i, pos, len>>
    BY <1>2 DEF TakeIrq, receiver, somebody, text, parsing
  <2> QED
    BY <2>1 DEF IInv, BufOK, CharOK, ParseOK, StartOK
<1> QED
  BY <1>1, <1>2, GetsStep, ParseStep, CommandHarmless, HarmlessStep DEF Program

LEMMA InitOK == Init => IInv
<1> SUFFICES ASSUME Init PROVE IInv
  OBVIOUS
<1>1. BufOK
  BY ZerosOK DEF Init, BufOK
<1>2. CharOK /\ ParseOK /\ StartOK
  BY DEF Init, CharOK, ParseOK, Parsing, StartOK
<1> QED
  BY <1>1, <1>2 DEF IInv

(* What is accessed is in the text, or the NUL behind it.                  *)
LEMMA InvInBuffer == IInv => InBuffer
<1> SUFFICES ASSUME IInv PROVE InBuffer
  OBVIOUS
<1>1. i \in 0..BUFLEN - 1
  BY DEF IInv, BufOK
<1>2. pc \in {"eat", "find", "hex"} => pos \in Nat /\ len \in Nat /\ pos + len = i
  BY DEF IInv, ParseOK, Parsing
<1> QED
  BY <1>1, <1>2, MonitorAssumption DEF InBuffer

LEMMA Invariant == Spec => []IInv
<1>1. IInv /\ [Next]_vars => IInv'
  <2> SUFFICES ASSUME IInv, [Next]_vars PROVE IInv'
    OBVIOUS
  <2>1. CASE UNCHANGED vars
    BY <2>1 DEF vars, IInv, BufOK, CharOK, ParseOK, StartOK
  <2> QED
    BY <2>1, ProgramStep, OutsideStep, CommandHarmless, HarmlessStep DEF Next
<1> QED
  BY <1>1, InitOK, PTL DEF Spec

(* uart_gets and parse never access anything outside of buf (main.c:659),  *)
(* for every BUFLEN of at least 1 and everything that can be typed.        *)
THEOREM InBufferAlways == Spec => []InBuffer
  BY Invariant, InvInBuffer, PTL

-----------------------------------------------------------------------------
(* While he has waited for every echo, a character that is in the receiver *)
(* or in uart_gets is one that is not answered yet.                        *)
EchoOK == ~hasty => /\ rx \notin {None, "FF"} => waiting /\ pc # "got_char"
                    /\ pc = "got_char" => waiting
(* And while nothing was typed ahead, the receiver holds a character only  *)
(* where uart_gets looks for one.                                          *)
Listening == pc = "gets" /\ ~Full
HeardOK == ~ahead => ~eaten /\ (rx # None => Listening)
TypedInv == NothingTypedLost /\ EchoOK /\ HeardOK

LEMMA QuietKeepsTyped ==
  ASSUME TypedInv, UNCHANGED receiver \/ TakesByte, pc' # "got_char", ~Listening
  PROVE  TypedInv'
<1> USE DEF TypedInv, NothingTypedLost, EchoOK, HeardOK
<1>1. CASE UNCHANGED receiver
  BY <1>1 DEF receiver, somebody
<1>2. CASE TakesByte
  <2>1. rx' = None /\ UNCHANGED <<waiting, owed, hasty, ahead>>
    BY <1>2 DEF TakesByte, somebody
  <2>2. CASE rx = None
    BY <2>1, <2>2, <1>2 DEF TakesByte
  <2>3. CASE rx # None
    BY <2>1, <2>3, <1>2 DEF TakesByte
  <2> QED
    BY <2>2, <2>3
<1> QED
  BY <1>1, <1>2

(* The characters that are answered are read in the order they are typed.  *)
LEMMA GetsTyped == ASSUME TypedInv, Gets PROVE TypedInv'
<1> USE DEF TypedInv, NothingTypedLost, EchoOK, HeardOK
<1>1. CASE UartGetchar
  <2>1. /\ pc = "gets" /\ rx # None /\ rx' = None
        /\ UNCHANGED <<hasty, waiting, ahead, eaten>>
    BY <1>1 DEF UartGetchar, Receive, At, somebody
  <2>2. CASE rx = "FF"
    BY <2>1, <2>2, <1>1 DEF UartGetchar
  <2>3. CASE rx # "FF"
    <3>1. ~hasty => waiting
      BY <2>1, <2>3
    <3>2. ~hasty /\ ~eaten => owed' = <<>>
      <4>1. ~hasty /\ ~eaten => owed = <<rx>>
        BY <2>1, <2>3
      <4> QED
        BY <4>1, <2>3, <1>1 DEF UartGetchar, Gives
    <3> QED
      BY <3>1, <3>2, <2>1
  <2> QED
    BY <2>2, <2>3
<1>2. CASE Echo \/ Cancelled \/ LineEnds
  <2>1. /\ pc = "got_char" /\ pc' # "got_char"
        /\ UNCHANGED <<rx, hasty, owed, ahead, eaten>>
    BY <1>2 DEF Echo, Cancelled, LineEnds, At, somebody
  <2> QED
    BY <2>1 DEF Listening
<1>3. CASE LineFull
  BY <1>3, QuietKeepsTyped DEF LineFull, Listening
<1> QED
  BY <1>1, <1>2, <1>3 DEF Gets

LEMMA TypeTyped == ASSUME IInv, TypedInv, Type PROVE TypedInv'
<1> USE DEF TypedInv, NothingTypedLost, EchoOK, HeardOK
<1>1. /\ pc' = pc /\ hasty' = (hasty \/ waiting) /\ eaten' = eaten
      /\ ahead' = (ahead \/ ~Listening) /\ Listening' = Listening
  BY DEF Type, Still, Listening, Full, text
<1>2. ~hasty' => /\ ~hasty /\ ~waiting /\ pc # "got_char"
                 /\ ~eaten => owed = <<>>
  BY <1>1
<1>h. HeardOK' /\ (eaten' => ahead')
  BY <1>1
<1>3. CASE rx' = "FF"
  <2>1. owed' = owed
    BY <1>3 DEF Type
  <2>2. ~hasty' /\ ~eaten' => owed' = <<>>
    BY <2>1, <1>1, <1>2
  <2>3. ~hasty' => pc' # "got_char"
    BY <1>1, <1>2
  <2> QED
    BY <1>3, <1>h, <2>2, <2>3
<1>4. CASE rx' # "FF"
  <2>1. waiting' = TRUE
    BY <1>4 DEF Type
  <2>2. ~hasty' /\ ~eaten => owed' = Append(<<>>, rx')
    BY <1>2, <1>4 DEF Type
  <2>3. Append(<<>>, rx') = <<rx'>>
    OBVIOUS
  <2>4. rx' # None
    BY MonitorAssumption DEF Type, IInv, CharOK
  <2>5. ~hasty' /\ ~eaten' => owed' = <<rx'>>
    BY <1>1, <2>2, <2>3
  <2>6. ~hasty' => pc' # "got_char"
    BY <1>1, <1>2
  <2> QED
    BY <1>4, <1>h, <2>1, <2>4, <2>5, <2>6
<1> QED
  BY <1>3, <1>4

(* Whoever waits for every echo loses no character to uart_gets, whatever  *)
(* he types and whenever interrupts and resets come (uart.c:34-42,         *)
(* simpleuart.v:89-95); and none to a command that reads the register of   *)
(* the receiver (main.c:386-408, simpleuart.v:75) unless he typed before   *)
(* the monitor listened again.                                             *)
THEOREM NothingTypedLostAlways == Spec => []NothingTypedLost
<1>1. Init => TypedInv
  BY DEF Init, TypedInv, NothingTypedLost, EchoOK, HeardOK
<1>2. IInv /\ TypedInv /\ [Next]_vars => TypedInv'
  <2> SUFFICES ASSUME IInv, TypedInv, [Next]_vars PROVE TypedInv'
    OBVIOUS
  <2>1. CASE Gets
    BY <2>1, GetsTyped
  <2>2. CASE Type
    BY <2>2, TypeTyped
  <2>3. CASE Command \/ SdReturns
    <3>1. Harmless
      BY <2>3, CommandHarmless
    <3>2. pc # "gets"
      BY <2>3, CommandBegins
    <3> QED
      BY <3>1, <3>2, QuietKeepsTyped DEF Harmless, InText, Listening
  <2>4. CASE Parse
    <3>1. UNCHANGED receiver
      BY <2>4 DEF Parse, Parses, Line, EatSpace, NoSpace, FindCommand, NoCommand, HexDigit,
                  HexEnds, NumberEnds, Illegal
    <3>2. pc # "gets" /\ pc' # "got_char"
      BY <2>4 DEF Parse, At, Line, EatSpace, NoSpace, FindCommand, NoCommand, HexDigit,
                  HexEnds, NumberEnds, Illegal
    <3> QED
      BY <3>1, <3>2, QuietKeepsTyped DEF Listening
  <2>5. CASE Startup \/ Main
    BY <2>5, QuietKeepsTyped DEF Startup, Main, At, Listening
  <2>6. CASE TakeIrq \/ PressButton \/ TimerFires \/ UNCHANGED vars
    <3>1. UNCHANGED <<pc, i, receiver>>
      BY <2>6 DEF TakeIrq, PressButton, TimerFires, Still, vars, text, receiver, somebody
    <3> QED
      BY <3>1 DEF TypedInv, NothingTypedLost, EchoOK, HeardOK, Listening, Full, receiver,
                  somebody
  <2>7. CASE BeginText
    BY <2>7 DEF BeginText, Still, text, TypedInv, NothingTypedLost, EchoOK, HeardOK, Listening,
                Full
  <2>8. CASE Reset
    BY <2>8 DEF Reset, TypedInv, NothingTypedLost, EchoOK, HeardOK
  <2> QED
    BY <2>1, <2>2, <2>3, <2>4, <2>5, <2>6, <2>7, <2>8 DEF Next, Program
<1>3. TypedInv => NothingTypedLost
  BY DEF TypedInv
<1> QED
  BY <1>1, <1>2, <1>3, Invariant, PTL DEF Spec

-----------------------------------------------------------------------------
(* Division with a remainder, and that there is only one way to do it.     *)
LEMMA Divided ==
  ASSUME NEW a \in Int, NEW d \in Nat \ {0}
  PROVE  /\ a \div d \in Int /\ a % d \in 0..d - 1
         /\ a = (d * (a \div d)) + (a % d)
  OBVIOUS

LEMMA OneQuotient ==
  ASSUME NEW d \in Nat \ {0}, NEW q \in Int, NEW r \in 0..d - 1,
         NEW p \in Int, NEW s \in 0..d - 1, (d * q) + r = (d * p) + s
  PROVE  q = p /\ r = s
<1>1. d * (q - p) = s - r
  OBVIOUS
<1>2. ASSUME q - p >= 1 PROVE FALSE
  <2>1. d * (q - p) >= d * 1
    BY <1>2
  <2> QED  BY <1>1, <2>1
<1>3. ASSUME p - q >= 1 PROVE FALSE
  <2>1. d * (p - q) >= d * 1
    BY <1>3
  <2>2. d * (p - q) = r - s
    BY <1>1
  <2> QED  BY <2>1, <2>2
<1> QED  BY <1>1, <1>2, <1>3

LEMMA Remainder ==
  ASSUME NEW d \in Nat \ {0}, NEW q \in Int, NEW r \in 0..d - 1
  PROVE  /\ ((d * q) + r) \div d = q
         /\ ((d * q) + r) % d = r
<1> DEFINE a == (d * q) + r
<1>1. a \in Int /\ d * q \in Int
  OBVIOUS
<1>2. a \div d \in Int /\ a % d \in 0..d - 1 /\ a = (d * (a \div d)) + (a % d)
  BY <1>1, Divided
<1>3. (d * (a \div d)) + (a % d) = (d * q) + r
  BY <1>2
<1> HIDE DEF a
<1>4. a \div d = q /\ a % d = r
  BY <1>2, <1>3, OneQuotient
<1> QED  BY <1>4 DEF a

(* A remainder forgets whole turns.                                        *)
LEMMA Turns ==
  ASSUME NEW d \in Nat \ {0}, NEW q \in Int, NEW a \in Int
  PROVE  ((d * q) + a) % d = a % d
<1> DEFINE p == a \div d
<1> DEFINE r == a % d
<1>1. p \in Int /\ r \in 0..d - 1 /\ a = (d * p) + r
  BY Divided
<1> HIDE DEF p, r
<1>2. (d * q) + a = (d * (q + p)) + r
  BY <1>1
<1>3. ((d * (q + p)) + r) % d = r
  BY <1>1, Remainder
<1> QED  BY <1>2, <1>3 DEF r

-----------------------------------------------------------------------------
Turn == HALF * HALF
Reading(t) == t % Turn
High(t) == Reading(t) \div HALF

LEMMA TurnType == HALF \in Nat \ {0} /\ HALF >= 2 /\ Turn \in Nat \ {0} /\ Turn >= HALF
  BY TimersAssumption DEF Turn

LEMMA Ticks ==
  ASSUME NEW t \in Int, NEW n \in Int
  PROVE  (Reading(t) + n) % Turn = Reading(t + n)
<1> DEFINE q == t \div Turn
<1> DEFINE r == t % Turn
<1>1. q \in Int /\ r \in Int /\ t = (Turn * q) + r
  BY Divided, TurnType
<1> HIDE DEF q, r
<1>2. t + n = (Turn * q) + (r + n)
  BY <1>1, TurnType
<1>3. ASSUME NEW a \in Int PROVE ((Turn * q) + a) % Turn = a % Turn
  BY <1>1, Turns, TurnType
<1>4. ((Turn * q) + (r + n)) % Turn = (r + n) % Turn
  BY <1>1, <1>3
<1> QED  BY <1>2, <1>4 DEF Reading, r

(* The two halves make up the whole.                                       *)
LEMMA Together ==
  ASSUME NEW t \in Int
  PROVE  (High(t) * HALF) + (Reading(t) % HALF) = Reading(t)
<1>1. Reading(t) \in Int
  BY TurnType, Divided DEF Reading
<1>2. ASSUME NEW a \in Int
      PROVE  ((a \div HALF) * HALF) + (a % HALF) = a
  <2>1. a \div HALF \in Int /\ a = (HALF * (a \div HALF)) + (a % HALF)
    BY TurnType, Divided
  <2>2. (a \div HALF) * HALF = HALF * (a \div HALF)
    BY <2>1, TurnType
  <2> QED  BY <2>1, <2>2
<1> QED  BY <1>1, <1>2 DEF High

(* While the high half is the same at both ends of less than HALF clocks,  *)
(* it was so all the time.                                                 *)
LEMMA SameHigh ==
  ASSUME NEW t \in Int, NEW e \in Nat, NEW f \in Nat, e <= f, f < HALF,
         High(t) = High(t + f)
  PROVE  High(t + e) = High(t)
<1> DEFINE q == t \div Turn
<1> DEFINE r == t % Turn
<1> DEFINE h == r \div HALF
<1> DEFINE l == r % HALF
<1>1. q \in Int /\ r \in 0..Turn - 1 /\ t = (Turn * q) + r
  BY Divided, TurnType
<1> HIDE DEF q, r
<1>2. h \in Int /\ l \in 0..HALF - 1 /\ r = (HALF * h) + l
  BY <1>1, Divided, TurnType
<1>3. High(t) = h
  BY DEF High, Reading, r
<1> HIDE DEF h, l
<1>4. h \in 0..HALF - 1
  <2>1. ASSUME h >= HALF PROVE FALSE
    <3>1. HALF * h >= HALF * HALF
      BY <2>1, <1>2, TurnType
    <3> QED  BY <3>1, <1>1, <1>2, TurnType DEF Turn
  <2>2. ASSUME h <= -1 PROVE FALSE
    <3>1. HALF * h <= HALF * (-1)
      BY <2>2, <1>2, TurnType
    <3> QED  BY <3>1, <1>1, <1>2, TurnType
  <2> QED  BY <2>1, <2>2, <1>2, TurnType
<1>5. ASSUME NEW p \in Int, NEW g \in 0..HALF - 1, NEW k \in 0..HALF - 1
      PROVE  High((Turn * p) + ((HALF * g) + k)) = g
  <2>1. HALF * g <= HALF * (HALF - 1) /\ HALF * g >= 0
    BY TurnType
  <2>2. HALF * (HALF - 1) = Turn - HALF
    BY TurnType DEF Turn
  <2>3. (HALF * g) + k \in 0..Turn - 1
    BY <2>1, <2>2, TurnType
  <2>4. Reading((Turn * p) + ((HALF * g) + k)) = (HALF * g) + k
    BY <2>3, Remainder, TurnType DEF Reading
  <2>5. ((HALF * g) + k) \div HALF = g
    BY Remainder, TurnType
  <2> QED  BY <2>4, <2>5 DEF High
<1>6. CASE l + f < HALF
  <2>1. t + e = (Turn * q) + ((HALF * h) + (l + e)) /\ l + e \in 0..HALF - 1
    BY <1>1, <1>2, <1>6, TurnType
  <2> QED  BY <2>1, <1>1, <1>3, <1>4, <1>5
<1>7. CASE l + f >= HALF
  <2>1. l + f - HALF \in 0..HALF - 1
    BY <1>2, <1>7, TurnType
  <2>2. CASE h < HALF - 1
    <3>1. t + f = (Turn * q) + ((HALF * (h + 1)) + (l + f - HALF))
      BY <1>1, <1>2, TurnType
    <3>2. h + 1 \in 0..HALF - 1
      BY <2>2, <1>4, TurnType
    <3>3. High(t + f) = h + 1
      BY <2>1, <3>1, <3>2, <1>1, <1>5
    <3> QED  BY <3>3, <1>3, <1>4
  <2>3. CASE h = HALF - 1
    <3>1. HALF * h = Turn - HALF
      BY <2>3, TurnType DEF Turn
    <3>2. PICK g \in 0..HALF - 1 : g = 0
      BY TurnType
    <3>3. t + f = (Turn * (q + 1)) + ((HALF * g) + (l + f - HALF))
      BY <1>1, <1>2, <3>1, <3>2, TurnType
    <3>4. High(t + f) = g
      BY <2>1, <1>1, <1>5, <3>3
    <3> QED  BY <3>2, <3>4, <1>3, <2>3, TurnType
  <2> QED  BY <2>2, <2>3, <1>4, TurnType
<1> QED  BY <1>6, <1>7, <1>2, TurnType

(* A reading during the call is no later than now.                         *)
LEMMA NotLater ==
  ASSUME NEW s \in Int, NEW e \in Nat, NEW n \in Nat, n <= e
  PROVE  (Reading(s + e - n) - s) % Turn <= e
<1> DEFINE q == (s + e - n) \div Turn
<1> DEFINE r == (s + e - n) % Turn
<1> DEFINE k == e - n
<1>1. q \in Int /\ r \in Int /\ s + e - n = (Turn * q) + r
  BY Divided, TurnType
<1> HIDE DEF q, r
<1>2. r - s = (Turn * (-q)) + k
  BY <1>1, TurnType
<1>4. k \in Nat /\ k <= e
  OBVIOUS
<1>3. ((Turn * (-q)) + k) % Turn = k % Turn
  <2>1. ASSUME NEW p \in Int, NEW a \in Int PROVE ((Turn * p) + a) % Turn = a % Turn
    BY Turns, TurnType
  <2> HIDE DEF k
  <2> QED  BY <1>1, <1>4, <2>1
<1> HIDE DEF k
<1>5. k \div Turn \in Int /\ k % Turn \in 0..Turn - 1 /\ k = (Turn * (k \div Turn)) + (k % Turn)
  BY <1>4, Divided, TurnType
<1>6. Turn * (k \div Turn) >= 0
  <2>1. ASSUME k \div Turn <= -1 PROVE FALSE
    <3>1. Turn * (k \div Turn) <= Turn * (-1)
      BY <2>1, <1>5, TurnType
    <3> QED  BY <3>1, <1>4, <1>5, TurnType
  <2>2. k \div Turn >= 0
    BY <2>1, <1>5
  <2> QED  BY <2>2, <1>5, TurnType
<1>7. k % Turn <= e
  BY <1>4, <1>5, <1>6, TurnType
<1>8. Reading(s + e - n) = r
  BY DEF Reading, r
<1> QED  BY <1>2, <1>3, <1>7, <1>8

LEMMA TopType == TOP \in Nat \ {0} /\ TOP > 2 * STEP_MAX /\ BYTE >= 2
<1>1. BYTE \in Nat /\ BYTE >= 2 /\ STEP_MAX \in Nat /\ BYTE > STEP_MAX
  BY TimersAssumption
<1>2. BYTE * BYTE >= 2 * BYTE
  BY <1>1
<1>3. (BYTE * BYTE) * BYTE >= (BYTE * BYTE) * 1
  BY <1>1, <1>2
<1> QED  BY <1>1, <1>2, <1>3 DEF TOP

(* The lower bytes do not come to where the test finds them at zero.       *)
LEMMA LowBytes ==
  ASSUME NEW f \in Nat, NEW n \in 1..STEP_MAX, f % TOP \notin 1..2 * STEP_MAX
  PROVE  (IF f > n THEN f - n ELSE 0) % TOP \notin 1..STEP_MAX
<1> DEFINE a == IF f > n THEN f - n ELSE 0
<1>1. STEP_MAX \in Nat /\ TOP \in Nat \ {0} /\ TOP > 2 * STEP_MAX
  BY TimersAssumption, TopType
<1>2. SUFFICES ASSUME a % TOP \in 1..STEP_MAX
               PROVE  FALSE
  OBVIOUS
<1>3. a \in Nat
  BY <1>1
<1>4. a \div TOP \in Int /\ a = (TOP * (a \div TOP)) + (a % TOP)
  BY <1>1, <1>3, Divided
<1>5. f > n
  <2>1. SUFFICES ASSUME a = 0 PROVE FALSE
    BY <1>1
  <2>2. 0 % TOP = 0
    BY <1>1
  <2> QED  BY <1>2, <2>1, <2>2
<1>6. f = (TOP * (a \div TOP)) + ((a % TOP) + n)
  BY <1>1, <1>4, <1>5
<1>7. (a % TOP) + n \in 1..2 * STEP_MAX /\ (a % TOP) + n \in 0..TOP - 1
  BY <1>1, <1>2
<1> HIDE DEF a
<1>8. f % TOP = (a % TOP) + n
  BY <1>1, <1>4, <1>6, <1>7, Remainder
<1> QED  BY <1>7, <1>8

-----------------------------------------------------------------------------
(* readtime_ll: the halves are of readings during the call, the high one   *)
(* at most two accesses old.                                               *)
TimeInv ==
  /\ start \in 0..Turn - 1 /\ elapsed \in Nat /\ cycle = Reading(start + elapsed)
  /\ tpc = "idle" => elapsed = 0
  /\ tpc \in {"rdtimeh", "rdtime", "rdtimeh again"} => callee = "rdtimeh"
  /\ tpc = "rdtime" => time_high = High(start + elapsed)
  /\ tpc = "rdtimeh again" => \E n \in 1..STEP_MAX :
       /\ n <= elapsed /\ time_high = High(start + elapsed - n)
       /\ time_low = Reading(start + elapsed) % HALF
  /\ tpc = "done" /\ callee = "rdtimeh" => \E n \in 1..STEP_MAX :
       n <= elapsed /\ (time_high * HALF) + time_low = Reading(start + elapsed - n)

(* cdt_delay: what is left and what has gone by are enough.                *)
DelayInv ==
  /\ counter \in Nat /\ cycles \in Nat
  /\ tpc \in {"delay", "delaying"} => callee = "delay"
  /\ tpc = "delaying" => counter + elapsed >= cycles
  /\ tpc = "done" /\ callee = "delay" => elapsed >= cycles

(* countdown_timer_test: the lower bytes stay away from zero.              *)
Spared == first % TOP \notin 1..2 * STEP_MAX
TestInv ==
  /\ first \in Nat
  /\ tpc \in {"test", "test byte3", "test half2", "test low half"} => callee = "test"
  /\ tpc = "test" => counter = first
  /\ tpc \notin {"test half2", "test low half", "done"} => test_errors = {}
  /\ tpc = "test byte3" => \E low \in 0..TOP - 1 :
       /\ counter = ((BYTE - 1) * TOP) + low
       /\ Spared => low \notin 1..STEP_MAX
  /\ tpc = "test low half" => counter < BYTE * BYTE
  /\ Spared => test_errors = {}

TimersInv == TimeInv /\ DelayInv /\ TestInv

LEMMA BytesType ==
  /\ BYTE \in Nat /\ BYTE >= 2 /\ STEP_MAX \in Nat /\ TOP \in Nat \ {0} /\ TOP > 2 * STEP_MAX
  /\ BYTE * BYTE \in Nat \ {0}
  /\ (BYTE - 1) * TOP \in Nat /\ (BYTE - 1) * TOP >= TOP
  /\ (BYTE - 2) * TOP = ((BYTE - 1) * TOP) - TOP
<1>1. BYTE \in Nat /\ BYTE >= 2 /\ STEP_MAX \in Nat /\ TOP \in Nat \ {0} /\ TOP > 2 * STEP_MAX
  BY TopType, TimersAssumption
<1>2. PICK b \in Nat : b = BYTE - 2
  BY <1>1
<1>3. BYTE - 1 = b + 1 /\ BYTE = b + 2
  BY <1>1, <1>2
<1>4. b * TOP \in Nat /\ (b + 1) * TOP = (b * TOP) + TOP
  BY <1>1
<1>5. BYTE * BYTE >= 2 * BYTE /\ BYTE * BYTE \in Int
  BY <1>1
<1> QED  BY <1>1, <1>2, <1>3, <1>4, <1>5

(* What is below a byte or a half of a count.                              *)
LEMMA Lower ==
  ASSUME NEW a, a \in Nat
  PROVE  a % TOP \in 0..TOP - 1 /\ a % (BYTE * BYTE) \in 0..(BYTE * BYTE) - 1
<1>1. PICK b \in Nat : b = a
  OBVIOUS
<1>2. PICK half \in Nat \ {0} : half = BYTE * BYTE
  BY BytesType
<1>3. b % TOP \in 0..TOP - 1 /\ b % half \in 0..half - 1
  BY Divided, BytesType
<1> QED  BY <1>1, <1>2, <1>3

LEMMA AfterType ==
  ASSUME counter \in Nat, NEW n \in Nat
  PROVE  After(n) \in Nat /\ After(n) <= counter /\ After(n) >= counter - n
  BY DEF After

LEMMA TimeStep ==
  ASSUME TimersInv, TimersStep
  PROVE  TimeInv'
<1>1. start \in Nat /\ elapsed \in Nat /\ start' = start /\ callee' = callee
      /\ start \in 0..Turn - 1
  <2>1. start' = start /\ callee' = callee
    BY DEF TimersStep, TimersKept
  <2>2. start \in 0..Turn - 1 /\ elapsed \in Nat
    BY DEF TimersInv, TimeInv
  <2> QED  BY <2>1, <2>2, TurnType
<1>2. CASE DelayWrite /\ UNCHANGED <<cycle, elapsed>>
  BY <1>1, <1>2 DEF DelayWrite, TimersInv, TimeInv, DelayInv
<1>3. ASSUME NEW n \in 1..STEP_MAX, Elapse(n),
             \/ ReadHigh(n) \/ ReadLow(n) \/ ReadAgain(n) \/ DelayPoll(n)
             \/ TestByte3(n) \/ CheckByte3(n) \/ TestHalf2(n) \/ CheckHalf2(n)
      PROVE  TimeInv'
  <2>1. n \in Nat /\ elapsed' = elapsed + n /\ elapsed' \in Nat /\ n <= elapsed'
    BY <1>1, <1>3, TimersAssumption DEF Elapse
  <2>2. cycle' = Reading(start' + elapsed')
    <3>1. cycle' = (Reading(start + elapsed) + n) % Turn
      BY <1>3 DEF Elapse, TimersInv, TimeInv, Turn
    <3>2. (Reading(start + elapsed) + n) % Turn = Reading(start + elapsed + n)
      BY <1>1, <2>1, Ticks
    <3>3. start + elapsed + n = start' + elapsed'
      BY <1>1, <2>1
    <3> QED  BY <3>1, <3>2, <3>3
  <2>3. start' + elapsed' - n = start + elapsed
    BY <1>1, <2>1
  <2>4. tpc' # "idle"
    BY <1>3 DEF ReadHigh, ReadLow, ReadAgain, DelayPoll, TestByte3, CheckByte3, TestHalf2,
                CheckHalf2
  <2>5. CASE ReadHigh(n)
    <3>1. /\ tpc' = "rdtime" /\ time_high' = High(start' + elapsed')
          /\ callee = "rdtimeh"
      BY <2>2, <2>5 DEF ReadHigh, High, TimersInv, TimeInv
    <3> QED  BY <1>1, <2>1, <2>2, <3>1 DEF TimeInv
  <2>6. CASE ReadLow(n)
    <3>1. /\ tpc = "rdtime" /\ tpc' = "rdtimeh again" /\ time_high' = time_high
          /\ time_low' = Reading(start' + elapsed') % HALF
          /\ callee = "rdtimeh" /\ time_high = High(start + elapsed)
      BY <2>2, <2>6 DEF ReadLow, TimersInv, TimeInv
    <3>2. time_high' = High(start' + elapsed' - n)
      BY <2>3, <3>1
    <3> QED  BY <1>1, <1>3, <2>1, <2>2, <3>1, <3>2 DEF TimeInv
  <2>7. CASE ReadAgain(n)
    <3>1. /\ tpc = "rdtimeh again" /\ UNCHANGED <<time_high, time_low>>
          /\ callee = "rdtimeh"
          /\ tpc' = IF High(start' + elapsed') # time_high THEN "rdtimeh" ELSE "done"
      BY <2>2, <2>7 DEF ReadAgain, High, TimersInv, TimeInv
    <3>2. PICK m \in 1..STEP_MAX :
            /\ m <= elapsed /\ time_high = High(start + elapsed - m)
            /\ time_low = Reading(start + elapsed) % HALF
      BY <3>1 DEF TimersInv, TimeInv
    <3>3. CASE tpc' = "rdtimeh"
      BY <1>1, <2>1, <2>2, <3>1, <3>3 DEF TimeInv
    <3>4. CASE tpc' = "done" /\ High(start' + elapsed') = time_high
      <4> DEFINE t == start + elapsed - m
      <4>1. /\ t \in Int /\ m \in Nat /\ m + n \in Nat /\ m <= m + n /\ m + n < HALF
            /\ t + m = start + elapsed /\ t + (m + n) = start' + elapsed'
        BY <1>1, <1>3, <2>1, TimersAssumption
      <4>2. High(t) = High(t + (m + n))
        BY <3>2, <3>4, <4>1
      <4> HIDE DEF t
      <4>3. High(t + m) = High(t)
        BY <4>1, <4>2, SameHigh
      <4>4. High(start + elapsed) = time_high
        BY <3>2, <4>1, <4>3 DEF t
      <4>5. (time_high * HALF) + time_low = Reading(start + elapsed)
        BY <1>1, <3>2, <4>4, Together
      <4>6. (time_high' * HALF) + time_low' = Reading(start' + elapsed' - n)
        BY <2>3, <3>1, <4>5
      <4> QED  BY <1>1, <1>3, <2>1, <2>2, <3>1, <3>4, <4>6 DEF TimeInv
    <3> QED  BY <3>1, <3>3, <3>4
  <2>8. CASE DelayPoll(n) \/ TestByte3(n) \/ CheckByte3(n) \/ TestHalf2(n) \/ CheckHalf2(n)
    <3>1. tpc' \notin {"idle", "rdtimeh", "rdtime", "rdtimeh again"} /\ callee # "rdtimeh"
      BY <2>8 DEF DelayPoll, TestByte3, CheckByte3, TestHalf2, CheckHalf2, TimersInv,
                  DelayInv, TestInv
    <3> QED  BY <1>1, <2>1, <2>2, <3>1 DEF TimeInv
  <2> QED  BY <1>3, <2>5, <2>6, <2>7, <2>8
<1> QED  BY <1>2, <1>3 DEF TimersStep

LEMMA DelayStep ==
  ASSUME TimersInv, TimersStep
  PROVE  DelayInv'
<1>1. counter \in Nat /\ cycles \in Nat /\ elapsed \in Nat /\ UNCHANGED <<callee, cycles>>
  BY DEF TimersInv, TimeInv, DelayInv, TimersStep, TimersKept
<1>2. CASE DelayWrite /\ UNCHANGED <<cycle, elapsed>>
  BY <1>1, <1>2 DEF DelayWrite, TimersInv, DelayInv
<1>3. ASSUME NEW n \in 1..STEP_MAX, Elapse(n),
             \/ ReadHigh(n) \/ ReadLow(n) \/ ReadAgain(n) \/ DelayPoll(n)
             \/ TestByte3(n) \/ CheckByte3(n) \/ TestHalf2(n) \/ CheckHalf2(n)
      PROVE  DelayInv'
  <2>1. n \in Nat /\ elapsed' = elapsed + n
    BY <1>3, TimersAssumption DEF Elapse
  <2>2. After(n) \in Nat /\ After(n) >= counter - n
    BY <1>1, <2>1, AfterType
  <2>3. CASE DelayPoll(n)
    <3>1. counter' = After(n) /\ tpc = "delaying" /\ tpc' \in {"delaying", "done"}
          /\ (tpc' = "done" => counter' = 0) /\ callee = "delay"
      BY <2>3 DEF DelayPoll, TimersInv, DelayInv
    <3>2. counter + elapsed >= cycles
      BY <3>1 DEF TimersInv, DelayInv
    <3>3. counter' + elapsed' >= cycles' /\ counter' \in Nat
      BY <1>1, <2>1, <2>2, <3>1, <3>2
    <3>4. counter' = 0 => elapsed' >= cycles'
      BY <1>1, <2>1, <3>3
    <3> QED  BY <1>1, <3>1, <3>3, <3>4 DEF DelayInv
  <2>4. CASE ReadHigh(n) \/ ReadLow(n) \/ ReadAgain(n) \/ CheckByte3(n) \/ CheckHalf2(n)
    <3>1. counter' = After(n) /\ tpc' \notin {"delay", "delaying"} /\ callee # "delay"
      BY <2>4 DEF ReadHigh, ReadLow, ReadAgain, CheckByte3, CheckHalf2, TimersInv, TimeInv,
                  TestInv
    <3> QED  BY <1>1, <2>2, <3>1 DEF DelayInv
  <2>5. CASE TestByte3(n) \/ TestHalf2(n)
    <3>1. tpc' \notin {"delay", "delaying"} /\ callee # "delay"
      BY <2>5 DEF TestByte3, TestHalf2, TimersInv, TestInv
    <3>2. After(n) % TOP \in Nat /\ After(n) % (BYTE * BYTE) \in Nat
      BY <2>2, Lower, BytesType
    <3>3. counter' \in Nat
      <4>1. CASE TestByte3(n)
        <5>1. PICK big \in Nat : big = (BYTE - 1) * TOP
          BY BytesType
        <5>2. PICK low \in Nat : low = After(n) % TOP
          BY <3>2
        <5>3. counter' = big + low
          BY <4>1, <5>1, <5>2 DEF TestByte3
        <5> QED  BY <5>3
      <4>2. CASE TestHalf2(n)
        BY <3>2, <4>2 DEF TestHalf2
      <4> QED  BY <2>5, <4>1, <4>2
    <3> QED  BY <1>1, <3>1, <3>3 DEF DelayInv
  <2> QED  BY <1>3, <2>3, <2>4, <2>5
<1> QED  BY <1>2, <1>3 DEF TimersStep

LEMMA TestStep ==
  ASSUME TimersInv, TimersStep
  PROVE  TestInv'
<1>1. counter \in Nat /\ first \in Nat /\ UNCHANGED <<callee, first>>
      /\ (Spared' <=> Spared)
  BY DEF TimersInv, DelayInv, TestInv, TimersStep, TimersKept, Spared
<1>2. CASE DelayWrite /\ UNCHANGED <<cycle, elapsed>>
  BY <1>1, <1>2 DEF DelayWrite, TimersInv, TestInv
<1>3. ASSUME NEW n \in 1..STEP_MAX, Elapse(n),
             \/ ReadHigh(n) \/ ReadLow(n) \/ ReadAgain(n) \/ DelayPoll(n)
             \/ TestByte3(n) \/ CheckByte3(n) \/ TestHalf2(n) \/ CheckHalf2(n)
      PROVE  TestInv'
  <2>1. n \in Nat /\ After(n) \in Nat /\ After(n) >= counter - n /\ After(n) <= counter
    BY <1>1, <1>3, AfterType, BytesType
  <2>2. CASE ReadHigh(n) \/ ReadLow(n) \/ ReadAgain(n) \/ DelayPoll(n)
    BY <1>1, <2>2 DEF ReadHigh, ReadLow, ReadAgain, DelayPoll, TimersInv, TestInv
  <2>3. CASE TestByte3(n)
    <3> DEFINE low == After(n) % TOP
    <3>1. counter = first /\ counter' = ((BYTE - 1) * TOP) + low /\ test_errors = {}
          /\ tpc = "test" /\ tpc' = "test byte3" /\ test_errors' = test_errors
          /\ callee = "test"
      BY <2>3 DEF TestByte3, TimersInv, TestInv
    <3>2. low \in 0..TOP - 1
      BY <2>1, Lower
    <3>3. Spared => low \notin 1..STEP_MAX
      BY <1>1, <3>1, LowBytes DEF Spared, After
    <3> HIDE DEF low
    <3> QED  BY <1>1, <3>1, <3>2, <3>3 DEF TestInv
  <2>4. CASE CheckByte3(n)
    <3>1. tpc = "test byte3" /\ tpc' = "test half2" /\ counter' = After(n) /\ callee = "test"
          /\ test_errors' =
               IF counter' = (BYTE - 1) * TOP \/ counter' < (BYTE - 2) * TOP THEN {1} ELSE {}
      BY <2>4 DEF CheckByte3, TimersInv, TestInv
    <3>2. PICK low \in 0..TOP - 1 :
            /\ counter = ((BYTE - 1) * TOP) + low
            /\ Spared => low \notin 1..STEP_MAX
      BY <3>1 DEF TimersInv, TestInv
    <3>3. counter > n
      BY <1>1, <1>3, <3>2, BytesType
    <3>4. counter' = counter - n
      BY <3>1, <3>3 DEF After
    <3>5. ASSUME Spared
          PROVE  ~(counter' = (BYTE - 1) * TOP) /\ ~(counter' < (BYTE - 2) * TOP)
      BY <1>1, <1>3, <3>2, <3>4, <3>5, BytesType
    <3>6. Spared => test_errors' = {}
      BY <3>1, <3>5
    <3> QED  BY <1>1, <3>1, <3>6 DEF TestInv
  <2>5. CASE TestHalf2(n)
    <3>1. After(n) % (BYTE * BYTE) < BYTE * BYTE
      BY <2>1, Lower, BytesType
    <3>2. counter' < BYTE * BYTE
      BY <2>5, <3>1 DEF TestHalf2
    <3> QED  BY <1>1, <2>5, <3>2 DEF TestHalf2, TimersInv, TestInv
  <2>6. CASE CheckHalf2(n)
    <3>2. /\ counter < BYTE * BYTE /\ counter' = After(n) /\ tpc = "test low half"
          /\ tpc' = "done" /\ callee = "test"
          /\ test_errors' = test_errors \cup (IF counter' > BYTE * BYTE - 1 THEN {2} ELSE {})
      BY <2>6 DEF CheckHalf2, TimersInv, TestInv
    <3>3. ~(counter' > BYTE * BYTE - 1)
      <4>1. PICK half \in Nat : half = BYTE * BYTE
        BY BytesType
      <4>2. counter < half /\ counter' \in Nat /\ counter' <= counter
        BY <2>1, <3>2, <4>1
      <4>3. ~(counter' > half - 1)
        BY <1>1, <4>2
      <4> QED  BY <4>1, <4>3
    <3>4. test_errors' = test_errors
      BY <3>2, <3>3
    <3> QED  BY <1>1, <3>2, <3>4 DEF TimersInv, TestInv
  <2> QED  BY <1>3, <2>2, <2>3, <2>4, <2>5, <2>6
<1> QED  BY <1>2, <1>3 DEF TimersStep

(* A function is called, or left.                                          *)
LEMMA CallStep ==
  ASSUME TimersInv, NEW label \in {"rdtimeh", "delay", "test"}, NEW arg \in Nat,
         NEW C \in SUBSET (0..Turn - 1), NEW D \in SUBSET Nat, TimersCall(label, arg, C, D)
  PROVE  TimersInv'
<1>1. elapsed' = 0 /\ test_errors' = {} /\ start' \in 0..Turn - 1 /\ cycle' = start'
      /\ counter' \in Nat /\ first' = counter' /\ cycles' = arg
      /\ tpc' = label /\ callee' = label
  BY DEF TimersCall, TimersInv, TimeInv, TestInv
<1>2. cycle' = Reading(start' + elapsed')
  <2>1. ASSUME NEW s \in 0..Turn - 1 PROVE Reading(s + 0) = s
    <3>1. ((Turn * 0) + s) % Turn = s
      BY TurnType, Remainder
    <3> QED  BY <3>1, TurnType DEF Reading
  <2> QED  BY <1>1, <2>1
<1> QED  BY <1>1, <1>2 DEF TimersInv, TimeInv, DelayInv, TestInv

LEMMA LeftStep ==
  ASSUME TimersLeft
  PROVE  TimersInv'
<1>1. 0 = Reading(0 + 0) /\ 0 \in 0..Turn - 1
  BY TurnType DEF Reading
<1> QED  BY <1>1 DEF TimersLeft, TimersInv, TimeInv, DelayInv, TestInv

LEMMA ReportsTrue == TimersInv => TimersTrue
<1> SUFFICES ASSUME TimersInv, tpc = "done"
             PROVE  TimersTrue
  BY DEF TimersTrue
<1>1. ASSUME callee = "rdtimeh"
      PROVE  (((time_high * HALF) + time_low) - start) % (HALF * HALF) <= elapsed
  <2>1. PICK n \in 1..STEP_MAX :
          n <= elapsed /\ (time_high * HALF) + time_low = Reading(start + elapsed - n)
    BY <1>1 DEF TimersInv, TimeInv
  <2>2. start \in Int /\ elapsed \in Nat /\ n \in Nat
    BY TurnType, TimersAssumption DEF TimersInv, TimeInv
  <2>3. (Reading(start + elapsed - n) - start) % Turn <= elapsed
    BY <2>1, <2>2, NotLater
  <2>4. (((time_high * HALF) + time_low) - start) % Turn <= elapsed
    BY <2>1, <2>3, Zenon
  <2> QED  BY <2>4, Zenon DEF Turn
<1>2. (callee = "delay" => elapsed >= cycles) /\ (Spared => test_errors = {})
  BY DEF TimersInv, DelayInv, TestInv
<1> QED  BY <1>1, <1>2 DEF TimersTrue, Spared

-----------------------------------------------------------------------------
(* What the commands do to what is reported.                               *)

LEMMA CommandEnds ==
  ASSUME Command \/ SdReturns
  PROVE  \/ Forget /\ pc' \in {"gets", "trapped"}
         \/ EraseAllFlash \/ WriteAllFlash \/ CheckAllFlash
         \/ SdCardInit \/ SdDisplayBlock \/ SdSetBlock
         \/ ReadClockLl \/ CycleDelay \/ CountdownTimerTest \/ Watching
<1>1. ASSUME NEW n, Faults(n) PROVE Forget /\ pc' \in {"gets", "trapped"}
  BY <1>1 DEF Faults, Ends
<1>2. ASSUME NEW name, NEW align, Accesses(name, align)
      PROVE  Forget /\ pc' \in {"gets", "trapped"}
  BY <1>1, <1>2 DEF Accesses, Ends
<1>3. CASE EndianTest \/ ReadLed \/ MemoryTest \/ ReadClock \/ Help \/ PrintIrqCounts
           \/ ChangeWs2812b \/ SdReturns
  BY <1>3 DEF Prints, EndianTest, ReadLed, MemoryTest, ReadClock, Help, PrintIrqCounts,
              ChangeWs2812b, SdReturns, Ends
<1>4. CASE IncrLed \/ SetLed \/ ToggleSpi \/ DoMaskirqInstr \/ DoTimerInstr \/ ErasePageUflash
           \/ AllPages \/ Watched
  BY <1>4 DEF SetsLeds, IncrLed, SetLed, ToggleSpi, DoMaskirqInstr, DoTimerInstr,
              ErasePageUflash, AllPages, Watched, Ends
<1>5. CASE IllegalInsn \/ BusErr
  BY <1>1, <1>5 DEF IllegalInsn, BusErr
<1>6. CASE ReadByte \/ ReadHalf \/ ReadWord \/ WriteByte \/ WriteHalf \/ WriteWord
  BY <1>2, <1>6 DEF Reads, ReadByte, ReadHalf, ReadWord, WriteByte, WriteHalf, WriteWord
<1> QED  BY <1>3, <1>4, <1>5, <1>6 DEF Command

(* Of the interrupts a command pends none is the button's.                 *)
LEMMA CommandButton ==
  ASSUME Command \/ SdReturns
  PROVE  /\ UNCHANGED <<presses, counts>>
         /\ irq_pending' = irq_pending \/ \E n \in {1, 2} : irq_pending' = irq_pending \cup {n}
         /\ pc \in {"call", "timing", "sd"} /\ pc' \notin {"boot", "main"}
<1> DEFINE Goal ==
      /\ UNCHANGED <<presses, counts>>
      /\ irq_pending' = irq_pending \/ \E n \in {1, 2} : irq_pending' = irq_pending \cup {n}
      /\ pc \in {"call", "timing", "sd"} /\ pc' \notin {"boot", "main"}
<1> SUFFICES Goal
  OBVIOUS
<1>1. ASSUME NEW name, Calls(name), UNCHANGED outside,
             Ends \/ pc' \in {"call", "timing", "sd"},
             UNCHANGED <<counts, irq_pending>>
      PROVE  Goal
  BY <1>1 DEF Calls, At, outside, Ends
<1>2. ASSUME NEW name, NEW n \in {1, 2}, Calls(name), UNCHANGED outside, Faults(n)
      PROVE  Goal
  BY <1>2 DEF Calls, At, outside, Faults, Ends
<1>3. ASSUME NEW name, NEW align, Accesses(name, align) PROVE Goal
  BY <1>1, <1>2, <1>3 DEF Accesses, interrupts
<1>4. CASE EndianTest \/ ReadLed \/ MemoryTest \/ ReadClock \/ Help \/ PrintIrqCounts
           \/ SdCardInit \/ SdDisplayBlock \/ SdSetBlock \/ ChangeWs2812b
  BY <1>1, <1>4 DEF Prints, EndianTest, ReadLed, MemoryTest, ReadClock, Help, PrintIrqCounts,
              CallsSd, SdCardInit, SdDisplayBlock, SdSetBlock, ChangeWs2812b, interrupts,
              Outside
<1>5. CASE IncrLed \/ SetLed \/ ToggleSpi \/ DoMaskirqInstr \/ DoTimerInstr \/ ErasePageUflash
  BY <1>1, <1>5 DEF SetsLeds, IncrLed, SetLed, ToggleSpi, DoMaskirqInstr, DoTimerInstr,
              ErasePageUflash, interrupts, Outside
<1>6. CASE IllegalInsn \/ BusErr
  BY <1>2, <1>6 DEF IllegalInsn, BusErr, Outside
<1>7. CASE ReadByte \/ ReadHalf \/ ReadWord \/ WriteByte \/ WriteHalf \/ WriteWord
  BY <1>3, <1>7 DEF Reads, ReadByte, ReadHalf, ReadWord, WriteByte, WriteHalf, WriteWord
<1>8. CASE ReadClockLl \/ CycleDelay \/ CountdownTimerTest
  BY <1>1, <1>8 DEF ReadClockLl, CycleDelay, CountdownTimerTest, Watches, interrupts, Outside
<1>9. CASE Watching \/ Watched \/ AllPages \/ SdReturns
  BY <1>9 DEF Watching, Watched, AllPages, SdReturns, At, Outside, outside, Ends, interrupts
<1>10. CASE EraseAllFlash \/ WriteAllFlash
  BY <1>1, <1>10 DEF EraseAllFlash, WriteAllFlash, EachPage, Pages, interrupts, Calls, At, Outside
<1>11. CASE CheckAllFlash
  BY <1>1, <1>11 DEF CheckAllFlash, Pages, interrupts, Calls, At, Outside
<1> QED  BY <1>4, <1>5, <1>6, <1>7, <1>8, <1>9, <1>10, <1>11 DEF Command

LEMMA CommandTimers ==
  ASSUME Command \/ SdReturns
  PROVE  \/ UNCHANGED timers \/ TimersLeft \/ TimersStep
         \/ ReadClockLl \/ CycleDelay \/ CountdownTimerTest
<1>1. CASE EndianTest \/ ReadLed \/ MemoryTest \/ ReadClock \/ Help \/ PrintIrqCounts
           \/ SdCardInit \/ SdDisplayBlock \/ SdSetBlock \/ ChangeWs2812b \/ SdReturns
  BY <1>1 DEF Prints, EndianTest, ReadLed, MemoryTest, ReadClock, Help, PrintIrqCounts,
              CallsSd, SdCardInit, SdDisplayBlock, SdSetBlock, ChangeWs2812b, SdReturns
<1>2. CASE IncrLed \/ SetLed \/ ToggleSpi \/ DoMaskirqInstr \/ DoTimerInstr \/ ErasePageUflash
           \/ IllegalInsn \/ BusErr
  BY <1>2 DEF SetsLeds, IncrLed, SetLed, ToggleSpi, DoMaskirqInstr, DoTimerInstr,
              ErasePageUflash, IllegalInsn, BusErr
<1>3. CASE ReadByte \/ ReadHalf \/ ReadWord \/ WriteByte \/ WriteHalf \/ WriteWord
  BY <1>3 DEF Reads, ReadByte, ReadHalf, ReadWord, WriteByte, WriteHalf, WriteWord, Accesses
<1>4. CASE EraseAllFlash \/ WriteAllFlash \/ CheckAllFlash \/ AllPages
  BY <1>4 DEF EraseAllFlash, WriteAllFlash, EachPage, CheckAllFlash, AllPages
<1>5. CASE Watching \/ Watched
  BY <1>5 DEF Watching, Watched, TimersReturn
<1> QED  BY <1>1, <1>2, <1>3, <1>4, <1>5 DEF Command

-----------------------------------------------------------------------------
(* Interrupts of the button that are counted, or will be, were presses.    *)
ButtonInv ==
  /\ presses \in Nat /\ counts \in [Irq -> Nat] /\ irq_pending \subseteq Irq
  /\ pc = "main" => irq_mask = {}
  /\ pc \notin {"boot", "main"} =>
       /\ 3 \in irq_pending => counts[3] + 1 <= presses
       /\ counts[3] <= presses

LEMMA ButtonStays ==
  ASSUME ButtonInv, UNCHANGED <<presses, counts>>,
         \/ irq_pending' = irq_pending
         \/ \E n \in {0, 1, 2} : irq_pending' = irq_pending \cup {n},
         \/ pc \notin {"boot", "main"} /\ pc' \notin {"boot", "main"}
         \/ pc' = pc /\ irq_mask' = irq_mask
         \/ pc = "boot" /\ pc' = "main" /\ irq_mask' = {}
  PROVE  ButtonInv'
<1>1. irq_pending' \subseteq Irq /\ (3 \in irq_pending' => 3 \in irq_pending)
  <2>1. ASSUME NEW n \in {0, 1, 2}, irq_pending' = irq_pending \cup {n}
        PROVE  irq_pending' \subseteq Irq /\ (3 \in irq_pending' => 3 \in irq_pending)
    <3>1. n \in Irq /\ n # 3
      BY DEF Irq
    <3> QED  BY <2>1, <3>1 DEF ButtonInv
  <2> QED  BY <2>1 DEF ButtonInv
<1> QED  BY <1>1 DEF ButtonInv

LEMMA GetsParseQuiet ==
  ASSUME Gets \/ Parse
  PROVE  /\ UNCHANGED <<outside, interrupts, devices, timers>>
         /\ pc \notin {"boot", "main", "call", "timing"} /\ pc' \notin {"boot", "main", "timing"}
<1>1. CASE Gets
  BY <1>1 DEF Gets, UartGetchar, Gives, Echo, Cancelled, LineEnds, LineFull, InLine, At
<1>2. CASE Parse
  BY <1>2 DEF Parse, Line, EatSpace, NoSpace, FindCommand, NoCommand, HexDigit, HexEnds,
              NumberEnds, Illegal, Parses, At
<1> QED  BY <1>1, <1>2

LEMMA ButtonStep ==
  ASSUME ButtonInv, [Next]_vars
  PROVE  ButtonInv'
<1>1. CASE Gets \/ Parse
  BY <1>1, GetsParseQuiet, ButtonStays DEF outside, interrupts
<1>2. CASE Command \/ SdReturns
  BY <1>2, CommandButton, ButtonStays
<1>3. CASE Startup
  BY <1>3, ButtonStays DEF Startup, At, outside
<1>4. CASE Main
  <2>1. irq_pending' = {} /\ presses' = presses /\ pc' = "gets"
        /\ counts' = [n \in Irq |-> 0]
    BY <1>4 DEF Main, At, ButtonInv, outside
  <2> QED  BY <2>1 DEF ButtonInv, Irq
<1>5. CASE TakeIrq
  <2>1. /\ counts' = [n \in Irq |-> counts[n] + (IF n \in irq_pending \ irq_mask THEN 1 ELSE 0)]
        /\ irq_pending' = irq_pending \cap irq_mask
        /\ UNCHANGED <<pc, presses, irq_mask>>
    BY <1>5 DEF TakeIrq, outside
  <2>2. counts' \in [Irq -> Nat] /\ 3 \in Irq
    BY <2>1 DEF ButtonInv, Irq
  <2>3. counts'[3] = counts[3] + (IF 3 \in irq_pending \ irq_mask THEN 1 ELSE 0)
    BY <2>1, <2>2
  <2>4. counts[3] \in Nat
    BY <2>2 DEF ButtonInv
  <2> QED  BY <2>1, <2>2, <2>3, <2>4 DEF ButtonInv
<1>6. CASE BeginText \/ Type
  BY <1>6, ButtonStays DEF BeginText, Type, Still, interrupts
<1>7. CASE PressButton
  <2>1. presses' = presses + 1 /\ irq_pending' = irq_pending \cup {3}
        /\ UNCHANGED <<pc, counts, irq_mask>>
    BY <1>7 DEF PressButton, Still
  <2>2. 3 \in Irq /\ counts[3] \in Nat
    BY DEF ButtonInv, Irq
  <2> QED  BY <2>1, <2>2 DEF ButtonInv
<1>8. CASE TimerFires
  BY <1>8, ButtonStays DEF TimerFires, Still
<1>9. CASE Reset
  BY <1>9 DEF Reset, PendingAtReset, ButtonInv, Irq
<1>10. CASE UNCHANGED vars
  BY <1>10, ButtonStays DEF vars
<1> QED  BY <1>1, <1>2, <1>3, <1>4, <1>5, <1>6, <1>7, <1>8, <1>9, <1>10 DEF Next, Program

-----------------------------------------------------------------------------
(* cf has counted the pages it looked at.                                  *)
Paged == {<<"c","f">>, <<"a","f">>, <<"w","f">>}
PagesInv ==
  /\ page \in 0..PAGES /\ errors \in Nat
  /\ pc # "call" \/ cmd \notin Paged => page = 0
  /\ pc # "call" \/ cmd # <<"c","f">> => errors = 0
  /\ pc = "call" /\ cmd = <<"c","f">> =>
       (errors = 0 <=> \A p \in 0..page - 1 : flash[p] = "filled")

LEMMA NoPages ==
  ASSUME page' = 0, errors' = 0
  PROVE  PagesInv'
  BY MonitorAssumption DEF PagesInv

LEMMA PagesStep ==
  ASSUME PagesInv, [Next]_vars
  PROVE  PagesInv'
<1>1. CASE UNCHANGED vars \/ TakeIrq \/ BeginText \/ Type \/ PressButton \/ TimerFires
  BY <1>1 DEF vars, TakeIrq, BeginText, Type, PressButton, TimerFires, Still, loop, parsing,
              arguments, devices, PagesInv
<1>2. CASE Reset
  BY <1>2, NoPages DEF Reset, Forget
<1>3. CASE Gets \/ Parse \/ Startup \/ Main
  <2>1. pc # "call"
    BY <1>3, GetsParseQuiet DEF Startup, Main, At
  <2>2. UNCHANGED loop \/ Forget
    BY <1>3 DEF Gets, UartGetchar, Echo, Cancelled, LineEnds, LineFull, InLine, Parse, Line,
                EatSpace, NoSpace, FindCommand, NoCommand, HexDigit, HexEnds, NumberEnds,
                Illegal, Parses, Startup, Main
  <2> QED  BY <2>1, <2>2, NoPages DEF PagesInv, loop, Forget
<1>4. CASE Command \/ SdReturns
  <2>1. CASE Forget
    BY <2>1, NoPages DEF Forget
  <2>2. CASE EraseAllFlash \/ WriteAllFlash
    <3>1. /\ pc = "call" /\ pc' = pc /\ cmd \in {<<"a","f">>, <<"w","f">>} /\ cmd' = cmd
          /\ page < PAGES /\ page' = page + 1 /\ errors' = errors
      BY <2>2 DEF EraseAllFlash, WriteAllFlash, EachPage, Pages, Calls, At, parsing, arguments
    <3>2. cmd # <<"c","f">> /\ cmd \in Paged
      BY <3>1 DEF Paged
    <3>3. page' \in 0..PAGES
      BY <3>1, MonitorAssumption DEF PagesInv
    <3> QED  BY <3>1, <3>2, <3>3 DEF PagesInv
  <2>3. CASE CheckAllFlash
    <3>1. /\ pc = "call" /\ pc' = pc /\ cmd = <<"c","f">> /\ cmd' = cmd /\ flash' = flash
          /\ page < PAGES /\ page' = page + 1
          /\ errors' = errors + (IF flash[page] = "filled" THEN 0 ELSE 1)
      BY <2>3 DEF CheckAllFlash, Pages, Calls, At, parsing, arguments, devices
    <3>2. page' \in 0..PAGES /\ page \in Nat /\ errors \in Nat
      BY <3>1, MonitorAssumption DEF PagesInv
    <3>3. (\A p \in 0..page' - 1 : flash[p] = "filled")
            <=> (\A p \in 0..page - 1 : flash[p] = "filled") /\ flash[page] = "filled"
      BY <3>1, <3>2
    <3>4. errors' \in Nat /\ (errors' = 0 <=> errors = 0 /\ flash[page] = "filled")
      BY <3>1, <3>2
    <3>5. cmd \in Paged
      BY <3>1 DEF Paged
    <3> QED  BY <3>1, <3>2, <3>3, <3>4, <3>5 DEF PagesInv
  <2>4. CASE \/ ReadClockLl \/ CycleDelay \/ CountdownTimerTest
             \/ SdCardInit \/ SdDisplayBlock \/ SdSetBlock
    <3>1. /\ cmd \in {<<"r","d">>, <<"d","c">>, <<"c","t">>, <<"s","i">>, <<"s","r">>,
                     <<"s","w">>}
          /\ pc' # "call" /\ UNCHANGED loop
      BY <2>4 DEF ReadClockLl, CycleDelay, CountdownTimerTest, Watches, SdCardInit,
                  SdDisplayBlock, SdSetBlock, CallsSd, Calls
    <3>2. cmd \notin Paged
      BY <3>1 DEF Paged
    <3>3. page = 0 /\ errors = 0
      BY <3>2 DEF PagesInv, Paged
    <3> QED  BY <3>1, <3>3, NoPages DEF loop
  <2>5. CASE Watching
    BY <2>5, NoPages DEF Watching, At, PagesInv, loop
  <2> QED  BY <1>4, <2>1, <2>2, <2>3, <2>4, <2>5, CommandEnds
<1> QED  BY <1>1, <1>2, <1>3, <1>4 DEF Next, Program

-----------------------------------------------------------------------------
(* dc is called with the one number it takes.                              *)
Unparsed == args = <<>> /\ cmd = <<>> /\ stage = 0
ArgsInv ==
  /\ val \in Nat /\ stage \in Nat /\ args \in Seq(Nat)
  /\ pc \in {"boot", "main", "gets", "got_char", "got_line", "find"} => Unparsed
  /\ pc = "eat" /\ stage = 0 => Unparsed
  /\ pc = "hex" => stage # 0
  /\ pc = "call" => stage = 0
  /\ pc \in {"eat", "hex", "call"} /\ cmd = <<"d","c">> => Len(args) + stage = 1

LEMMA ArgsForgotten ==
  ASSUME Forget, pc' # "hex"
  PROVE  ArgsInv'
<1>1. args' = <<>> /\ cmd' = <<>> /\ stage' = 0 /\ val' = 0
  BY DEF Forget
<1>2. <<>> \in Seq(Nat) /\ <<>> # <<"d","c">>
  OBVIOUS
<1>3. Unparsed' /\ args' \in Seq(Nat) /\ cmd' # <<"d","c">>
  BY <1>1, <1>2 DEF Unparsed
<1> QED  BY <1>1, <1>3 DEF ArgsInv

LEMMA ArgsStay ==
  ASSUME ArgsInv, UNCHANGED parsing,
         \/ pc' = pc
         \/ pc' \in {"timing", "sd", "illegal"}
         \/ /\ pc \in {"boot", "main", "gets", "got_char", "got_line"}
            /\ pc' \in {"main", "gets", "got_char", "got_line"}
  PROVE  ArgsInv'
<1>1. UNCHANGED <<stage, cmd, val, args>>
  BY DEF parsing, arguments
<1> QED  BY <1>1 DEF ArgsInv, Unparsed

(* A row of the table.                                                     *)
LEMMA RowArity ==
  ASSUME NEW k \in DOMAIN commands
  PROVE  /\ commands[k][3] \in Nat
         /\ commands[k][1] = "d" /\ commands[k][2] = "c" => commands[k][3] = 1
<1>1. k \in 1..30
  BY DEF commands
<1>2. commands[k][3] \in {0, 1, 2}
  BY <1>1, SMTT(60) DEF commands
<1>3. commands[k][1] = "d" /\ commands[k][2] = "c" => k = 2
  BY <1>1, SMTT(60) DEF commands
<1>4. commands[2][3] = 1
  BY DEF commands
<1> QED  BY <1>2, <1>3, <1>4

(* The first of the rows that match is one of them.                        *)
LEMMA NatLess == IsWellFoundedOn({ss \in Nat \X Nat : ss[1] < ss[2]}, Nat)
  BY NatLessThanWellFounded, Zenon DEF OpToRel

LEMMA FirstRow ==
  ASSUME Matching # {}
  PROVE  (CHOOSE k \in Matching : \A other \in Matching : k <= other) \in Matching
<1>1. Matching \subseteq DOMAIN commands /\ DOMAIN commands \subseteq Nat
  BY DEF Matching, Rows, commands
<1>2. \E k \in Matching : \A other \in Matching :
        ~(<<other, k>> \in {ss \in Nat \X Nat : ss[1] < ss[2]})
  BY <1>1, NatLess, WFMin
<1>3. PICK k \in Matching : \A other \in Matching :
        ~(<<other, k>> \in {ss \in Nat \X Nat : ss[1] < ss[2]})
  BY <1>2
<1>4. \A other \in Matching : ~(other < k) /\ other \in Nat /\ k \in Nat
  BY <1>1, <1>3
<1>5. \E least \in Matching : \A other \in Matching : least <= other
  BY <1>4
<1> QED  BY <1>1, <1>5

LEMMA ArgsParse ==
  ASSUME ArgsInv, Parse
  PROVE  ArgsInv'
<1>1. CASE Illegal
  BY <1>1, ArgsForgotten DEF Illegal
<1>2. CASE Line
  <2>1. /\ pc = "got_line" /\ pc' \in {"gets", "eat"} /\ UNCHANGED <<stage, cmd, val, args>>
    BY <1>2 DEF Line, At, arguments
  <2>2. <<>> # <<"d","c">>
    OBVIOUS
  <2> QED  BY <2>1, <2>2 DEF ArgsInv, Unparsed
<1>3. CASE EatSpace
  BY <1>3 DEF EatSpace, At, arguments, ArgsInv, Unparsed
<1>4. CASE NoSpace
  BY <1>4 DEF NoSpace, At, arguments, ArgsInv, Unparsed
<1>5. CASE FindCommand
  <2> DEFINE k == CHOOSE k \in Matching : \A other \in Matching : k <= other
  <2>1. /\ pc = "find" /\ Matching # {} /\ cmd' = <<commands[k][1], commands[k][2]>>
        /\ pc' = IF commands[k][3] = 0 THEN "call" ELSE "eat"
        /\ stage' = commands[k][3] /\ UNCHANGED <<val, args>>
    BY <1>5 DEF FindCommand, At
  <2>2. k \in DOMAIN commands
    BY <2>1, FirstRow DEF Matching, Rows
  <2> HIDE DEF k
  <2>3. /\ commands[k][3] \in Nat
        /\ cmd' = <<"d","c">> => commands[k][3] = 1
    BY <2>1, <2>2, RowArity
  <2>4. args' = <<>> /\ Len(args') = 0
    BY <2>1 DEF ArgsInv, Unparsed
  <2> QED  BY <2>1, <2>3, <2>4 DEF ArgsInv
<1>6. CASE NoCommand
  BY <1>6, ArgsStay DEF NoCommand
<1>7. CASE HexDigit
  <2>1. pc = "hex" /\ pc' = "hex" /\ UNCHANGED <<stage, cmd, args>>
        /\ val' = (16 * val + Digit(buf[pos])) % VAL_MOD /\ IsHex(buf[pos])
    BY <1>7 DEF HexDigit, At
  <2>2. PICK d \in 0..15 : d = Digit(buf[pos])
    BY <2>1 DEF IsHex, Digit, DigitsOf
  <2>3. VAL_MOD \in Nat \ {0}
    BY MonitorAssumption
  <2>4. PICK w \in Nat : w = val
    BY DEF ArgsInv
  <2>5. 16 * w + d \in Nat
    BY <2>2, <2>4
  <2>6. (16 * w + d) % VAL_MOD \in Nat
    BY <2>3, <2>5, Divided
  <2>7. val' \in Nat
    BY <2>1, <2>2, <2>4, <2>6
  <2> QED  BY <2>1, <2>7 DEF ArgsInv
<1>8. CASE HexEnds
  <2>1. pc = "hex" /\ NumberEnds /\ val' = 0 /\ cmd' = cmd
    BY <1>8 DEF HexEnds, At, NumberEnds
  <2>2. stage \in Nat \ {0} /\ args \in Seq(Nat) /\ val \in Nat
    BY <2>1 DEF ArgsInv
  <2>3. CASE valid
    <3>1. args' = Append(args, val) /\ stage' = stage - 1
          /\ pc' = IF stage = 1 THEN "call" ELSE "eat"
      BY <2>1, <2>3 DEF NumberEnds
    <3>2. args' \in Seq(Nat) /\ Len(args') = Len(args) + 1 /\ stage' \in Nat /\ Len(args) \in Nat
      BY <2>2, <3>1
    <3>3. (pc' = "call" => stage' = 0) /\ (pc' = "eat" => stage' # 0)
      BY <2>2, <3>1
    <3>4. cmd' = <<"d","c">> => Len(args') + stage' = 1
      BY <2>1, <2>2, <3>1, <3>2 DEF ArgsInv
    <3> QED  BY <2>1, <3>1, <3>2, <3>3, <3>4 DEF ArgsInv
  <2>4. CASE ~valid
    BY <2>1, <2>2, <2>4 DEF NumberEnds, ArgsInv
  <2> QED  BY <2>3, <2>4
<1> QED  BY <1>1, <1>2, <1>3, <1>4, <1>5, <1>6, <1>7, <1>8 DEF Parse

LEMMA ArgsStep ==
  ASSUME ArgsInv, [Next]_vars
  PROVE  ArgsInv'
<1>1. CASE UNCHANGED vars \/ TakeIrq \/ BeginText \/ Type \/ PressButton \/ TimerFires
  BY <1>1, ArgsStay DEF vars, TakeIrq, BeginText, Type, PressButton, TimerFires, Still,
                        parsing, arguments
<1>2. CASE Reset
  BY <1>2, ArgsForgotten DEF Reset
<1>3. CASE Startup \/ Main
  BY <1>3, ArgsStay DEF Startup, Main, At
<1>4. CASE Gets
  <2>1. CASE Cancelled
    BY <2>1, ArgsForgotten DEF Cancelled
  <2>2. CASE UartGetchar \/ Echo \/ LineEnds \/ LineFull
    BY <2>2, ArgsStay DEF UartGetchar, Gives, Echo, LineEnds, LineFull, InLine, At
  <2> QED  BY <1>4, <2>1, <2>2 DEF Gets
<1>5. CASE Command \/ SdReturns
  <2>1. CASE Forget /\ pc' \in {"gets", "trapped"}
    BY <2>1, ArgsForgotten
  <2>2. CASE EraseAllFlash \/ WriteAllFlash \/ CheckAllFlash
    BY <2>2, ArgsStay DEF EraseAllFlash, WriteAllFlash, EachPage, CheckAllFlash
  <2>3. CASE ReadClockLl \/ CycleDelay \/ CountdownTimerTest \/ Watching
    BY <2>3, ArgsStay DEF ReadClockLl, CycleDelay, CountdownTimerTest, Watches, Watching
  <2>4. CASE SdCardInit \/ SdDisplayBlock \/ SdSetBlock
    BY <2>4, ArgsStay DEF SdCardInit, SdDisplayBlock, SdSetBlock, CallsSd
  <2> QED  BY <1>5, <2>1, <2>2, <2>3, <2>4, CommandEnds
<1> QED  BY <1>1, <1>2, <1>3, <1>4, <1>5, ArgsParse DEF Next, Program

-----------------------------------------------------------------------------
LEMMA TimersSame ==
  ASSUME TimersInv, UNCHANGED timers
  PROVE  TimersInv'
  BY DEF timers, TimersInv, TimeInv, DelayInv, TestInv, Spared

LEMMA TimersNext ==
  ASSUME TimersInv, ArgsInv, [Next]_vars
  PROVE  TimersInv'
<1>1. CASE UNCHANGED timers
  BY <1>1, TimersSame
<1>2. CASE TimersLeft
  BY <1>2, LeftStep
<1>3. CASE TimersStep
  BY <1>3, TimeStep, DelayStep, TestStep DEF TimersInv
<1>4. CASE ReadClockLl \/ CountdownTimerTest
  <2>1. Cycles \in SUBSET (0..Turn - 1) /\ {0} \in SUBSET (0..Turn - 1)
        /\ Counters \in SUBSET Nat /\ {0} \in SUBSET Nat
    BY MonitorAssumption, TurnType DEF Turn
  <2> QED  BY <1>4, <2>1, CallStep DEF ReadClockLl, CountdownTimerTest, Watches
<1>5. CASE CycleDelay
  <2>1. {0} \in SUBSET (0..Turn - 1) /\ {0} \in SUBSET Nat
    BY TurnType
  <2>2. pc = "call" /\ cmd = <<"d","c">> /\ TimersCall("delay", args[1], {0}, {0})
    BY <1>5 DEF CycleDelay, Watches, Calls, At
  <2>3. args \in Seq(Nat) /\ Len(args) = 1
    BY <2>2 DEF ArgsInv
  <2>4. args[1] \in Nat
    BY <2>3
  <2> QED  BY <2>1, <2>2, <2>4, CallStep
<1>6. CASE Command \/ SdReturns
  BY <1>1, <1>2, <1>3, <1>4, <1>5, <1>6, CommandTimers
<1>7. CASE Gets \/ Parse
  BY <1>1, <1>7, GetsParseQuiet
<1>8. CASE Startup \/ Main \/ TakeIrq
  BY <1>1, <1>8 DEF Startup, Main, TakeIrq
<1>9. CASE BeginText \/ Type \/ PressButton \/ TimerFires \/ Reset
  BY <1>1, <1>2, <1>9 DEF BeginText, Type, PressButton, TimerFires, Still, Reset
<1>10. CASE UNCHANGED vars
  BY <1>1, <1>10 DEF vars, timers
<1> QED  BY <1>6, <1>7, <1>8, <1>9, <1>10 DEF Next, Program

LEMMA InitReports == Init => ButtonInv /\ PagesInv /\ ArgsInv /\ TimersInv
<1> SUFFICES ASSUME Init
             PROVE  ButtonInv /\ PagesInv /\ ArgsInv /\ TimersInv
  OBVIOUS
<1>1. ButtonInv
  BY DEF Init, ButtonInv, PendingAtReset, Irq
<1>2. PagesInv
  BY MonitorAssumption DEF Init, PagesInv
<1>3. ArgsInv
  <2>1. <<>> \in Seq(Nat) /\ <<>> # <<"d","c">>
    OBVIOUS
  <2> QED  BY <2>1 DEF Init, ArgsInv, Unparsed
<1>4. TimersInv
  <2>1. 0 = Reading(0 + 0) /\ 0 \in 0..Turn - 1
    BY TurnType DEF Reading
  <2> QED  BY <2>1 DEF Init, TimersIdle, TimersInv, TimeInv, DelayInv, TestInv
<1> QED  BY <1>1, <1>2, <1>3, <1>4

(* What the monitor prints is so (readtime.h, main.c:152, main.c:330):     *)
(* the time is one the counter had during the call, a delay is not shorter *)
(* than asked for, the test of the countdown timer finds nothing wrong,    *)
(* cf finds no error just if every page is what wf writes, and the count   *)
(* of button interrupts is of presses since the start.                     *)
THEOREM ReportTrueAlways == Spec => []ReportTrue
<1> DEFINE RInv == ButtonInv /\ PagesInv /\ ArgsInv /\ TimersInv
<1>1. Init => RInv
  BY InitReports
<1>2. RInv /\ [Next]_vars => RInv'
  BY ButtonStep, PagesStep, ArgsStep, TimersNext
<1>3. RInv => ReportTrue
  <2> SUFFICES ASSUME RInv
               PROVE  ReportTrue
    OBVIOUS
  <2>1. TimersTrue
    BY ReportsTrue
  <2>2. pc = "call" /\ cmd = <<"c","f">> /\ page = PAGES =>
          (errors = 0 <=> \A p \in 0..PAGES - 1 : flash[p] = "filled")
    BY DEF PagesInv
  <2>3. pc \notin {"boot", "main"} => counts[3] <= presses
    BY DEF ButtonInv
  <2> QED  BY <2>1, <2>2, <2>3 DEF ReportTrue
<1> QED  BY <1>1, <1>2, <1>3, PTL DEF Spec

-----------------------------------------------------------------------------
(* What a line means.  The invariant follows parse() through the text.     *)

(* What parse() has not looked at; the text of the argument it is at; and  *)
(* that v is the number of the first n digits of t.                        *)
Left == From(shown, pos + 1)
Named == Behind(shown, {"SP"})
ArgText == IF args = <<>> THEN From(Named, 3) ELSE Argument(From(Named, 3)).rest
AllIn(t, n, S) == n \in 0..Len(t) /\ \A k \in 1..n : t[k] \in S
Holds(v, t, n) ==
  /\ v \in 0..VAL_MOD - 1
  /\ \A d \in 0..VAL_DIGITS - 1 :
       (v \div 16 ^ d) % 16 = IF n > d THEN Digit(t[n - d]) ELSE 0

(* A row of the table has the command's name, and its number of arguments. *)
Known ==
  \E k \in Rows :
    /\ Len(Named) >= 2 /\ commands[k][1] = Named[1] /\ commands[k][2] = Named[2]
    /\ cmd = <<Named[1], Named[2]>> /\ commands[k][3] = Len(args) + stage

EchoInv == shown \in Seq(Chars) /\ Len(shown) = i /\ \A k \in 1..i : buf[k - 1] = shown[k]
NameInv ==
  /\ pc = "eat" /\ stage = 0 => AllIn(shown, pos, {"SP"})
  /\ pc = "find" => Left = Named
ArgumentInv ==
  /\ pc # "hex" => val = 0 /\ valid = FALSE
  /\ pc \in {"eat", "hex"} /\ stage # 0 =>
       /\ Known
       /\ args # <<>> => /\ Argument(From(Named, 3)).found
                         /\ args = <<Argument(From(Named, 3)).value>>
  /\ pc = "eat" /\ stage # 0 =>
       \E n \in Nat : AllIn(ArgText, n, {"SP"}) /\ Left = From(ArgText, n + 1)
  /\ pc = "hex" =>
       LET t == Behind(ArgText, {"SP"}) IN
       \E n \in Nat : /\ AllIn(t, n, HexChars) /\ Left = From(t, n + 1)
                      /\ (valid <=> n > 0) /\ Holds(val, t, n)
MeantInv == EchoInv /\ NameInv /\ ArgumentInv /\ CommandMeant

-----------------------------------------------------------------------------
(* What holds of 0 and of the next number holds up to n: induction, of the *)
(* members of a set.                                                       *)
LEMMA Upward ==
  ASSUME NEW n \in Nat, NEW S, 0 \in S,
         \A k \in 0..n - 1 : k \in S => k + 1 \in S
  PROVE  0..n \subseteq S
<1> DEFINE Missed == {k \in 0..n : k \notin S}
<1>1. ASSUME Missed # {} PROVE FALSE
  <2>1. Missed \subseteq Nat
    OBVIOUS
  <2>2. PICK k \in Missed : \A other \in Missed :
          ~(<<other, k>> \in {ss \in Nat \X Nat : ss[1] < ss[2]})
    BY <1>1, <2>1, NatLess, WFMin
  <2>3. k \in 1..n /\ k \notin S
    OBVIOUS
  <2>4. k - 1 \in 0..n - 1 /\ (k - 1) + 1 = k
    BY <2>3
  <2>5. k - 1 \notin S
    BY <2>3, <2>4
  <2>6. k - 1 \in Missed /\ k - 1 < k /\ k - 1 \in Nat /\ k \in Nat
    BY <2>3, <2>4, <2>5
  <2> QED  BY <2>2, <2>6
<1> QED  BY <1>1

(* The powers of 16; the higher are multiples of the lower.                *)
LEMMA Power ==
  ASSUME NEW d \in 0..VAL_DIGITS
  PROVE  16 ^ d \in Nat \ {0}
<1> DEFINE S == {e \in Nat : 16 ^ e \in Nat \ {0}}
<1>1. 0 \in S
  BY PowersAssumption
<1>2. ASSUME NEW k \in 0..VAL_DIGITS - 1, k \in S PROVE k + 1 \in S
  <2>1. PICK x \in Nat \ {0} : x = 16 ^ k
    BY <1>2
  <2>2. 16 ^ (k + 1) = 16 * x
    BY <2>1, PowersAssumption
  <2> QED  BY <2>2
<1> HIDE DEF S
<1>3. 0..VAL_DIGITS \subseteq S
  BY <1>1, <1>2, Upward, PowersAssumption
<1> QED  BY <1>3 DEF S

LEMMA Multiple ==
  ASSUME NEW d \in 0..VAL_DIGITS, NEW e \in d..VAL_DIGITS
  PROVE  \E q \in Nat : 16 ^ e = q * 16 ^ d
<1> DEFINE S == {f \in Nat : d <= f => \E q \in Nat : 16 ^ f = q * 16 ^ d}
<1>0. d \in Nat /\ VAL_DIGITS \in Nat
  BY PowersAssumption
<1>1. PICK x \in Nat \ {0} : x = 16 ^ d
  BY Power
<1>2. 0 \in S
  <2>1. CASE d = 0
    <3>1. 16 ^ 0 = 1 * 16 ^ d
      BY <2>1, PowersAssumption
    <3> QED  BY <3>1
  <2>2. CASE d # 0
    BY <2>2, <1>0
  <2> QED  BY <2>1, <2>2
<1>3. ASSUME NEW k \in 0..VAL_DIGITS - 1, k \in S PROVE k + 1 \in S
  <2>1. CASE d <= k
    <3>1. PICK q \in Nat : 16 ^ k = q * x
      BY <1>1, <1>3, <2>1
    <3>2. 16 ^ (k + 1) = 16 * (q * x)
      BY <3>1, PowersAssumption
    <3>3. PICK m \in Nat : m = 16 * q
      OBVIOUS
    <3>4. 16 * (q * x) = m * x
      BY <3>3
    <3>5. 16 ^ (k + 1) = m * 16 ^ d
      BY <3>2, <3>4, <1>1, Zenon
    <3>6. k + 1 \in Nat
      OBVIOUS
    <3> QED  BY <3>5, <3>6
  <2>2. CASE d = k + 1
    <3>1. 16 ^ (k + 1) = 1 * x
      BY <1>1, <2>2
    <3> QED  BY <3>1, <1>1
  <2>3. CASE d > k + 1
    BY <2>3, <1>0
  <2> QED  BY <2>1, <2>2, <2>3, <1>0
<1> HIDE DEF S
<1>4. 0..VAL_DIGITS \subseteq S
  BY <1>2, <1>3, Upward, <1>0
<1>5. e \in S /\ d <= e
  BY <1>4, <1>0
<1> QED  BY <1>5 DEF S

(* Two divisions are one.                                                  *)
LEMMA DivideBy16Last ==
  ASSUME NEW x \in Nat, NEW a \in Nat \ {0}
  PROVE  x \div (16 * a) = (x \div a) \div 16 /\ x \div a \in Nat
<1>1. PICK q \in Int, r \in 0..a - 1 : q = x \div a /\ x = (a * q) + r
  BY Divided
<1>2. PICK p \in Int, s \in 0..15 : p = q \div 16 /\ q = (16 * p) + s
  BY Divided
<1>3. PICK b \in Nat : b = a * s
  OBVIOUS
<1>4. b <= 15 * a
  <2>1. a * s <= a * 15
    OBVIOUS
  <2> QED  BY <2>1, <1>3
<1>5. b + r \in 0..(16 * a) - 1
  BY <1>4
<1>6. x = ((16 * a) * p) + (b + r)
  <2>1. a * q = (a * (16 * p)) + (a * s)
    BY <1>2
  <2>2. a * (16 * p) = (16 * a) * p
    OBVIOUS
  <2> QED  BY <1>1, <2>1, <2>2, <1>3
<1>7. x \div (16 * a) = p
  <2>1. 16 * a \in Nat \ {0}
    OBVIOUS
  <2> QED  BY <2>1, <1>5, <1>6, Remainder
<1>8. q \in Nat
  <2>1. ASSUME q <= -1 PROVE FALSE
    <3>1. a * q <= a * (-1)
      BY <2>1
    <3> QED  BY <3>1, <1>1
  <2> QED  BY <2>1
<1> QED  BY <1>1, <1>2, <1>7, <1>8

LEMMA DivideBy16First ==
  ASSUME NEW x \in Nat, NEW a \in Nat \ {0}
  PROVE  x \div (16 * a) = (x \div 16) \div a
<1>1. PICK q \in Int, r \in 0..15 : q = x \div 16 /\ x = (16 * q) + r
  BY Divided
<1>2. PICK p \in Int, s \in 0..a - 1 : p = q \div a /\ q = (a * p) + s
  BY Divided
<1>3. (16 * s) + r \in 0..(16 * a) - 1
  OBVIOUS
<1>4. x = ((16 * a) * p) + ((16 * s) + r)
  <2>1. 16 * q = (16 * (a * p)) + (16 * s)
    BY <1>2
  <2>2. 16 * (a * p) = (16 * a) * p
    OBVIOUS
  <2> QED  BY <1>1, <2>1, <2>2
<1>5. x \div (16 * a) = p
  <2>1. 16 * a \in Nat \ {0}
    OBVIOUS
  <2> QED  BY <2>1, <1>3, <1>4, Remainder
<1> QED  BY <1>1, <1>2, <1>5

(* A number has its digits alone.                                          *)
LEMMA OneValue ==
  ASSUME NEW t, NEW n, NEW v, NEW w, Holds(v, t, n), Holds(w, t, n)
  PROVE  v = w
<1>0. VAL_DIGITS \in Nat /\ VAL_MOD \in Nat \ {0} /\ VAL_MOD = 16 ^ VAL_DIGITS
  BY PowersAssumption, MonitorAssumption DEF VAL_MOD
<1>1. v \in 0..VAL_MOD - 1 /\ w \in 0..VAL_MOD - 1
  BY DEF Holds
<1> DEFINE S == {e \in Nat : v \div 16 ^ (VAL_DIGITS - e) = w \div 16 ^ (VAL_DIGITS - e)}
<1>2. 0 \in S
  <2>1. PICK m \in Nat \ {0} : m = VAL_MOD
    BY <1>0
  <2>2. v \in Nat /\ w \in Nat /\ v < m /\ w < m
    BY <1>1, <2>1
  <2>3. v = (m * 0) + v /\ w = (m * 0) + w /\ v \in 0..m - 1 /\ w \in 0..m - 1
    BY <2>2
  <2>4. v \div m = 0 /\ w \div m = 0
    BY <2>3, Remainder
  <2>5. VAL_DIGITS - 0 = VAL_DIGITS
    BY <1>0
  <2> QED  BY <2>1, <2>4, <2>5, <1>0
<1>3. ASSUME NEW e \in 0..VAL_DIGITS - 1, e \in S PROVE e + 1 \in S
  <2>1. PICK d \in 0..VAL_DIGITS - 1 : d = VAL_DIGITS - (e + 1) /\ d + 1 = VAL_DIGITS - e
    BY <1>0
  <2>2. PICK a \in Nat \ {0} : a = 16 ^ d
    BY <2>1, <1>0, Power
  <2>3. 16 ^ (d + 1) = 16 * a
    BY <2>2, PowersAssumption
  <2>4. v \div (16 * a) = w \div (16 * a)
    BY <1>3, <2>1, <2>3
  <2>5. v \in Nat /\ w \in Nat
    BY <1>0, <1>1
  <2>6. PICK p \in Nat, q \in Nat : p = v \div a /\ q = w \div a
    BY <2>5, DivideBy16Last
  <2>7. p \div 16 = q \div 16
    BY <2>4, <2>5, <2>6, DivideBy16Last
  <2>8. p % 16 = q % 16
    BY <2>2, <2>6 DEF Holds
  <2>9. p = q
    BY <2>7, <2>8
  <2> QED  BY <2>1, <2>2, <2>6, <2>9
<1> HIDE DEF S
<1>4. VAL_DIGITS \in S
  BY <1>0, <1>2, <1>3, Upward
<1>5. v \div 16 ^ 0 = w \div 16 ^ 0
  BY <1>0, <1>4 DEF S
<1>6. v \div 1 = v /\ w \div 1 = w
  BY <1>1, <1>0
<1> QED  BY <1>5, <1>6, PowersAssumption

(* The digit d of a number to which the digit g is put.                    *)
LEMMA DigitPut ==
  ASSUME NEW v \in 0..VAL_MOD - 1, NEW g \in 0..15, NEW d \in 0..VAL_DIGITS - 1
  PROVE  (((16 * v + g) % VAL_MOD) \div 16 ^ d) % 16
           = IF d = 0 THEN g ELSE (v \div 16 ^ (d - 1)) % 16
<1>0. VAL_DIGITS \in Nat \ {0} /\ VAL_DIGITS - 1 \in 0..VAL_DIGITS - 1
  BY PowersAssumption
<1>1. PICK high \in Nat \ {0} : high = 16 ^ (VAL_DIGITS - 1)
  BY <1>0, Power
<1>2. VAL_MOD = 16 * high
  <2>1. 16 ^ ((VAL_DIGITS - 1) + 1) = 16 * 16 ^ (VAL_DIGITS - 1)
    BY <1>0, PowersAssumption
  <2>2. (VAL_DIGITS - 1) + 1 = VAL_DIGITS
    BY <1>0
  <2> QED  BY <2>1, <2>2, <1>1 DEF VAL_MOD
<1>3. v \in Nat
  BY <1>2
<1>4. PICK c \in Int, u \in 0..high - 1 : v = (high * c) + u
  <2>1. v \div high \in Int /\ v % high \in 0..high - 1
        /\ v = (high * (v \div high)) + (v % high)
    BY <1>3, Divided
  <2> QED  BY <2>1, Zenon
<1>5. (16 * v + g) % VAL_MOD = (16 * u) + g
  <2>1. (16 * u) + g \in 0..(16 * high) - 1
    BY <1>4
  <2>2. 16 * v + g = ((16 * high) * c) + ((16 * u) + g)
    BY <1>4
  <2>3. PICK m \in Nat \ {0} : m = 16 * high
    OBVIOUS
  <2>4. PICK r \in 0..m - 1 : r = (16 * u) + g
    BY <2>1, <2>3
  <2>5. ((m * c) + r) % m = r
    BY Remainder
  <2>6. VAL_MOD = m /\ 16 * v + g = (m * c) + r
    BY <1>2, <2>2, <2>3, <2>4
  <2> QED  BY <2>4, <2>5, <2>6, Zenon
<1>6. PICK x \in Nat : x = (16 * u) + g
  BY <1>4
<1>7. CASE d = 0
  <2>1. x \div 1 = x /\ x % 16 = g
    BY <1>4, <1>6
  <2> QED  BY <1>5, <1>6, <1>7, <2>1, PowersAssumption
<1>8. CASE d # 0
  <2>1. PICK b \in 0..VAL_DIGITS - 2 : b = d - 1 /\ b + 1 = d
    BY <1>0, <1>8
  <2>2. PICK a \in Nat \ {0} : a = 16 ^ b
    BY <1>0, <2>1, Power
  <2>3. 16 ^ d = 16 * a
    BY <1>0, <2>1, <2>2, PowersAssumption
  <2>4. x \div (16 * a) = u \div a
    <3>1. x \div 16 = u
      BY <1>4, <1>6
    <3> QED  BY <3>1, DivideBy16First
  <2>5. PICK q \in Nat : high = q * (16 * a)
    <3>1. d \in 0..VAL_DIGITS /\ VAL_DIGITS - 1 \in d..VAL_DIGITS
      BY <1>0
    <3>2. \E q \in Nat : 16 ^ (VAL_DIGITS - 1) = q * 16 ^ d
      BY <3>1, Multiple
    <3> QED  BY <3>2, <2>3, <1>1
  <2>6. PICK m \in Int : m = q * c
    OBVIOUS
  <2>7. v = (a * (16 * m)) + u
    <3>1. high * c = (a * 16) * (q * c)
      BY <2>5
    <3>2. (a * 16) * m = a * (16 * m)
      OBVIOUS
    <3> QED  BY <3>1, <3>2, <2>6, <1>4
  <2>8. PICK p \in Int, s \in 0..a - 1 : p = u \div a /\ u = (a * p) + s
    <3>1. u \in Int
      BY <1>4
    <3>2. u \div a \in Int /\ u % a \in 0..a - 1 /\ u = (a * (u \div a)) + (u % a)
      BY <3>1, Divided
    <3> QED  BY <3>2, Zenon
  <2>9. PICK l \in Int : l = (16 * m) + p
    BY <2>6, <2>8
  <2>10. v \div a = (16 * m) + p
    <3>1. a * l = (a * (16 * m)) + (a * p)
      BY <2>9
    <3>2. v = (a * l) + s
      BY <2>7, <2>8, <3>1
    <3>3. ((a * l) + s) \div a = l
      BY Remainder
    <3> QED  BY <2>9, <3>2, <3>3, Zenon
  <2>11. ((16 * m) + p) % 16 = p % 16
    BY Turns
  <2> QED  BY <1>5, <1>6, <1>8, <2>1, <2>2, <2>3, <2>4, <2>8, <2>10, <2>11
<1> QED  BY <1>7, <1>8

(* 0 has no digits, and a digit more is a digit behind those before.       *)
LEMMA NoDigits ==
  ASSUME NEW t
  PROVE  Holds(0, t, 0)
<1>1. ASSUME NEW d \in 0..VAL_DIGITS - 1 PROVE (0 \div 16 ^ d) % 16 = 0 /\ ~(0 > d)
  <2>1. PICK a \in Nat \ {0} : a = 16 ^ d
    BY Power, PowersAssumption
  <2>2. 0 = (a * 0) + 0 /\ 0 \in 0..a - 1
    OBVIOUS
  <2>3. 0 \div a = 0
    BY <2>2, Remainder
  <2> QED  BY <2>1, <2>3, PowersAssumption
<1> QED  BY <1>1, MonitorAssumption DEF Holds

LEMMA OneDigitMore ==
  ASSUME NEW t \in Seq(Chars), NEW n \in Nat, n < Len(t), NEW v,
         Holds(v, t, n), Digit(t[n + 1]) \in 0..15
  PROVE  Holds((16 * v + Digit(t[n + 1])) % VAL_MOD, t, n + 1)
<1>1. PICK g \in 0..15 : g = Digit(t[n + 1])
  OBVIOUS
<1>2. PICK x : x = (16 * v + g) % VAL_MOD
  OBVIOUS
<1>3. v \in 0..VAL_MOD - 1 /\ VAL_MOD \in Nat \ {0}
  BY MonitorAssumption DEF Holds
<1>4. x \in 0..VAL_MOD - 1
  BY <1>2, <1>3, Divided
<1>5. ASSUME NEW d \in 0..VAL_DIGITS - 1
      PROVE  (x \div 16 ^ d) % 16 = IF n + 1 > d THEN Digit(t[(n + 1) - d]) ELSE 0
  <2>1. (x \div 16 ^ d) % 16 = IF d = 0 THEN g ELSE (v \div 16 ^ (d - 1)) % 16
    BY <1>2, <1>3, DigitPut
  <2>2. CASE d = 0
    <3>1. (n + 1) - 0 = n + 1 /\ n + 1 > 0
      OBVIOUS
    <3> QED  BY <2>1, <2>2, <3>1, <1>1
  <2>3. CASE d # 0
    <3>1. PICK b \in 0..VAL_DIGITS - 1 : b = d - 1
      BY <2>3, PowersAssumption
    <3>2. (v \div 16 ^ b) % 16 = IF n > b THEN Digit(t[n - b]) ELSE 0
      BY DEF Holds
    <3>3. n - b = (n + 1) - d /\ (n > b <=> n + 1 > d)
      BY <3>1, PowersAssumption
    <3> QED  BY <2>1, <2>3, <3>1, <3>2, <3>3
  <2> QED  BY <2>2, <2>3
<1> QED  BY <1>1, <1>2, <1>4, <1>5 DEF Holds

-----------------------------------------------------------------------------
(* What is left of a text behind its first n characters.                   *)
LEMMA FromIs ==
  ASSUME NEW t \in Seq(Chars), NEW n \in Nat
  PROVE  /\ From(t, n + 1) \in Seq(Chars)
         /\ Len(From(t, n + 1)) = IF n <= Len(t) THEN Len(t) - n ELSE 0
         /\ \A k \in 1..Len(t) - n : From(t, n + 1)[k] = t[n + k]
  BY DEF From

LEMMA FromWithin ==
  ASSUME NEW t \in Seq(Chars), NEW n \in 0..Len(t), NEW u, u = From(t, n + 1)
  PROVE  /\ u \in Seq(Chars) /\ Len(u) = Len(t) - n
         /\ \A k \in 1..Len(t) - n : u[k] = t[n + k]
<1>1. n \in Nat /\ n <= Len(t)
  OBVIOUS
<1> QED  BY <1>1, FromIs

(* Texts of the same characters are the same.                              *)
LEMMA SameText ==
  ASSUME NEW t \in Seq(Chars), NEW u \in Seq(Chars), Len(t) = Len(u),
         \A k \in 1..Len(t) : t[k] = u[k]
  PROVE  t = u
  OBVIOUS

(* Nothing is left behind the end, all of it behind no character, and what *)
(* is left of what is left is left of the whole.                           *)
LEMMA FromEnd ==
  ASSUME NEW t \in Seq(Chars), NEW n \in Nat, n >= Len(t)
  PROVE  From(t, n + 1) = <<>>
<1>1. PICK m \in Nat : m = n + 1 /\ m > Len(t)
  OBVIOUS
<1>2. SubSeq(t, m, Len(t)) = <<>>
  BY <1>1
<1> QED  BY <1>1, <1>2 DEF From

LEMMA FromAll ==
  ASSUME NEW t \in Seq(Chars)
  PROVE  From(t, 1) = t
  BY DEF From

LEMMA FromFrom ==
  ASSUME NEW t \in Seq(Chars), NEW a \in Nat, NEW b \in Nat
  PROVE  From(From(t, a + 1), b + 1) = From(t, (a + b) + 1)
<1>0. PICK n \in Nat : n = Len(t)
  OBVIOUS
<1>1. PICK c \in Nat : n = Len(t) /\ c = a + b
  BY <1>0
<1>2. PICK u, v, w : u = From(t, a + 1) /\ v = From(u, b + 1) /\ w = From(t, c + 1)
  OBVIOUS
<1>3. CASE a + b <= n
  <2>1. a \in 0..n /\ b \in 0..n - a /\ c \in 0..n
    BY <1>1, <1>3
  <2>2. u \in Seq(Chars) /\ Len(u) = n - a /\ \A k \in 1..n - a : u[k] = t[a + k]
    <3>1. a \in 0..Len(t)
      BY <2>1, <1>1
    <3>2. /\ u \in Seq(Chars) /\ Len(u) = Len(t) - a
          /\ \A k \in 1..Len(t) - a : u[k] = t[a + k]
      BY <3>1, <1>2, FromWithin
    <3> QED  BY <3>2, <1>1
  <2>3. /\ v \in Seq(Chars) /\ Len(v) = (n - a) - b
        /\ \A k \in 1..(n - a) - b : v[k] = u[b + k]
    <3>1. b \in 0..Len(u)
      BY <2>1, <2>2
    <3>2. /\ v \in Seq(Chars) /\ Len(v) = Len(u) - b
          /\ \A k \in 1..Len(u) - b : v[k] = u[b + k]
      BY <3>1, <2>2, <1>2, FromWithin
    <3> QED  BY <3>2, <2>2
  <2>4. w \in Seq(Chars) /\ Len(w) = n - c /\ \A k \in 1..n - c : w[k] = t[c + k]
    BY <2>1, <1>1, <1>2, FromWithin
  <2>5. (n - a) - b = n - c
    BY <1>1
  <2>6. ASSUME NEW k \in 1..n - c PROVE v[k] = w[k]
    <3>1. b + k \in 1..n - a /\ a + (b + k) = c + k
      <4>1. k \in 1..n - (a + b)
        BY <1>1
      <4> QED  BY <4>1, <1>1
    <3>2. u[b + k] = t[a + (b + k)]
      BY <3>1, <2>2
    <3>3. v[k] = u[b + k]
      BY <2>3, <2>5
    <3> QED  BY <3>1, <3>2, <3>3, <2>4
  <2>7. Len(v) = Len(w) /\ \A k \in 1..Len(v) : v[k] = w[k]
    BY <2>3, <2>4, <2>5, <2>6
  <2>8. v = w
    BY <2>3, <2>4, <2>7, SameText
  <2> QED  BY <1>1, <1>2, <2>8
<1>4. CASE a + b > n
  <2>1. w = <<>>
    BY <1>1, <1>2, <1>4, FromEnd
  <2>2. u \in Seq(Chars) /\ b >= Len(u)
    <3>1. CASE a <= n
      <4>1. a \in 0..n
        BY <3>1, <1>1
      <4>2. u \in Seq(Chars) /\ Len(u) = n - a
        BY <4>1, <1>1, <1>2, FromWithin
      <4> QED  BY <4>2, <1>1, <1>4
    <3>2. CASE a > n
      <4>1. a >= Len(t)
        BY <3>2, <1>1
      <4>2. u = <<>>
        BY <4>1, <1>2, FromEnd
      <4> QED  BY <4>2
    <3> QED  BY <3>1, <3>2, <1>1
  <2>3. v = <<>>
    BY <2>2, <1>2, FromEnd
  <2> QED  BY <2>1, <2>3, <1>1, <1>2
<1> QED  BY <1>1, <1>3, <1>4

(* Behind a run of characters of S that does not go on.                    *)
LEMMA BehindIs ==
  ASSUME NEW t \in Seq(Chars), NEW S, NEW n \in Nat, AllIn(t, n, S),
         n < Len(t) => t[n + 1] \notin S
  PROVE  Behind(t, S) = From(t, n + 1)
<1>1. n \in 0..Len(t) /\ \A k \in 1..n : t[k] \in S
  BY DEF AllIn
<1>2. CASE n = Len(t)
  <2>1. ~\E k \in 1..Len(t) : t[k] \notin S
    BY <1>1, <1>2
  <2> QED  BY <2>1, <1>2, FromEnd DEF Behind
<1>3. CASE n # Len(t)
  <2>1. n + 1 \in 1..Len(t) /\ t[n + 1] \notin S
    BY <1>1, <1>3
  <2>2. \A before \in 1..(n + 1) - 1 : t[before] \in S
    BY <1>1
  <2>3. ASSUME NEW k \in 1..Len(t), t[k] \notin S, \A before \in 1..k - 1 : t[before] \in S
        PROVE  k = n + 1
    <3>1. ~(k <= n)
      BY <1>1, <2>3
    <3>2. ~(n + 1 <= k - 1)
      BY <2>1, <2>3
    <3> QED  BY <3>1, <3>2
  <2>4. (CHOOSE k \in 1..Len(t) : t[k] \notin S /\ \A before \in 1..k - 1 : t[before] \in S) = n + 1
    BY <2>1, <2>2, <2>3
  <2> QED  BY <2>1, <2>4 DEF Behind
<1> QED  BY <1>2, <1>3

(* There is one such run, which may be of no character.                    *)
LEMMA Run ==
  ASSUME NEW t \in Seq(Chars), NEW S
  PROVE  \E n \in Nat : /\ AllIn(t, n, S) /\ (n < Len(t) => t[n + 1] \notin S)
                        /\ Behind(t, S) = From(t, n + 1)
<1> DEFINE Others == {k \in 1..Len(t) : t[k] \notin S}
<1>1. CASE Others = {}
  <2>1. PICK n \in Nat : n = Len(t)
    OBVIOUS
  <2>2. AllIn(t, n, S) /\ ~(n < Len(t))
    BY <1>1, <2>1 DEF AllIn
  <2> QED  BY <2>2, BehindIs
<1>2. CASE Others # {}
  <2>1. Others \subseteq Nat
    OBVIOUS
  <2>2. PICK k \in Others : \A other \in Others :
          ~(<<other, k>> \in {ss \in Nat \X Nat : ss[1] < ss[2]})
    BY <1>2, <2>1, NatLess, WFMin
  <2>3. PICK n \in Nat : k = n + 1
    <3>1. k \in 1..Len(t) /\ Len(t) \in Nat
      OBVIOUS
    <3>2. k - 1 \in Nat /\ k = (k - 1) + 1
      BY <3>1
    <3> QED  BY <3>2
  <2>4. n + 1 \in 1..Len(t) /\ t[n + 1] \notin S
    BY <2>3
  <2>5. ASSUME NEW j \in 1..n PROVE t[j] \in S
    <3>1. SUFFICES ASSUME t[j] \notin S PROVE FALSE
      OBVIOUS
    <3>2. j \in Others /\ j < k /\ j \in Nat /\ k \in Nat
      BY <3>1, <2>3, <2>4
    <3> QED  BY <3>2, <2>2
  <2>6. AllIn(t, n, S)
    BY <2>4, <2>5 DEF AllIn
  <2> QED  BY <2>4, <2>6, BehindIs
<1> QED  BY <1>1, <1>2

LEMMA BehindType ==
  ASSUME NEW t \in Seq(Chars), NEW S
  PROVE  Behind(t, S) \in Seq(Chars)
  BY Run, FromIs

(* A number of n digits: what Argument finds of it.                        *)
LEMMA ArgumentIs ==
  ASSUME NEW x \in Seq(Chars), NEW t \in Seq(Chars), t = Behind(x, {"SP"}),
         NEW n \in Nat, AllIn(t, n, HexChars), n < Len(t) => t[n + 1] \notin HexChars,
         NEW v, Holds(v, t, n)
  PROVE  /\ Argument(x).found <=> n > 0
         /\ n > 0 => Argument(x).value = v
         /\ Argument(x).rest = From(t, n + 2)
<1>1. Behind(t, HexChars) = From(t, n + 1)
  BY BehindIs
<1>2. n \in 0..Len(t) /\ Len(From(t, n + 1)) = IF n <= Len(t) THEN Len(t) - n ELSE 0
  BY FromIs DEF AllIn
<1>3. Len(t) - Len(Behind(t, HexChars)) = n
  BY <1>1, <1>2
<1>4. Value(t, n) = v
  <2>1. Value(t, n) = CHOOSE w : Holds(w, t, n)
    BY DEF Value, Holds
  <2>2. Holds(CHOOSE w : Holds(w, t, n), t, n)
    OBVIOUS
  <2> QED  BY <2>1, <2>2, OneValue
<1>5. Argument(x) = [found |-> n > 0, value |-> IF n > 0 THEN Value(t, n) ELSE 0,
                     rest |-> From(t, n + 2)]
  BY <1>3, Zenon DEF Argument
<1>6. PICK f, y, r : /\ f = (n > 0) /\ y = (IF n > 0 THEN Value(t, n) ELSE 0)
                      /\ r = From(t, n + 2)
  OBVIOUS
<1>7. Argument(x) = [found |-> f, value |-> y, rest |-> r]
  BY <1>5, <1>6, Zenon
<1>8. Argument(x).found = f /\ Argument(x).value = y /\ Argument(x).rest = r
  BY <1>7
<1> QED  BY <1>4, <1>6, <1>8, Zenon

-----------------------------------------------------------------------------
(* No two rows of the table have the same name.                            *)
LEMMA RowsDiffer ==
  ASSUME NEW k \in DOMAIN commands, NEW j \in DOMAIN commands,
         commands[k][1] = commands[j][1], commands[k][2] = commands[j][2]
  PROVE  k = j
<1>1. k \in 1..30 /\ j \in 1..30
  BY DEF commands
<1> QED  BY <1>1, SMTT(60) DEF commands

(* A text of two.                                                          *)
LEMMA TwoOf ==
  ASSUME NEW S, NEW u \in Seq(S), Len(u) = 2
  PROVE  u = <<u[1], u[2]>>
<1>1. DOMAIN u = 1..2
  OBVIOUS
<1>2. u = [n \in 1..2 |-> u[n]]
  BY <1>1
<1>3. [n \in 1..2 |-> u[n]] = <<u[1], u[2]>>
  OBVIOUS
<1> QED  BY <1>2, <1>3

LEMMA FirstTwo ==
  ASSUME NEW S, NEW t \in Seq(S), Len(t) >= 2
  PROVE  SubSeq(t, 1, 2) = <<t[1], t[2]>>
<1>1. PICK u \in Seq(S) : u = SubSeq(t, 1, 2) /\ Len(u) = 2 /\ u[1] = t[1] /\ u[2] = t[2]
  <2>1. SubSeq(t, 1, 2) \in Seq(S) /\ Len(SubSeq(t, 1, 2)) = 2
    OBVIOUS
  <2>2. SubSeq(t, 1, 2)[1] = t[1]
    OBVIOUS
  <2>3. SubSeq(t, 1, 2)[2] = t[2]
    OBVIOUS
  <2> QED  BY <2>1, <2>2, <2>3
<1> QED  BY <1>1, TwoOf

(* The row of a command is of two characters and a number of arguments.    *)
LEMMA RowName ==
  ASSUME NEW k \in DOMAIN commands
  PROVE  /\ SubSeq(commands[k], 1, 2) = <<commands[k][1], commands[k][2]>>
         /\ commands[k][3] \in {0, 1, 2}
<1>1. k \in 1..30
  BY DEF commands
<1>2. commands[k][3] \in {0, 1, 2}
  BY <1>1, SMTT(60) DEF commands
<1>3. commands[k] = <<commands[k][1], commands[k][2], commands[k][3]>>
  BY <1>1, SMTT(60) DEF commands
<1>4. ASSUME NEW a, NEW b, NEW c PROVE SubSeq(<<a, b, c>>, 1, 2) = <<a, b>>
  <2>1. PICK s : s = <<a, b, c>>
    OBVIOUS
  <2>2. s \in Seq({a, b, c}) /\ Len(s) = 3 /\ s[1] = a /\ s[2] = b
    BY <2>1
  <2>3. SubSeq(s, 1, 2) = <<s[1], s[2]>>
    BY <2>2, FirstTwo
  <2> QED  BY <2>1, <2>2, <2>3
<1> QED  BY <1>2, <1>3, <1>4

(* What a line means, told by the row of the table that has its name.      *)
LEMMA MeantRow ==
  ASSUME NEW t0 \in Seq(Chars), NEW t, t = Behind(t0, {"SP"}), Len(t) >= 2,
         NEW k \in Rows, commands[k][1] = t[1], commands[k][2] = t[2],
         NEW name, name = <<t[1], t[2]>>,
         NEW a1, a1 = Argument(From(t, 3)), NEW a2, a2 = Argument(a1.rest)
  PROVE  /\ commands[k][3] = 0 => Meant(t0) = <<name, <<>> >>
         /\ commands[k][3] = 1 /\ a1.found => Meant(t0) = <<name, <<a1.value>> >>
         /\ commands[k][3] = 1 /\ ~a1.found => Meant(t0) = <<>>
         /\ commands[k][3] = 2 /\ a1.found /\ a2.found =>
              Meant(t0) = <<name, <<a1.value, a2.value>> >>
         /\ commands[k][3] = 2 /\ ~(a1.found /\ a2.found) => Meant(t0) = <<>>
<1> DEFINE c == {j \in Rows : Len(t) >= 2 /\ SubSeq(commands[j], 1, 2) = SubSeq(t, 1, 2)}
<1>1. t \in Seq(Chars) /\ SubSeq(t, 1, 2) = name
  BY BehindType, FirstTwo
<1>2. Rows \subseteq DOMAIN commands
  BY DEF Rows
<1>3. k \in c
  BY <1>1, <1>2, RowName
<1>4. ASSUME NEW j \in c PROVE j = k
  <2>1. <<commands[j][1], commands[j][2]>> = <<t[1], t[2]>>
    BY <1>1, <1>2, RowName
  <2> QED  BY <2>1, <1>2, RowsDiffer
<1>5. (CHOOSE j \in c : TRUE) = k
  BY <1>3, <1>4
<1>6. PICK n : n = commands[k][3]
  OBVIOUS
<1>7. Meant(t0) = CASE c = {} -> <<>>
                    [] c # {} /\ n = 0 -> <<name, <<>> >>
                    [] c # {} /\ n = 1 /\ a1.found -> <<name, <<a1.value>> >>
                    [] c # {} /\ n = 2 /\ a1.found /\ a2.found ->
                         <<name, <<a1.value, a2.value>> >>
                    [] OTHER -> <<>>
  BY <1>1, <1>5, <1>6, Zenon DEF Meant
<1>8. c # {}
  BY <1>3
<1> HIDE DEF c
<1>9. Meant(t0) = CASE n = 0 -> <<name, <<>> >>
                    [] n = 1 /\ a1.found -> <<name, <<a1.value>> >>
                    [] n = 2 /\ a1.found /\ a2.found -> <<name, <<a1.value, a2.value>> >>
                    [] OTHER -> <<>>
  BY <1>7, <1>8
<1> QED  BY <1>6, <1>9

LEMMA MeantNone ==
  ASSUME NEW t0 \in Seq(Chars), NEW t, t = Behind(t0, {"SP"}),
         Len(t) >= 2 => ~\E k \in Rows : commands[k][1] = t[1] /\ commands[k][2] = t[2]
  PROVE  Meant(t0) = <<>>
<1> DEFINE c == {j \in Rows : Len(t) >= 2 /\ SubSeq(commands[j], 1, 2) = SubSeq(t, 1, 2)}
<1>1. t \in Seq(Chars)
  BY BehindType
<1>2. Rows \subseteq DOMAIN commands
  BY DEF Rows
<1>3. ASSUME NEW j \in c PROVE FALSE
  <2>1. SubSeq(t, 1, 2) = <<t[1], t[2]>>
    BY <1>1, FirstTwo
  <2>2. <<commands[j][1], commands[j][2]>> = <<t[1], t[2]>>
    BY <2>1, <1>2, RowName
  <2> QED  BY <2>2
<1>4. c = {}
  BY <1>3
<1> QED  BY <1>4, Zenon DEF Meant

-----------------------------------------------------------------------------
(* What a line means is a matter of the line and of the board.             *)
LEMMA MeaningSame ==
  ASSUME shown' = shown, board' = board
  PROVE  Rows' = Rows /\ Named' = Named /\ Meant(shown)' = Meant(shown)
<1>1. Rows' = Rows
  BY DEF Rows
<1>2. Named' = Named
  BY DEF Named
<1>3. Meant(shown)' = Meant(shown)
  BY <1>1 DEF Meant
<1> QED  BY <1>1, <1>2, <1>3

(* A step that leaves the line alone, and stays where it is or goes to     *)
(* where nothing is said of the line, keeps what is said of it.            *)
LEMMA MeantKept ==
  ASSUME MeantInv, UNCHANGED <<text, parsing, board>>,
         \/ pc' = pc
         \/ pc # "hex" /\ pc' \notin Parsing \cup {"call", "illegal"}
  PROVE  MeantInv'
<1>1. /\ UNCHANGED <<buf, i, shown, pos, stage, cmd, val, valid, args>>
      /\ Rows' = Rows /\ Named' = Named /\ Meant(shown)' = Meant(shown)
  BY MeaningSame DEF text, parsing, arguments
<1>2. EchoInv'
  BY <1>1 DEF MeantInv, EchoInv
<1>3. Left' = Left /\ ArgText' = ArgText
  BY <1>1 DEF Left, ArgText
<1>4. CASE pc' = pc
  <2>1. NameInv'
    BY <1>1, <1>3, <1>4 DEF MeantInv, NameInv
  <2>2. Known' = Known
    BY <1>1 DEF Known
  <2>3. ArgumentInv'
    BY <1>1, <1>3, <1>4, <2>2 DEF MeantInv, ArgumentInv
  <2>4. CommandMeant'
    BY <1>1, <1>4 DEF MeantInv, CommandMeant
  <2> QED  BY <1>2, <2>1, <2>3, <2>4 DEF MeantInv
<1>5. CASE pc # "hex" /\ pc' \notin Parsing \cup {"call", "illegal"}
  <2>1. val' = 0 /\ valid' = FALSE
    BY <1>1, <1>5 DEF MeantInv, ArgumentInv
  <2>2. NameInv' /\ ArgumentInv' /\ CommandMeant'
    BY <1>5, <2>1 DEF Parsing, NameInv, ArgumentInv, CommandMeant
  <2> QED  BY <1>2, <2>2 DEF MeantInv
<1> QED  BY <1>4, <1>5

(* A line that is forgotten means nothing any more.                        *)
LEMMA MeantForgotten ==
  ASSUME Forget, pc' \notin Parsing \cup {"call", "illegal"}
  PROVE  MeantInv'
<1>1. shown' = <<>> /\ i' = 0 /\ val' = 0 /\ valid' = FALSE
  BY DEF Forget
<1>2. EchoInv'
  BY <1>1 DEF EchoInv
<1>3. NameInv' /\ ArgumentInv' /\ CommandMeant'
  BY <1>1 DEF Parsing, NameInv, ArgumentInv, CommandMeant
<1> QED  BY <1>2, <1>3 DEF MeantInv

(* uart_gets puts into buf what it shows.                                  *)
LEMMA GetsMeant ==
  ASSUME IInv, MeantInv, Gets
  PROVE  MeantInv'
<1>1. CASE Cancelled
  BY <1>1, MeantForgotten DEF Cancelled, Parsing
<1>2. CASE LineFull
  BY <1>2, MeantKept DEF LineFull, InLine, outside, Parsing, At
<1>3. CASE Echo
  <2>1. /\ pc = "got_char" /\ pc' = "gets" /\ val' = val /\ valid' = valid
        /\ buf' = [buf EXCEPT ![i] = ch] /\ i' = i + 1 /\ shown' = Append(shown, ch)
    BY <1>3 DEF Echo, At, InLine, parsing, arguments
  <2>2. /\ ch \in Chars /\ i \in 0..BUFLEN - 1 /\ buf \in [0..BUFLEN - 1 -> Chars]
        /\ shown \in Seq(Chars) /\ Len(shown) = i /\ \A k \in 1..i : buf[k - 1] = shown[k]
    BY <2>1 DEF IInv, CharOK, BufOK, MeantInv, EchoInv
  <2>3. shown' \in Seq(Chars) /\ Len(shown') = i'
    BY <2>1, <2>2
  <2>4. ASSUME NEW k \in 1..i' PROVE buf'[k - 1] = shown'[k]
    <3>1. CASE k = i + 1
      <4>1. shown'[k] = ch /\ k - 1 = i
        BY <3>1, <2>1, <2>2
      <4> QED  BY <4>1, <2>1, <2>2
    <3>2. CASE k # i + 1
      <4>1. k \in 1..i /\ k - 1 # i /\ k - 1 \in 0..BUFLEN - 1
        <5>1. k \in 1..i + 1
          BY <2>1
        <5> QED  BY <5>1, <3>2, <2>2, MonitorAssumption
      <4>2. shown'[k] = shown[k]
        BY <4>1, <2>1, <2>2
      <4> QED  BY <4>1, <4>2, <2>1, <2>2
    <3> QED  BY <3>1, <3>2
  <2>5. EchoInv'
    BY <2>3, <2>4 DEF EchoInv
  <2>6. NameInv' /\ ArgumentInv' /\ CommandMeant'
    BY <2>1 DEF MeantInv, NameInv, ArgumentInv, CommandMeant
  <2> QED  BY <2>5, <2>6 DEF MeantInv
<1>4. CASE UartGetchar \/ LineEnds
  <2>1. /\ pc \in {"gets", "got_char"} /\ pc' \in {"gets", "got_char", "got_line"}
        /\ UNCHANGED <<buf, i, shown, val, valid>>
    BY <1>4 DEF UartGetchar, Gives, LineEnds, At, InLine, parsing, arguments
  <2>2. EchoInv'
    BY <2>1 DEF MeantInv, EchoInv
  <2>3. NameInv' /\ ArgumentInv' /\ CommandMeant'
    BY <2>1 DEF MeantInv, NameInv, ArgumentInv, CommandMeant
  <2> QED  BY <2>2, <2>3 DEF MeantInv
<1> QED  BY <1>1, <1>2, <1>3, <1>4 DEF Gets

-----------------------------------------------------------------------------
(* What is left of the line is len characters, the first of them buf[pos]. *)
LEMMA LeftIs ==
  ASSUME IInv, EchoInv, pc \in Parsing
  PROVE  /\ pos \in Nat /\ len \in Nat /\ pos + len = Len(shown) /\ shown \in Seq(Chars)
         /\ Left \in Seq(Chars) /\ Len(Left) = len
         /\ \A k \in 1..len : Left[k] = buf[pos + (k - 1)]
<1>1. pos \in Nat /\ len \in Nat /\ pos + len = i
  BY DEF IInv, ParseOK
<1>2. shown \in Seq(Chars) /\ Len(shown) = i /\ \A k \in 1..i : buf[k - 1] = shown[k]
  BY DEF EchoInv
<1>3. /\ Left \in Seq(Chars) /\ Len(Left) = len
      /\ \A k \in 1..Len(shown) - pos : Left[k] = shown[pos + k]
  <2>1. PICK p \in 0..Len(shown) : p = pos /\ len = Len(shown) - p
    BY <1>1, <1>2
  <2>2. Left = From(shown, p + 1)
    BY <2>1 DEF Left
  <2> QED  BY <1>2, <2>1, <2>2, FromWithin
<1>4. ASSUME NEW k \in 1..len PROVE Left[k] = buf[pos + (k - 1)]
  <2>1. PICK m \in 1..i : m = pos + k
    BY <1>1
  <2>2. Left[k] = shown[m] /\ m - 1 = pos + (k - 1)
    BY <1>1, <1>2, <1>3, <2>1
  <2> QED  BY <1>2, <2>2
<1> QED  BY <1>1, <1>2, <1>3, <1>4

(* A step past n characters.                                               *)
LEMMA LeftTaken ==
  ASSUME shown \in Seq(Chars), shown' = shown, pos \in Nat, NEW n \in Nat, pos' = pos + n
  PROVE  Left' = From(Left, n + 1)
<1>1. From(Left, n + 1) = From(shown, (pos + n) + 1)
  BY FromFrom DEF Left
<1> QED  BY <1>1 DEF Left

(* A character more that is in S.                                          *)
LEMMA OneMore ==
  ASSUME NEW t \in Seq(Chars), NEW S, NEW n \in Nat, AllIn(t, n, S),
         NEW left, left = From(t, n + 1), Len(left) >= 1, left[1] \in S
  PROVE  AllIn(t, n + 1, S) /\ n < Len(t) /\ t[n + 1] = left[1]
<1>1. n \in 0..Len(t) /\ \A k \in 1..n : t[k] \in S
  BY DEF AllIn
<1>2. Len(left) = Len(t) - n /\ \A k \in 1..Len(t) - n : left[k] = t[n + k]
  BY <1>1, FromWithin
<1>3. n < Len(t) /\ t[n + 1] = left[1]
  BY <1>1, <1>2
<1> QED  BY <1>1, <1>3 DEF AllIn

(* The run of characters of S ends here.                                   *)
LEMMA NoMore ==
  ASSUME NEW t \in Seq(Chars), NEW S, NEW n \in Nat, AllIn(t, n, S),
         NEW left, left = From(t, n + 1), Len(left) >= 1 => left[1] \notin S
  PROVE  /\ n < Len(t) => t[n + 1] \notin S
         /\ Behind(t, S) = left
<1>1. n \in 0..Len(t)
  BY DEF AllIn
<1>2. Len(left) = Len(t) - n /\ \A k \in 1..Len(t) - n : left[k] = t[n + k]
  BY <1>1, FromWithin
<1>3. n < Len(t) => t[n + 1] \notin S
  BY <1>1, <1>2
<1> QED  BY <1>3, BehindIs

(* The texts of the arguments are texts.                                   *)
LEMMA ArgumentType ==
  ASSUME NEW x \in Seq(Chars)
  PROVE  Argument(x).rest \in Seq(Chars)
<1>1. PICK t \in Seq(Chars) : t = Behind(x, {"SP"})
  BY BehindType
<1>2. PICK n \in Int : n = Len(t) - Len(Behind(t, HexChars)) /\ n >= 0
  <2>1. PICK m \in Nat : m \in 0..Len(t) /\ Behind(t, HexChars) = From(t, m + 1)
    BY Run DEF AllIn
  <2>2. Len(Behind(t, HexChars)) = Len(t) - m
    BY <2>1, FromWithin
  <2> QED  BY <2>1, <2>2
<1>3. Argument(x).rest = From(t, n + 2)
  BY <1>1, <1>2 DEF Argument
<1>4. From(t, (n + 1) + 1) \in Seq(Chars)
  BY <1>2, FromIs
<1>5. (n + 1) + 1 = n + 2
  BY <1>2
<1> QED  BY <1>3, <1>4, <1>5

LEMMA TextTypes ==
  ASSUME EchoInv
  PROVE  Named \in Seq(Chars) /\ From(Named, 3) \in Seq(Chars) /\ ArgText \in Seq(Chars)
<1>1. Named \in Seq(Chars)
  BY BehindType DEF EchoInv, Named
<1>2. From(Named, 3) \in Seq(Chars)
  <2>1. From(Named, 2 + 1) \in Seq(Chars)
    BY <1>1, FromIs
  <2>2. 2 + 1 = 3
    OBVIOUS
  <2> QED  BY <2>1, <2>2
<1> QED  BY <1>1, <1>2, ArgumentType DEF ArgText

-----------------------------------------------------------------------------
(* The steps of parse(), one by one.                                       *)
LEMMA ParseFrame ==
  ASSUME IInv, EchoInv, Parses, pos' \in Nat
  PROVE  /\ shown' = shown /\ Rows' = Rows /\ Named' = Named /\ Meant(shown)' = Meant(shown)
         /\ EchoInv'
         /\ args' = args => ArgText' = ArgText
<1>1. UNCHANGED <<shown, buf, i, board>>
  BY DEF Parses, text, outside
<1>2. Rows' = Rows /\ Named' = Named /\ Meant(shown)' = Meant(shown)
  BY <1>1, MeaningSame
<1>3. EchoInv'
  BY <1>1 DEF EchoInv
<1> QED  BY <1>1, <1>2, <1>3 DEF ArgText

(* A line is about to be parsed.                                           *)
LEMMA LineMeant ==
  ASSUME IInv, ArgsInv, MeantInv, Line
  PROVE  MeantInv'
<1>1. /\ pc = "got_line" /\ pc' \in {"gets", "eat"}
      /\ UNCHANGED <<pos, stage, cmd, val, valid, args, buf, i, shown, board>>
  BY DEF Line, At, arguments, text, outside
<1>2. stage = 0 /\ pos = 0 /\ val = 0 /\ valid = FALSE
  BY <1>1 DEF ArgsInv, Unparsed, IInv, StartOK, MeantInv, ArgumentInv
<1>3. EchoInv'
  BY <1>1 DEF MeantInv, EchoInv
<1>4. AllIn(shown, 0, {"SP"})
  BY DEF AllIn, MeantInv, EchoInv
<1>5. NameInv' /\ ArgumentInv' /\ CommandMeant'
  BY <1>1, <1>2, <1>4 DEF NameInv, ArgumentInv, CommandMeant
<1> QED  BY <1>3, <1>5 DEF MeantInv

(* One space more; and the end of the spaces.                              *)
LEMMA EatMeant ==
  ASSUME IInv, MeantInv, EatSpace
  PROVE  MeantInv'
<1>1. /\ pc = "eat" /\ pc' = "eat" /\ buf[pos] = "SP" /\ Take(1)
      /\ UNCHANGED <<stage, cmd, val, valid, args>> /\ Parses
  BY DEF EatSpace, At, arguments
<1>2. len >= 1 /\ pos' = pos + 1
  BY <1>1, SpaceInText DEF Take
<1>3. /\ pos \in Nat /\ len \in Nat /\ pos + len = Len(shown) /\ shown \in Seq(Chars)
      /\ Left \in Seq(Chars) /\ Len(Left) = len
      /\ \A k \in 1..len : Left[k] = buf[pos + (k - 1)]
  BY <1>1, LeftIs DEF Parsing, MeantInv
<1>4. Left[1] = "SP" /\ Len(Left) >= 1
  <2>1. 1 \in 1..len /\ pos + (1 - 1) = pos
    BY <1>2, <1>3
  <2> QED  BY <2>1, <1>1, <1>2, <1>3
<1>5. /\ shown' = shown /\ Rows' = Rows /\ Named' = Named /\ Meant(shown)' = Meant(shown)
      /\ EchoInv' /\ ArgText' = ArgText
  BY <1>1, <1>2, <1>3, ParseFrame DEF MeantInv
<1>6. NameInv'
  <2>1. CASE stage = 0
    <3>1. AllIn(shown, pos, {"SP"}) /\ Left = From(shown, pos + 1)
      BY <1>1, <2>1 DEF MeantInv, NameInv, Left
    <3>2. AllIn(shown, pos + 1, {"SP"})
      BY <3>1, <1>3, <1>4, OneMore
    <3> QED  BY <1>1, <1>2, <1>5, <3>2 DEF NameInv
  <2>2. CASE stage # 0
    BY <1>1, <2>2 DEF NameInv
  <2> QED  BY <2>1, <2>2
<1>7. ArgumentInv'
  <2>1. val' = 0 /\ valid' = FALSE
    BY <1>1 DEF MeantInv, ArgumentInv
  <2>2. CASE stage = 0
    BY <1>1, <2>1, <2>2 DEF ArgumentInv
  <2>3. CASE stage # 0
    <3>1. Known' /\ (args # <<>> => /\ Argument(From(Named, 3)).found
                                    /\ args = <<Argument(From(Named, 3)).value>>)
      BY <1>1, <1>5, <2>3 DEF MeantInv, ArgumentInv, Known
    <3>2. PICK n \in Nat : AllIn(ArgText, n, {"SP"}) /\ Left = From(ArgText, n + 1)
      BY <1>1, <2>3 DEF MeantInv, ArgumentInv
    <3>3. ArgText \in Seq(Chars)
      BY TextTypes DEF MeantInv
    <3>4. AllIn(ArgText, n + 1, {"SP"})
      BY <3>2, <3>3, <1>4, OneMore
    <3>5. Left' = From(ArgText, (n + 1) + 1)
      <4>1. Left' = From(Left, 1 + 1)
        BY <1>2, <1>3, <1>5, LeftTaken
      <4> QED  BY <4>1, <3>2, <3>3, FromFrom
    <3>6. n + 1 \in Nat
      BY <3>2
    <3> QED  BY <1>1, <1>5, <2>1, <3>1, <3>4, <3>5, <3>6 DEF ArgumentInv
  <2> QED  BY <2>2, <2>3
<1>8. CommandMeant'
  BY <1>1 DEF CommandMeant
<1> QED  BY <1>5, <1>6, <1>7, <1>8 DEF MeantInv

LEMMA NoSpaceMeant ==
  ASSUME IInv, ArgsInv, MeantInv, NoSpace
  PROVE  MeantInv'
<1>1. /\ pc = "eat" /\ buf[pos] # "SP" /\ pc' = IF stage = 0 THEN "find" ELSE "hex"
      /\ UNCHANGED <<pos, stage, cmd, val, valid, args>> /\ Parses
  BY DEF NoSpace, At, arguments
<1>2. /\ pos \in Nat /\ len \in Nat /\ pos + len = Len(shown) /\ shown \in Seq(Chars)
      /\ Left \in Seq(Chars) /\ Len(Left) = len
      /\ \A k \in 1..len : Left[k] = buf[pos + (k - 1)]
  BY <1>1, LeftIs DEF Parsing, MeantInv
<1>3. Len(Left) >= 1 => Left[1] \notin {"SP"}
  <2>1. pos + (1 - 1) = pos
    BY <1>2
  <2> QED  BY <2>1, <1>1, <1>2
<1>4. /\ shown' = shown /\ Rows' = Rows /\ Named' = Named /\ Meant(shown)' = Meant(shown)
      /\ EchoInv' /\ ArgText' = ArgText
  BY <1>1, <1>2, ParseFrame DEF MeantInv
<1>5. Left' = Left
  BY <1>1, <1>4 DEF Left
<1>6. val = 0 /\ valid = FALSE
  BY <1>1 DEF MeantInv, ArgumentInv
<1>7. NameInv'
  <2>1. CASE stage = 0
    <3>1. AllIn(shown, pos, {"SP"}) /\ Left = From(shown, pos + 1)
      BY <1>1, <2>1 DEF MeantInv, NameInv, Left
    <3>2. Named = Left
      BY <3>1, <1>2, <1>3, NoMore DEF Named
    <3> QED  BY <1>1, <1>4, <1>5, <2>1, <3>2 DEF NameInv
  <2>2. CASE stage # 0
    BY <1>1, <2>2 DEF NameInv
  <2> QED  BY <2>1, <2>2
<1>8. ArgumentInv'
  <2>1. CASE stage = 0
    BY <1>1, <1>6, <2>1 DEF ArgumentInv
  <2>2. CASE stage # 0
    <3>1. Known' /\ (args # <<>> => /\ Argument(From(Named, 3)).found
                                    /\ args = <<Argument(From(Named, 3)).value>>)
      BY <1>1, <1>4, <2>2 DEF MeantInv, ArgumentInv, Known
    <3>2. PICK n \in Nat : AllIn(ArgText, n, {"SP"}) /\ Left = From(ArgText, n + 1)
      BY <1>1, <2>2 DEF MeantInv, ArgumentInv
    <3>3. ArgText \in Seq(Chars)
      BY TextTypes DEF MeantInv
    <3>4. Behind(ArgText, {"SP"}) = Left
      BY <3>2, <3>3, <1>3, NoMore
    <3>5. PICK t \in Seq(Chars) : t = Behind(ArgText, {"SP"}) /\ t = Left
      BY <3>4, <1>2
    <3>6. AllIn(t, 0, HexChars) /\ Left = From(t, 0 + 1) /\ Holds(0, t, 0)
      BY <3>5, FromAll, NoDigits DEF AllIn
    <3>7. valid <=> 0 > 0
      BY <1>6
    <3>8. \E m \in Nat : /\ AllIn(t, m, HexChars) /\ Left = From(t, m + 1)
                         /\ (valid <=> m > 0) /\ Holds(val, t, m)
      BY <3>6, <3>7, <1>6
    <3>9. LET u == Behind(ArgText, {"SP"}) IN
          \E m \in Nat : /\ AllIn(u, m, HexChars) /\ Left = From(u, m + 1)
                         /\ (valid <=> m > 0) /\ Holds(val, u, m)
      BY <3>5, <3>8
    <3> QED  BY <1>1, <1>4, <1>5, <2>2, <3>1, <3>9 DEF ArgumentInv
  <2> QED  BY <2>1, <2>2
<1>9. CommandMeant'
  BY <1>1 DEF CommandMeant
<1> QED  BY <1>4, <1>7, <1>8, <1>9 DEF MeantInv

(* One digit more: the number so far is that of the digits so far.         *)
LEMMA DigitMeant ==
  ASSUME IInv, ArgsInv, MeantInv, HexDigit
  PROVE  MeantInv'
<1>1. /\ pc = "hex" /\ pc' = "hex" /\ len > 0 /\ IsHex(buf[pos]) /\ Take(1) /\ valid' = TRUE
      /\ val' = (16 * val + Digit(buf[pos])) % VAL_MOD
      /\ UNCHANGED <<stage, cmd, args>> /\ Parses
  BY DEF HexDigit, At
<1>2. /\ pos \in Nat /\ len \in Nat /\ pos + len = Len(shown) /\ shown \in Seq(Chars)
      /\ Left \in Seq(Chars) /\ Len(Left) = len
      /\ \A k \in 1..len : Left[k] = buf[pos + (k - 1)]
  BY <1>1, LeftIs DEF Parsing, MeantInv
<1>3. PICK c \in Chars : c = buf[pos] /\ Left[1] = c /\ Len(Left) >= 1 /\ pos' = pos + 1
  <2>1. 1 \in 1..len /\ pos + (1 - 1) = pos
    BY <1>1, <1>2
  <2>2. Left[1] = buf[pos] /\ Len(Left) >= 1
    BY <2>1, <1>1, <1>2
  <2>3. Left[1] \in Chars
    BY <2>2, <1>2
  <2> QED  BY <2>2, <2>3, <1>1 DEF Take
<1>4. c \in HexChars /\ Digit(c) \in 0..15
  BY <1>1, <1>3 DEF HexChars, IsHex, Digit, DigitsOf
<1>5. /\ shown' = shown /\ Rows' = Rows /\ Named' = Named /\ Meant(shown)' = Meant(shown)
      /\ EchoInv' /\ ArgText' = ArgText
  BY <1>1, <1>2, <1>3, ParseFrame DEF MeantInv
<1>6. stage # 0
  BY <1>1 DEF ArgsInv
<1>7. Known' /\ (args # <<>> => /\ Argument(From(Named, 3)).found
                                /\ args = <<Argument(From(Named, 3)).value>>)
  BY <1>1, <1>5, <1>6 DEF MeantInv, ArgumentInv, Known
<1>8. PICK t \in Seq(Chars) : t = Behind(ArgText, {"SP"})
  BY TextTypes, BehindType DEF MeantInv
<1>9. PICK n \in Nat : /\ AllIn(t, n, HexChars) /\ Left = From(t, n + 1)
                       /\ (valid <=> n > 0) /\ Holds(val, t, n)
  BY <1>1, <1>8 DEF MeantInv, ArgumentInv
<1>10. AllIn(t, n + 1, HexChars) /\ n < Len(t) /\ t[n + 1] = c
  BY <1>3, <1>4, <1>9, OneMore
<1>11. Holds(val', t, n + 1)
  BY <1>1, <1>3, <1>4, <1>9, <1>10, OneDigitMore
<1>12. Left' = From(t, (n + 1) + 1)
  <2>1. Left' = From(Left, 1 + 1)
    BY <1>2, <1>3, <1>5, LeftTaken
  <2> QED  BY <2>1, <1>9, FromFrom
<1>13. n + 1 \in Nat /\ n + 1 > 0
  BY <1>9
<1>14. \E m \in Nat : /\ AllIn(t, m, HexChars) /\ Left' = From(t, m + 1)
                      /\ (valid' <=> m > 0) /\ Holds(val', t, m)
  BY <1>1, <1>10, <1>11, <1>12, <1>13
<1>15. ArgumentInv'
  BY <1>1, <1>5, <1>7, <1>8, <1>14 DEF ArgumentInv
<1>16. NameInv' /\ CommandMeant'
  BY <1>1 DEF NameInv, CommandMeant
<1> QED  BY <1>5, <1>15, <1>16 DEF MeantInv

(* The row that is found has the name that is meant, and no other has; and *)
(* without one the line means nothing.                                     *)
LEMMA FindMeant ==
  ASSUME IInv, ArgsInv, MeantInv, FindCommand
  PROVE  MeantInv'
<1> DEFINE least == CHOOSE k \in Matching : \A other \in Matching : k <= other
<1>1. /\ pc = "find" /\ len >= 2 /\ Matching # {} /\ Take(2) /\ Parses
      /\ cmd' = <<commands[least][1], commands[least][2]>>
      /\ pc' = IF commands[least][3] = 0 THEN "call" ELSE "eat"
      /\ stage' = commands[least][3] /\ UNCHANGED <<val, valid, args>>
  BY DEF FindCommand, At
<1>2. least \in Matching
  BY <1>1, FirstRow
<1>3. PICK k \in Rows : k = least /\ buf[pos] = commands[k][1] /\ buf[pos + 1] = commands[k][2]
  BY <1>2 DEF Matching
<1> HIDE DEF least
<1>4. /\ pos \in Nat /\ len \in Nat /\ pos + len = Len(shown) /\ shown \in Seq(Chars)
      /\ Left \in Seq(Chars) /\ Len(Left) = len
      /\ \A n \in 1..len : Left[n] = buf[pos + (n - 1)]
  BY <1>1, LeftIs DEF Parsing, MeantInv
<1>5. args = <<>> /\ val = 0 /\ valid = FALSE /\ Left = Named /\ pos' = pos + 2
  BY <1>1 DEF ArgsInv, Unparsed, MeantInv, ArgumentInv, NameInv, Take
<1>6. Len(Named) >= 2 /\ commands[k][1] = Named[1] /\ commands[k][2] = Named[2]
  <2>1. 1 \in 1..len /\ 2 \in 1..len /\ pos + (1 - 1) = pos /\ pos + (2 - 1) = pos + 1
    BY <1>1, <1>4
  <2>2. Left[1] = buf[pos] /\ Left[2] = buf[pos + 1]
    BY <2>1, <1>4
  <2> QED  BY <2>2, <1>1, <1>3, <1>4, <1>5
<1>7. /\ shown' = shown /\ Rows' = Rows /\ Named' = Named /\ Meant(shown)' = Meant(shown)
      /\ EchoInv'
  BY <1>1, <1>4, <1>5, ParseFrame DEF MeantInv
<1>8. NameInv'
  <2>1. pc' = "eat" => stage' # 0
    BY <1>1
  <2> QED  BY <1>1, <2>1 DEF NameInv
<1>9. Left' = From(ArgText', 0 + 1) /\ AllIn(ArgText', 0, {"SP"})
  <2>1. Left' = From(Left, 2 + 1)
    BY <1>4, <1>5, <1>7, LeftTaken
  <2>2. Left' = From(Named, 3)
    BY <2>1, <1>5
  <2>3. ArgText' = From(Named, 3)
    BY <1>1, <1>5, <1>7 DEF ArgText
  <2>4. From(Named, 3) \in Seq(Chars)
    BY TextTypes DEF MeantInv
  <2> QED  BY <2>2, <2>3, <2>4, FromAll DEF AllIn
<1>10. Known'
  <2>1. commands[k][3] \in Nat
    BY RowArity DEF Rows
  <2>2. commands[k][3] = Len(args') + stage'
    <3>1. args' = <<>> /\ Len(<<>>) = 0
      BY <1>1, <1>5
    <3>2. stage' = commands[k][3]
      BY <1>1, <1>3
    <3>3. 0 + commands[k][3] = commands[k][3]
      BY <2>1
    <3> QED  BY <3>1, <3>2, <3>3
  <2>3. cmd' = <<Named[1], Named[2]>>
    BY <1>1, <1>3, <1>6
  <2> QED  BY <1>6, <1>7, <2>2, <2>3 DEF Known
<1>11. ArgumentInv'
  <2>1. \E n \in Nat : AllIn(ArgText', n, {"SP"}) /\ Left' = From(ArgText', n + 1)
    BY <1>9
  <2>2. val' = 0 /\ valid' = FALSE /\ args' = <<>> /\ pc' # "hex"
    BY <1>1, <1>5
  <2> QED  BY <1>10, <2>1, <2>2 DEF ArgumentInv
<1>12. CommandMeant'
  <2>1. ASSUME pc' = "call" PROVE Meant(shown) = <<cmd', args'>>
    <3>1. commands[k][3] = 0
      BY <2>1, <1>1, <1>3
    <3>2. PICK name : name = <<Named[1], Named[2]>>
      OBVIOUS
    <3>3. PICK a1, a2 : a1 = Argument(From(Named, 3)) /\ a2 = Argument(a1.rest)
      OBVIOUS
    <3>4. shown \in Seq(Chars) /\ Named = Behind(shown, {"SP"})
      BY <1>4 DEF Named
    <3>5. Meant(shown) = <<name, <<>> >>
      BY <3>1, <3>2, <3>3, <3>4, <1>6, MeantRow
    <3> QED  BY <3>2, <3>5, <1>1, <1>3, <1>5, <1>6
  <2> QED  BY <2>1, <1>1, <1>7 DEF CommandMeant
<1> QED  BY <1>7, <1>8, <1>11, <1>12 DEF MeantInv

LEMMA NoCommandMeant ==
  ASSUME IInv, ArgsInv, MeantInv, NoCommand
  PROVE  MeantInv'
<1>1. /\ pc = "find" /\ pc' = "illegal" /\ (len >= 2 => Matching = {}) /\ Parses
      /\ UNCHANGED <<pos, val, valid>>
  BY DEF NoCommand, At, parsing, arguments
<1>2. /\ pos \in Nat /\ len \in Nat /\ pos + len = Len(shown) /\ shown \in Seq(Chars)
      /\ Left \in Seq(Chars) /\ Len(Left) = len
      /\ \A n \in 1..len : Left[n] = buf[pos + (n - 1)]
  BY <1>1, LeftIs DEF Parsing, MeantInv
<1>3. Left = Named /\ val = 0 /\ valid = FALSE
  BY <1>1 DEF MeantInv, ArgumentInv, NameInv
<1>4. /\ Meant(shown)' = Meant(shown) /\ EchoInv'
  BY <1>1, <1>2, ParseFrame DEF MeantInv
<1>5. Len(Named) >= 2 => ~\E k \in Rows : commands[k][1] = Named[1] /\ commands[k][2] = Named[2]
  <2>1. SUFFICES ASSUME len >= 2, NEW k \in Rows,
                        commands[k][1] = Named[1], commands[k][2] = Named[2]
                 PROVE  FALSE
    BY <1>2, <1>3
  <2>2. 1 \in 1..len /\ 2 \in 1..len /\ pos + (1 - 1) = pos /\ pos + (2 - 1) = pos + 1
    BY <2>1, <1>2
  <2>3. Named[1] = buf[pos] /\ Named[2] = buf[pos + 1]
    BY <2>2, <1>2, <1>3
  <2>4. k \in Matching
    BY <2>1, <2>3 DEF Matching
  <2> QED  BY <2>1, <2>4, <1>1
<1>6. Meant(shown) = <<>>
  BY <1>2, <1>5, MeantNone DEF Named
<1>7. NameInv' /\ ArgumentInv' /\ CommandMeant'
  BY <1>1, <1>3, <1>4, <1>6 DEF NameInv, ArgumentInv, CommandMeant
<1> QED  BY <1>4, <1>7 DEF MeantInv

(* What is appended is the last.                                           *)
LEMMA AppendIs ==
  ASSUME NEW S, NEW l \in Seq(S), NEW z \in S, NEW n \in Nat, Len(l) = n
  PROVE  /\ Append(l, z) \in Seq(S) /\ Len(Append(l, z)) = n + 1
         /\ Append(l, z)[n + 1] = z
         /\ \A k \in 1..n : Append(l, z)[k] = l[k]
  OBVIOUS

LEMMA AppendSecond ==
  ASSUME NEW S, NEW l \in Seq(S), Len(l) = 1, NEW z \in S
  PROVE  Append(l, z) = <<l[1], z>>
<1>1. PICK u \in Seq(S) : u = Append(l, z) /\ Len(u) = 2 /\ u[1] = l[1] /\ u[2] = z
  <2>0. PICK u : u = Append(l, z)
    OBVIOUS
  <2>1. PICK n \in Nat : n = Len(l) /\ n = 1
    OBVIOUS
  <2>2. u \in Seq(S) /\ Len(u) = n + 1 /\ u[n + 1] = z /\ \A k \in 1..n : u[k] = l[k]
    BY <2>0, <2>1, AppendIs
  <2>3. 1 \in 1..n /\ n + 1 = 2
    BY <2>1
  <2> QED  BY <2>0, <2>2, <2>3
<1> QED  BY <1>1, TwoOf

(* The end of a number: its argument is found if there was a digit, its    *)
(* value is that of the digits, and what is left is behind one character.  *)
LEMMA HexEndsMeant ==
  ASSUME IInv, ArgsInv, MeantInv, HexEnds
  PROVE  MeantInv'
<1>1. /\ pc = "hex" /\ (len > 0 => ~IsHex(buf[pos])) /\ NumberEnds /\ Parses
      /\ (len > 0 => Take(1)) /\ (~(len > 0) => pos' = pos)
  <2>1. ASSUME len > 0 PROVE Take(1)
    BY <2>1 DEF HexEnds
  <2>2. ASSUME ~(len > 0) PROVE pos' = pos
    BY <2>2 DEF HexEnds
  <2>3. pc = "hex" /\ (len > 0 => ~IsHex(buf[pos])) /\ NumberEnds
    BY DEF HexEnds, At
  <2> QED  BY <2>1, <2>2, <2>3 DEF NumberEnds
<1>2. val' = 0 /\ valid' = FALSE /\ cmd' = cmd
  BY <1>1 DEF NumberEnds
<1>3. /\ pos \in Nat /\ len \in Nat /\ pos + len = Len(shown) /\ shown \in Seq(Chars)
      /\ Left \in Seq(Chars) /\ Len(Left) = len
      /\ \A k \in 1..len : Left[k] = buf[pos + (k - 1)]
  BY <1>1, LeftIs DEF Parsing, MeantInv
<1>4. Len(Left) >= 1 => Left[1] \notin HexChars
  <2>1. pos + (1 - 1) = pos
    BY <1>3
  <2> QED  BY <2>1, <1>1, <1>3 DEF HexChars
<1>5. pos' \in Nat
  BY <1>1, <1>3 DEF Take
<1>6. /\ shown' = shown /\ Rows' = Rows /\ Named' = Named /\ Meant(shown)' = Meant(shown)
      /\ EchoInv'
  BY <1>1, <1>5, ParseFrame DEF MeantInv
<1>7. /\ stage # 0 /\ stage \in Nat /\ args \in Seq(Nat) /\ val \in Nat
  BY <1>1 DEF ArgsInv
<1>8. PICK one : one = Argument(From(Named, 3))
  OBVIOUS
<1>9. Known /\ (args # <<>> => one.found /\ args = <<one.value>>)
  BY <1>1, <1>7, <1>8 DEF MeantInv, ArgumentInv
<1>10. PICK x \in Seq(Chars), t \in Seq(Chars) : x = ArgText /\ t = Behind(ArgText, {"SP"})
  BY TextTypes, BehindType DEF MeantInv
<1>11. PICK n \in Nat : /\ AllIn(t, n, HexChars) /\ Left = From(t, n + 1)
                        /\ (valid <=> n > 0) /\ Holds(val, t, n)
  BY <1>1, <1>10 DEF MeantInv, ArgumentInv
<1>12. PICK a : a = Argument(x) /\ (a.found <=> n > 0) /\ (n > 0 => a.value = val)
                /\ a.rest = From(t, n + 2)
  <2>1. n < Len(t) => t[n + 1] \notin HexChars
    BY <1>4, <1>11, NoMore
  <2> QED  BY <2>1, <1>10, <1>11, ArgumentIs
<1>13. a.found <=> valid
  BY <1>11, <1>12
<1>14. valid => a.value = val
  BY <1>11, <1>12
<1>15. Left' = a.rest
  <2>1. n + 2 = (n + 1) + 1
    BY <1>11
  <2>2. CASE len > 0
    <3>1. pos' = pos + 1
      BY <1>1, <2>2 DEF Take
    <3>2. Left' = From(Left, 1 + 1)
      BY <3>1, <1>3, <1>6, LeftTaken
    <3>3. From(From(t, n + 1), 1 + 1) = From(t, (n + 1) + 1)
      <4>1. n + 1 \in Nat
        BY <1>11
      <4>2. From(From(t, n + 1), 1 + 1) = From(t, (n + 1) + 1)
        BY <1>10, <1>11, FromFrom
      <4> QED  BY <4>2
    <3> QED  BY <3>2, <3>3, <2>1, <1>11, <1>12
  <2>3. CASE ~(len > 0)
    <3>1. Left' = Left /\ Len(Left) = 0
      BY <2>3, <1>1, <1>3, <1>6 DEF Left
    <3>2. Left = <<>>
      BY <3>1, <1>3
    <3>3. n \in 0..Len(t)
      BY <1>11 DEF AllIn
    <3>4. Len(t) - n = 0
      BY <3>1, <3>3, <1>10, <1>11, FromWithin
    <3>5. n + 1 \in Nat /\ n + 1 >= Len(t)
      BY <3>3, <3>4
    <3>6. From(t, (n + 1) + 1) = <<>>
      BY <3>5, <1>10, FromEnd
    <3> QED  BY <2>1, <3>1, <3>2, <3>6, <1>12
  <2> QED  BY <2>2, <2>3
<1>16. PICK k \in Rows :
          /\ Len(Named) >= 2 /\ commands[k][1] = Named[1] /\ commands[k][2] = Named[2]
          /\ cmd = <<Named[1], Named[2]>> /\ commands[k][3] = Len(args) + stage
  BY <1>9 DEF Known
<1>17. shown \in Seq(Chars) /\ Named = Behind(shown, {"SP"}) /\ commands[k][3] \in {0, 1, 2}
  BY <1>3, RowName DEF Named, Rows
<1>18. PICK two : two = Argument(one.rest)
  OBVIOUS
<1>19. /\ commands[k][3] = 1 /\ one.found => Meant(shown) = <<cmd, <<one.value>> >>
       /\ commands[k][3] = 1 /\ ~one.found => Meant(shown) = <<>>
       /\ commands[k][3] = 2 /\ one.found /\ two.found =>
            Meant(shown) = <<cmd, <<one.value, two.value>> >>
       /\ commands[k][3] = 2 /\ ~(one.found /\ two.found) => Meant(shown) = <<>>
  <2>1. PICK name : name = <<Named[1], Named[2]>>
    OBVIOUS
  <2>2. /\ commands[k][3] = 1 /\ one.found => Meant(shown) = <<name, <<one.value>> >>
        /\ commands[k][3] = 1 /\ ~one.found => Meant(shown) = <<>>
        /\ commands[k][3] = 2 /\ one.found /\ two.found =>
             Meant(shown) = <<name, <<one.value, two.value>> >>
        /\ commands[k][3] = 2 /\ ~(one.found /\ two.found) => Meant(shown) = <<>>
    BY <2>1, <1>8, <1>16, <1>17, <1>18, MeantRow
  <2> QED  BY <2>1, <2>2, <1>16, Zenon
<1>20. \/ /\ args = <<>> /\ Len(args) = 0 /\ a = one
          /\ commands[k][3] = stage /\ stage \in {1, 2}
       \/ /\ args = <<one.value>> /\ Len(args) = 1 /\ one.found /\ a = two
          /\ commands[k][3] = 2 /\ stage = 1
  <2>1. CASE args = <<>>
    <3>1. x = From(Named, 3) /\ Len(args) = 0
      BY <2>1, <1>10 DEF ArgText
    <3>2. commands[k][3] = stage /\ stage \in {1, 2}
      <4>1. commands[k][3] = stage
        BY <3>1, <1>7, <1>16
      <4> QED  BY <4>1, <1>7, <1>17
    <3> QED  BY <2>1, <3>1, <3>2, <1>8, <1>12
  <2>2. CASE args # <<>>
    <3>1. args = <<one.value>> /\ one.found /\ x = one.rest
      BY <2>2, <1>8, <1>9, <1>10 DEF ArgText
    <3>2. Len(args) = 1
      BY <3>1
    <3>3. commands[k][3] = 2 /\ stage = 1
      BY <3>2, <1>7, <1>16, <1>17
    <3> QED  BY <3>1, <3>2, <3>3, <1>12, <1>18
  <2> QED  BY <2>1, <2>2
<1>21. CASE ~valid
  <2>1. pc' = "illegal" /\ args' = args /\ stage' = stage
    BY <1>1, <1>21 DEF NumberEnds
  <2>2. Meant(shown) = <<>>
    BY <1>13, <1>16, <1>19, <1>20, <1>21
  <2>3. NameInv' /\ ArgumentInv' /\ CommandMeant'
    BY <2>1, <2>2, <1>2, <1>6 DEF NameInv, ArgumentInv, CommandMeant
  <2> QED  BY <2>3, <1>6 DEF MeantInv
<1>22. CASE valid
  <2>1. args' = Append(args, val) /\ stage' = stage - 1
        /\ pc' = IF stage = 1 THEN "call" ELSE "eat"
    BY <1>1, <1>22 DEF NumberEnds
  <2>2. a.found /\ a.value = val
    BY <1>13, <1>14, <1>22
  <2>3. CASE stage = 1
    <3>1. pc' = "call" /\ stage' = 0
      BY <2>1, <2>3
    <3>2. Meant(shown) = <<cmd, args'>>
      <4>1. CASE args = <<>> /\ a = one /\ commands[k][3] = 1
        <5>1. args' = <<val>>
          BY <4>1, <2>1
        <5> QED  BY <5>1, <4>1, <2>2, <1>19
      <4>2. CASE args = <<one.value>> /\ one.found /\ a = two /\ commands[k][3] = 2
        <5>1. PICK l \in Seq(Nat) : l = args /\ Len(l) = 1 /\ l[1] = one.value
          BY <4>2, <1>7
        <5>2. args' = <<l[1], val>>
          BY <5>1, <2>1, <1>7, AppendSecond
        <5> QED  BY <5>1, <5>2, <4>2, <2>2, <1>19
      <4> QED  BY <4>1, <4>2, <2>3, <1>20
    <3>3. NameInv' /\ ArgumentInv' /\ CommandMeant'
      BY <3>1, <3>2, <1>2, <1>6 DEF NameInv, ArgumentInv, CommandMeant
    <3> QED  BY <3>3, <1>6 DEF MeantInv
  <2>4. CASE stage # 1
    <3>1. args = <<>> /\ Len(args) = 0 /\ a = one /\ stage = 2
      BY <2>4, <1>20
    <3>2. pc' = "eat" /\ stage' = 1 /\ args' = <<val>> /\ Len(args') = 1
      BY <3>1, <2>1
    <3>3. Known'
      <4>1. commands[k][3] = Len(args') + stage'
        BY <3>1, <3>2, <1>20
      <4> QED  BY <4>1, <1>2, <1>6, <1>16 DEF Known
    <3>4. ArgText' = one.rest
      <4>1. args' # <<>>
        BY <3>2
      <4> QED  BY <4>1, <1>6, <1>8 DEF ArgText
    <3>5. one.rest \in Seq(Chars)
      BY <1>8, TextTypes, ArgumentType DEF MeantInv
    <3>6. Left' = From(one.rest, 0 + 1) /\ AllIn(one.rest, 0, {"SP"})
      BY <3>1, <3>5, <1>15, FromAll DEF AllIn
    <3>7. \E m \in Nat : AllIn(ArgText', m, {"SP"}) /\ Left' = From(ArgText', m + 1)
      BY <3>4, <3>6
    <3>8. one.found /\ args' = <<one.value>>
      BY <3>1, <3>2, <2>2
    <3>9. ArgumentInv'
      BY <3>2, <3>3, <3>7, <3>8, <1>2, <1>6, <1>8 DEF ArgumentInv
    <3>10. NameInv' /\ CommandMeant'
      BY <3>2 DEF NameInv, CommandMeant
    <3> QED  BY <3>9, <3>10, <1>6 DEF MeantInv
  <2> QED  BY <2>3, <2>4
<1> QED  BY <1>21, <1>22

LEMMA ParseMeant ==
  ASSUME IInv, ArgsInv, MeantInv, Parse
  PROVE  MeantInv'
<1>1. CASE Illegal
  BY <1>1, MeantForgotten DEF Illegal, Parsing
<1> QED  BY <1>1, LineMeant, EatMeant, NoSpaceMeant, FindMeant, NoCommandMeant, DigitMeant,
             HexEndsMeant DEF Parse

LEMMA MeantStep ==
  ASSUME IInv, ArgsInv, MeantInv, [Next]_vars
  PROVE  MeantInv'
<1>1. CASE UNCHANGED vars \/ TakeIrq \/ BeginText \/ Type \/ PressButton \/ TimerFires
  BY <1>1, MeantKept DEF vars, TakeIrq, BeginText, Type, PressButton, TimerFires, Still,
                         text, parsing, arguments, outside
<1>2. CASE Reset
  BY <1>2, MeantForgotten DEF Reset, Parsing
<1>3. CASE Startup \/ Main
  BY <1>3, MeantKept DEF Startup, Main, At, Parsing, outside
<1>4. CASE Command \/ SdReturns
  <2>1. CASE Forget /\ pc' \in {"gets", "trapped"}
    BY <2>1, MeantForgotten DEF Parsing
  <2>2. CASE EraseAllFlash \/ WriteAllFlash \/ CheckAllFlash
    BY <2>2, MeantKept DEF EraseAllFlash, WriteAllFlash, EachPage, CheckAllFlash, Outside, outside
  <2>3. CASE ReadClockLl \/ CycleDelay \/ CountdownTimerTest \/ Watching
    BY <2>3, MeantKept DEF ReadClockLl, CycleDelay, CountdownTimerTest, Watches, Calls, At,
                           Watching, Outside, outside, Parsing
  <2>4. CASE SdCardInit \/ SdDisplayBlock \/ SdSetBlock
    BY <2>4, MeantKept DEF SdCardInit, SdDisplayBlock, SdSetBlock, CallsSd, Calls, At,
                           Outside, outside, Parsing
  <2> QED  BY <1>4, <2>1, <2>2, <2>3, <2>4, CommandEnds
<1> QED  BY <1>1, <1>2, <1>3, <1>4, GetsMeant, ParseMeant DEF Next, Program

(* What is called is what the line that was echoed means, name, number and *)
(* value of the arguments, and a line is refused only if it means nothing  *)
(* (main.c:556 to 684), whatever is typed, for every length of the buffer  *)
(* and every width of an argument.                                         *)
THEOREM CommandMeantAlways == Spec => []CommandMeant
<1> DEFINE MInv == ArgsInv /\ MeantInv
<1>1. Init => MInv
  <2> SUFFICES ASSUME Init
               PROVE  MInv
    OBVIOUS
  <2>1. EchoInv
    BY DEF Init, EchoInv
  <2>2. NameInv /\ ArgumentInv /\ CommandMeant
    BY DEF Init, NameInv, ArgumentInv, CommandMeant
  <2> QED  BY <2>1, <2>2, InitReports DEF MeantInv
<1>2. IInv /\ MInv /\ [Next]_vars => MInv'
  BY ArgsStep, MeantStep
<1>3. MInv => CommandMeant
  BY DEF MeantInv
<1> QED  BY <1>1, <1>2, <1>3, Invariant, PTL DEF Spec

=============================================================================
