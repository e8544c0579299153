------------------------------- MODULE Timers -------------------------------
(***************************************************************************)
(* Software that reads clocks which run on while it does: readtime_ll()    *)
(* takes the two halves of the cycle counter one after the other,          *)
(* cdt_delay() waits for the countdown timer, and countdown_timer_test()   *)
(* writes parts of it.  A step is an access, some clocks after the last.   *)
(***************************************************************************)
EXTENDS Integers

CONSTANTS
  HALF,        \* values of a half of the cycle counter, 2^32
  BYTE,        \* values of a byte of the countdown timer, 2^8
  STEP_MAX     \* bound: clocks from one access to the next, at most

(* The high half does not move on in two turns of readtime_ll's loop.      *)
ASSUME TimersAssumption ==
  /\ STEP_MAX \in Nat \ {0} /\ HALF \in Nat /\ HALF > 5 * STEP_MAX
  /\ BYTE \in Nat /\ BYTE > STEP_MAX

VARIABLES
  cycle, counter,        \* the two registers
  callee, tpc,           \* the function and where it is; "idle", "done"
  cycles,                \* the argument of cdt_delay
  time_high, time_low,   \* of readtime_ll
  test_errors,           \* of countdown_timer_test
  start, first, elapsed  \* history: the registers at the call, clocks since
timers == <<cycle, counter, callee, tpc, cycles, time_high, time_low, test_errors,
            start, first, elapsed>>

TimersIdle ==
  /\ cycle = 0 /\ counter = 0 /\ callee = "idle" /\ tpc = "idle" /\ cycles = 0
  /\ time_high = 0 /\ time_low = 0 /\ test_errors = {}
  /\ start = 0 /\ first = 0 /\ elapsed = 0

(* A function is called: the registers may hold anything, but what the     *)
(* function does not look at is left out.                                  *)
TimersCall(label, arg, Cycles, Counters) ==
  /\ tpc = "idle"
  /\ callee' = label /\ tpc' = label /\ cycles' = arg
  /\ cycle' \in Cycles /\ start' = cycle'
  /\ counter' \in Counters /\ first' = counter'
  /\ UNCHANGED <<time_high, time_low, test_errors, elapsed>>

TimersLeft ==
  /\ cycle' = 0 /\ counter' = 0 /\ callee' = "idle" /\ tpc' = "idle" /\ cycles' = 0
  /\ time_high' = 0 /\ time_low' = 0 /\ test_errors' = {}
  /\ start' = 0 /\ first' = 0 /\ elapsed' = 0
TimersReturn == tpc = "done" /\ TimersLeft

(* The countdown timer stops at 0.                                         *)
After(n) == IF counter > n THEN counter - n ELSE 0
Elapse(n) == cycle' = (cycle + n) % (HALF * HALF) /\ elapsed' = elapsed + n
TimersKept == UNCHANGED <<callee, cycles, start, first>>

-----------------------------------------------------------------------------
(* readtime_ll: again, if the high half has moved on in between.           *)

ReadHigh(n) ==
  /\ tpc = "rdtimeh"
  /\ time_high' = cycle' \div HALF /\ tpc' = "rdtime"
  /\ counter' = After(n) /\ UNCHANGED <<time_low, test_errors>>

ReadLow(n) ==
  /\ tpc = "rdtime"
  /\ time_low' = cycle' % HALF /\ tpc' = "rdtimeh again"
  /\ counter' = After(n) /\ UNCHANGED <<time_high, test_errors>>

(* Definitions named Mut.. are mutants: a definition with a bug a careless *)
(* edit of the code could make, used only to see a property refuse it.     *)

(* The high half is not read again.                                        *)
MutReadAgain(n) ==
  /\ tpc = "rdtimeh again" /\ tpc' = "done"
  /\ counter' = After(n) /\ UNCHANGED <<time_high, time_low, test_errors>>

ReadAgain(n) ==
  /\ tpc = "rdtimeh again"
  /\ tpc' = IF cycle' \div HALF # time_high THEN "rdtimeh" ELSE "done"
  /\ counter' = After(n) /\ UNCHANGED <<time_high, time_low, test_errors>>

-----------------------------------------------------------------------------
(* cdt_delay.  The access that writes holds the count.                     *)

DelayWrite ==
  /\ tpc = "delay" /\ tpc' = "delaying"
  /\ counter' = cycles
  /\ UNCHANGED <<time_high, time_low, test_errors>>

DelayPoll(n) ==
  /\ tpc = "delaying"
  /\ counter' = After(n)
  /\ tpc' = IF counter' # 0 THEN "delaying" ELSE "done"
  /\ UNCHANGED <<time_high, time_low, test_errors>>

-----------------------------------------------------------------------------
(* countdown_timer_test: the byte on top, then the half on top.            *)

TOP == BYTE * BYTE * BYTE

TestByte3(n) ==
  /\ tpc = "test" /\ tpc' = "test byte3"
  /\ counter' = ((BYTE - 1) * TOP) + (After(n) % TOP)
  /\ UNCHANGED <<time_high, time_low, test_errors>>

CheckByte3(n) ==
  /\ tpc = "test byte3" /\ tpc' = "test half2"
  /\ counter' = After(n)
  /\ test_errors' =
       IF counter' = (BYTE - 1) * TOP \/ counter' < (BYTE - 2) * TOP THEN {1} ELSE {}
  /\ UNCHANGED <<time_high, time_low>>

TestHalf2(n) ==
  /\ tpc = "test half2" /\ tpc' = "test low half"
  /\ counter' = After(n) % (BYTE * BYTE)
  /\ UNCHANGED <<time_high, time_low, test_errors>>

CheckHalf2(n) ==
  /\ tpc = "test low half" /\ tpc' = "done"
  /\ counter' = After(n)
  /\ test_errors' = test_errors \cup (IF counter' > BYTE * BYTE - 1 THEN {2} ELSE {})
  /\ UNCHANGED <<time_high, time_low>>

-----------------------------------------------------------------------------
TimersStep ==
  /\ \/ DelayWrite /\ UNCHANGED <<cycle, elapsed>>
     \/ \E n \in 1..STEP_MAX :
          /\ Elapse(n)
          /\ \/ ReadHigh(n) \/ ReadLow(n) \/ ReadAgain(n)
             \/ DelayPoll(n)
             \/ TestByte3(n) \/ CheckByte3(n) \/ TestHalf2(n) \/ CheckHalf2(n)
  /\ TimersKept

(* What a function reports when it is done: the time is one the counter    *)
(* had during the call, a delay is not shorter than asked for, and the     *)
(* test finds nothing wrong with the countdown timer, unless its lower     *)
(* bytes come to zero between two of the accesses (main.c:152).            *)
TimersTrue ==
  tpc = "done" =>
    /\ callee = "rdtimeh" =>
         (((time_high * HALF) + time_low) - start) % (HALF * HALF) <= elapsed
    /\ callee = "delay" => elapsed >= cycles
    /\ first % TOP \notin 1..(2 * STEP_MAX) => test_errors = {}

=============================================================================
