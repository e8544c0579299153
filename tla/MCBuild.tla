------------------------------ MODULE MCBuild ------------------------------
(***************************************************************************)
(* The tables as they are.  Two clocks the PLL can make and one it cannot; *)
(* memories of 16 and 32 bytes and programs that fill one or both.         *)
(***************************************************************************)
EXTENDS Build, FiniteSets

T == INSTANCE FreqTables

MCTables == T!freqs
MCScanned == Len(T!freqs_both)

(* Both boards' PLLs can make every row of the table for both: the         *)
(* dividers are in range, the oscillator stays within 500 and 1200 MHz,    *)
(* the frequency is right to 100 Hz, and no row is missing or repeated.    *)
Abs(x) == IF x < 0 THEN -x ELSE x
ASSUME
  LET R == T!freqs_both IN
  /\ \A k \in DOMAIN R :
       /\ R[k][2] \in 0..8 /\ R[k][3] \in 0..62 /\ R[k][4] \in T!ODIVS
       /\ Abs(R[k][1] - T!PllOut(R[k][2], R[k][3])) <= 50
       /\ T!Oscillator(R[k][1], R[k][4]) \in 5000000..12000000
  /\ \A k \in 1..(Len(R) - 1) : R[k][1] < R[k + 1][1]

(* What is computed from the clock fits its counter, for every clock of    *)
(* that table up to 108 MHz, and the UART keeps in step with 115200 baud.  *)
ASSUME
  \A k \in DOMAIN MCTables["BOARD_BOTH"] :
    LET hz == MCTables["BOARD_BOTH"][k][1] IN
    hz <= 108000000 =>
      T!WaveformFits(hz) /\ T!E3_CLKS(hz) < 2^24 /\ T!UartInStep(hz)

=============================================================================
