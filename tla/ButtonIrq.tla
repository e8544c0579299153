------------------------------ MODULE ButtonIrq ------------------------------
(***************************************************************************)
(* From button S2 to its interrupt: the edge finder (edge_finder.v), bit 3 *)
(* of the interrupt registers of the core (picorv32.v), and software that  *)
(* unmasks it (startup.S, main.c).  A step is a clock edge.  Which of its  *)
(* moves the core makes, and when, is PicoCore's concern; here it makes    *)
(* any.  The button level is arbitrary in every clock, bounces and samples *)
(* that fall on a change included.                                         *)
(***************************************************************************)
EXTENDS Naturals

CONSTANTS
  BOARD,     \* "9K" or "20K"
  MAX_OWED   \* bounds the history owed, and is never met: see TypeOK

ASSUME ButtonAssumption == BOARD \in {"9K", "20K"} /\ MAX_OWED \in Nat /\ MAX_OWED > 3

VARIABLES
  reset_n, pressed,
  sig_in_prev1, sig_in_prev2, sig_in_prev3, pulse,   \* edge_finder
  irq_pending, irq_mask, irq_active,                 \* the core, bit 3
  was,       \* history: pressed in the last sample, not so in a reset
  owed       \* history: presses less interrupts, two that become one pending
             \* interrupt counted as one

samples == <<sig_in_prev1, sig_in_prev2, sig_in_prev3>>
vars == <<reset_n, pressed, samples, pulse, irq_pending, irq_mask, irq_active,
          was, owed>>

(* The pin is low while the button of a 9K is pressed.                     *)
sig_in == IF BOARD = "9K" THEN ~pressed ELSE pressed
Stable(sample) == IF BOARD = "9K" THEN ~sample ELSE sample

Press == reset_n /\ pressed /\ ~was

(* Presses made and interrupts delivered or merged in this clock.          *)
Owe(delivered) ==
  LET new == IF Press THEN 1 ELSE 0
      out == IF delivered \/ (irq_pending /\ pulse) THEN 1 ELSE 0
  IN  owed' = IF owed < out THEN new
              ELSE IF owed - out + new > MAX_OWED THEN MAX_OWED
              ELSE owed - out + new

Samples(a, b, c) == sig_in_prev1' = a /\ sig_in_prev2' = b /\ sig_in_prev3' = c

(* Definitions named Mut.. are mutants: a definition with a bug a careless *)
(* edit of the code could make, used only to see a property refuse it.     *)
MutSampleStable == IF reset_n /\ reset_n'
                   THEN Samples(sig_in, Stable(sig_in_prev1), sig_in_prev1)
                   ELSE Samples(FALSE, FALSE, FALSE)

-----------------------------------------------------------------------------
(* The reset of the samples is asynchronous.                               *)
Sample ==
  IF reset_n /\ reset_n'
  THEN Samples(sig_in, Stable(sig_in_prev1), sig_in_prev2)
  ELSE Samples(FALSE, FALSE, FALSE)

(* pulse is not in the reset branch of the always block.                   *)
Pulse == pulse' = IF reset_n THEN ~sig_in_prev3 /\ sig_in_prev2 ELSE pulse

(* All bits latch: a pulse stays pending while it is masked.               *)
Latch(pending) == irq_pending' = (pending \/ pulse)

(* A pulse that the reset finds up stays up, and is pending besides.       *)
CoreReset ==
  /\ ~reset_n
  /\ Latch(FALSE)
  /\ irq_mask' = TRUE /\ irq_active' = FALSE
  /\ owed' = IF pulse THEN 2 ELSE 0

Delivering(pending) ==
  /\ reset_n
  /\ irq_pending /\ ~irq_mask /\ ~irq_active
  /\ irq_active' = TRUE
  /\ irq_pending' = pending
  /\ Owe(TRUE)
  /\ UNCHANGED irq_mask

MutDeliverKeeps == Delivering(TRUE)
MutDeliverDrops == Delivering(FALSE)

(* The handler is given the interrupt; whatever makes the core enter it,   *)
(* it is given all that are pending and not masked.                        *)
Deliver == Delivering(pulse)

Run ==
  /\ reset_n
  /\ Latch(irq_pending)
  /\ Owe(FALSE)

RetIrq == Run /\ irq_active /\ irq_active' = FALSE /\ UNCHANGED irq_mask

(* Startup unmasks all; the command mi of the monitor may set any mask.    *)
MaskIrq == Run /\ ~irq_active /\ irq_mask' \in BOOLEAN /\ UNCHANGED irq_active

(* The timer or a fault brings software to the handler.                    *)
EnterOther ==
  /\ Run /\ ~irq_active /\ (irq_pending => irq_mask)
  /\ irq_active' = TRUE
  /\ UNCHANGED irq_mask

Stay == Run /\ UNCHANGED <<irq_mask, irq_active>>

Core == CoreReset \/ Deliver \/ EnterOther \/ RetIrq \/ MaskIrq \/ Stay

(* Power-up clears the registers that have no initial value.               *)
Init ==
  /\ reset_n = FALSE
  /\ pressed \in BOOLEAN
  /\ sig_in_prev1 = FALSE /\ sig_in_prev2 = FALSE /\ sig_in_prev3 = FALSE
  /\ pulse = FALSE
  /\ irq_pending = FALSE /\ irq_mask = TRUE /\ irq_active = FALSE
  /\ was = FALSE /\ owed = 0

Edge(core) ==
  /\ core
  /\ reset_n' \in BOOLEAN /\ pressed' \in BOOLEAN
  /\ Sample /\ Pulse
  /\ was' = (reset_n /\ pressed)

Next == Edge(Core)

(* No reset is ever assumed to come.                                       *)
Unreset(core) == Edge(core) /\ (reset_n => reset_n')

(* PicoCore: the core goes on, and takes an interrupt that is let in.      *)
(* irq() in main.c returns.                                                *)
Spec ==
  /\ Init /\ [][Next]_vars
  /\ WF_vars(Unreset(Core)) /\ WF_vars(Unreset(Deliver)) /\ WF_vars(Unreset(RetIrq))

-----------------------------------------------------------------------------
(* No more than three presses are ever on their way at once.               *)
TypeOK ==
  /\ {reset_n, pressed, pulse, irq_pending, irq_mask, irq_active, was} \subseteq BOOLEAN
  /\ {sig_in_prev1, sig_in_prev2, sig_in_prev3} \subseteq BOOLEAN
  /\ owed \in 0 .. MAX_OWED - 1     \* the bound is never met

(* No interrupt without a press: whatever the user does and whenever a     *)
(* reset comes, software counts no more presses than were made.            *)
NoGhost == irq_pending => owed > 0

(* No press is lost on its way: one that is owed an interrupt is pending,  *)
(* or its rising edge is in the samples.                                   *)
NoneLost ==
  reset_n /\ owed > 0 =>
    \/ irq_pending \/ pulse
    \/ (sig_in_prev2 /\ ~sig_in_prev3)
    \/ (Stable(sig_in_prev1) /\ ~sig_in_prev2)

(* A press is answered: while software is not in the handler, one that is  *)
(* owed an interrupt brings it there, unless software masks the interrupt  *)
(* or a reset comes.                                                       *)
PressTaken ==
  (owed > 0 /\ ~irq_active) ~> (irq_active \/ irq_mask \/ ~reset_n)

=============================================================================
