--------------------------- MODULE ButtonIrq_proofs ---------------------------
(***************************************************************************)
(* Proofs about ButtonIrq.  A press is carried through five places, each   *)
(* one bit wide: a rising edge between two samples, of which there are two *)
(* and never both, the pulse and the pending bit.  The invariant compares  *)
(* the history, what is owed, with how many of these are occupied.  They   *)
(* are equal on a 20K.  On a 9K the reset value of the samples looks like  *)
(* a press, and only NoneLost's half remains.                              *)
(***************************************************************************)
EXTENDS ButtonIrq, TLAPS

Count(b) == IF b THEN 1 ELSE 0
Edge1 == Stable(sig_in_prev1) /\ ~sig_in_prev2
Edge2 == sig_in_prev2 /\ ~sig_in_prev3
Carried == Count(Edge1) + Count(Edge2) + Count(pulse) + Count(irq_pending)

Typed ==
  /\ reset_n \in BOOLEAN /\ pressed \in BOOLEAN
  /\ sig_in_prev1 \in BOOLEAN /\ sig_in_prev2 \in BOOLEAN /\ sig_in_prev3 \in BOOLEAN
  /\ pulse \in BOOLEAN
  /\ irq_pending \in BOOLEAN /\ irq_mask \in BOOLEAN /\ irq_active \in BOOLEAN
  /\ was \in BOOLEAN
  /\ owed \in Nat

(* The reset of edge_finder clears the samples at once.                    *)
ClearedSamples == ~reset_n => ~sig_in_prev1 /\ ~sig_in_prev2 /\ ~sig_in_prev3

(* The first sample is what the button was; only in the first clock after  *)
(* a reset of a 9K it is not, and an edge nobody owes is then carried.     *)
FirstSample ==
  reset_n =>
    \/ Stable(sig_in_prev1) = was
    \/ /\ BOARD = "9K"
       /\ Stable(sig_in_prev1) /\ ~was /\ ~sig_in_prev2 /\ ~sig_in_prev3
       /\ owed < Carried

(* What is owed is carried, and on a 20K what is carried is owed.  A reset *)
(* drops the edges and not the rest.                                       *)
Accounted ==
  /\ owed <= 3
  /\ reset_n => owed <= Carried
  /\ BOARD = "20K" => owed >= Count(pulse) + Count(irq_pending)
  /\ BOARD = "20K" /\ reset_n => owed = Carried

IInv == Typed /\ ClearedSamples /\ FirstSample /\ Accounted

-----------------------------------------------------------------------------
LEMMA InitEstablishes == Init => IInv
<1> SUFFICES ASSUME Init PROVE IInv
  OBVIOUS
<1>1. Typed
  BY DEF Init, Typed
<1>2. ~reset_n /\ ~pulse /\ ~irq_pending /\ ClearedSamples
  BY DEF Init, ClearedSamples
<1>3. owed = 0
  BY DEF Init
<1>4. Accounted
  BY <1>2, <1>3 DEF Accounted, Count
<1> QED  BY <1>1, <1>2, <1>4 DEF IInv, FirstSample

(* The two places for an edge are never occupied both.                     *)
LEMMA CarriedBounds ==
  ASSUME Typed
  PROVE  /\ Carried \in Nat /\ Carried <= 3
         /\ (irq_pending \/ pulse) => Carried > 0
BY DEF Typed, Carried, Count, Edge1, Edge2

(* The samples, the pulse and was, in a clock that is no part of a reset.  *)
LEMMA MoveSamples ==
  ASSUME IInv, Sample, Pulse, was' = (reset_n /\ pressed),
         pressed' \in BOOLEAN, reset_n' \in BOOLEAN
  PROVE  /\ {sig_in_prev1', sig_in_prev2', sig_in_prev3', pulse', was'} \subseteq BOOLEAN
         /\ ClearedSamples'
BY ButtonAssumption
   DEF IInv, Typed, ClearedSamples, Sample, Samples, Pulse, sig_in, Stable

(* What is owed after a clock of the core, and what is pending.            *)
LEMMA OwedAfter ==
  ASSUME IInv, reset_n, NEW delivered \in BOOLEAN, Owe(delivered),
         delivered => irq_pending,
         irq_pending' = (pulse \/ (irq_pending /\ ~delivered))
  PROVE  /\ owed' \in Nat
         /\ owed' = (IF owed < Count(delivered \/ (irq_pending /\ pulse)) THEN 0
                     ELSE owed - Count(delivered \/ (irq_pending /\ pulse)))
                    + Count(Press)
         /\ Count(irq_pending') = Count(irq_pending) + Count(pulse)
                                  - Count(delivered \/ (irq_pending /\ pulse))
<1>1. owed \in Nat /\ owed <= 3 /\ owed <= Carried
  BY DEF IInv, Typed, Accounted
<1> QED  BY <1>1, ButtonAssumption DEF Owe, Count, Press, IInv, Typed, Accounted

(* Every move of the core outside a reset delivers or does not, and keeps  *)
(* what the pulse has made pending.                                        *)
LEMMA CoreMoves ==
  ASSUME IInv, reset_n, Core
  PROVE  \E delivered \in BOOLEAN :
           /\ Owe(delivered)
           /\ delivered => irq_pending
           /\ irq_pending' = (pulse \/ (irq_pending /\ ~delivered))
<1>0. pulse \in BOOLEAN /\ irq_pending \in BOOLEAN
  BY DEF IInv, Typed
<1>1. CASE Deliver
  <2>1. Owe(TRUE) /\ irq_pending /\ irq_pending' = pulse
    BY <1>1 DEF Deliver, Delivering
  <2> QED  BY <1>0, <2>1
<1>2. CASE Run
  <2>1. Owe(FALSE) /\ irq_pending' = (irq_pending \/ pulse)
    BY <1>2 DEF Run, Latch
  <2> QED  BY <1>0, <2>1
<1>3. Deliver \/ Run
  BY DEF Core, CoreReset, EnterOther, RetIrq, MaskIrq, Stay
<1> QED  BY <1>1, <1>2, <1>3

LEMMA CoreTyped ==
  ASSUME IInv, Core
  PROVE  irq_pending' \in BOOLEAN /\ irq_mask' \in BOOLEAN /\ irq_active' \in BOOLEAN
BY DEF IInv, Typed, Core, CoreReset, Deliver, Delivering, EnterOther, RetIrq,
       MaskIrq, Stay, Run, Latch

-----------------------------------------------------------------------------
(* A clock out of reset: each press moves one place on.                    *)
LEMMA CarriedAfter ==
  ASSUME IInv, reset_n, reset_n', Sample, Pulse,
         NEW out \in Nat,
         Count(irq_pending') = Count(irq_pending) + Count(pulse) - out
  PROVE  Carried' = Carried - out + Count(pressed /\ ~Stable(sig_in_prev1))
<1>1. /\ sig_in_prev1' = sig_in /\ sig_in_prev2' = Stable(sig_in_prev1)
      /\ sig_in_prev3' = sig_in_prev2
      /\ pulse' = (~sig_in_prev3 /\ sig_in_prev2)
  BY DEF Sample, Samples, Pulse
<1>2. Stable(sig_in_prev1)' = pressed
  BY <1>1, ButtonAssumption DEF Stable, sig_in, IInv, Typed
<1>3. /\ Count(Edge1)' = Count(pressed /\ ~Stable(sig_in_prev1))
      /\ Count(Edge2)' = Count(Edge1)
      /\ Count(pulse') = Count(Edge2)
  BY <1>1, <1>2 DEF Edge1, Edge2, Count
<1>4. /\ Count(Edge1) \in Nat /\ Count(Edge2) \in Nat /\ Count(pulse) \in Nat
      /\ Count(irq_pending) \in Nat
      /\ Count(pressed /\ ~Stable(sig_in_prev1)) \in Nat
  BY DEF Count
<1> QED  BY <1>3, <1>4 DEF Carried

LEMMA StepOutOfReset ==
  ASSUME IInv, Next, reset_n
  PROVE  FirstSample' /\ Accounted' /\ owed' \in Nat
<1> USE DEF IInv
<1>0. Core /\ Sample /\ Pulse /\ was' = pressed /\ pressed \in BOOLEAN
  BY DEF Next, Edge, Typed
<1> PICK delivered \in BOOLEAN :
           /\ Owe(delivered)
           /\ delivered => irq_pending
           /\ irq_pending' = (pulse \/ (irq_pending /\ ~delivered))
  BY <1>0, CoreMoves
<1> DEFINE out == Count(delivered \/ (irq_pending /\ pulse))
<1>1. /\ owed' \in Nat
      /\ owed' = (IF owed < out THEN 0 ELSE owed - out) + Count(Press)
      /\ Count(irq_pending') = Count(irq_pending) + Count(pulse) - out
  BY OwedAfter
<1>2. /\ out \in Nat /\ Count(Press) \in Nat /\ Count(Press) <= 1
      /\ out <= Count(irq_pending) + Count(pulse)
      /\ out <= Carried
  BY DEF Count, Carried
<1>3. /\ Carried \in Nat /\ Carried <= 3
      /\ owed \in Nat /\ owed <= Carried
      /\ BOARD = "20K" => owed = Carried
  BY CarriedBounds DEF Accounted, Typed
<1> HIDE DEF out
<1>4. CASE reset_n'
  <2>1. Carried' = Carried - out + Count(pressed /\ ~Stable(sig_in_prev1))
    BY <1>0, <1>1, <1>2, <1>4, CarriedAfter
  <2>2. Stable(sig_in_prev1)' = was'
    BY <1>0, <1>4, ButtonAssumption DEF Sample, Samples, Stable, sig_in, Typed
  <2>3. owed' <= Carried' /\ (BOARD = "20K" => owed' = Carried')
    <3>1. CASE Stable(sig_in_prev1) = was
      <4>1. Count(Press) = Count(pressed /\ ~Stable(sig_in_prev1))
        BY <3>1 DEF Press
      <4> QED  BY <1>1, <1>2, <1>3, <2>1, <4>1
    <3>2. CASE BOARD = "9K" /\ Edge1 /\ owed < Carried
      <4>1. Count(pressed /\ ~Stable(sig_in_prev1)) = 0 /\ BOARD # "20K"
        BY <3>2 DEF Count, Edge1
      <4>2. out + 1 <= Carried
        BY <1>2, <3>2 DEF Carried, Count
      <4> QED  BY <1>1, <1>2, <1>3, <2>1, <3>2, <4>1, <4>2
    <3> QED  BY <3>1, <3>2 DEF FirstSample, Edge1
  <2>4. /\ Carried' \in Nat /\ Carried' <= 3
        /\ Carried' >= Count(pulse') + Count(irq_pending')
    BY DEF Carried, Count, Edge1, Edge2
  <2>5. Accounted'
    BY <1>1, <2>3, <2>4 DEF Accounted
  <2> QED
    BY <1>1, <2>2, <2>5 DEF FirstSample
<1>5. CASE ~reset_n'
  <2>1. Carried - out <= 2
    BY DEF Carried, Count, Edge1, Edge2, Typed, out
  <2>2. owed' <= 3
    BY <1>1, <1>2, <1>3, <2>1
  <2>3. Count(pulse') = Count(Edge2)
    BY <1>0 DEF Pulse, Edge2, Count
  <2>4. Count(pulse') + Count(irq_pending') <= Carried - out
    BY <1>1, <1>2, <2>3 DEF Carried, Count
  <2>5. BOARD = "20K" => owed' >= Count(pulse') + Count(irq_pending')
    BY <1>1, <1>2, <1>3, <2>4 DEF Count
  <2> QED
    BY <1>1, <1>5, <2>2, <2>5 DEF FirstSample, Accounted
<1> QED  BY <1>4, <1>5

LEMMA StepInReset ==
  ASSUME IInv, Next, ~reset_n
  PROVE  FirstSample' /\ Accounted' /\ owed' \in Nat
<1>1. /\ ~sig_in_prev1' /\ ~sig_in_prev2' /\ ~sig_in_prev3' /\ ~was'
      /\ pulse' = pulse /\ irq_pending' = pulse
      /\ owed' = IF pulse THEN 2 ELSE 0
  BY DEF IInv, Typed, Next, Edge, Sample, Samples, Pulse, Core, CoreReset, Latch,
         Deliver, Delivering, EnterOther, RetIrq, MaskIrq, Stay, Run
<1>2. owed' = Count(pulse') + Count(irq_pending')
  BY <1>1 DEF Count
<1>3. Count(Edge2)' = 0 /\ Count(Edge1)' = Count(BOARD = "9K")
  BY <1>1, ButtonAssumption DEF Count, Edge1, Edge2, Stable
<1>4. /\ owed' \in Nat /\ owed' <= 3
      /\ Carried' = owed' + Count(BOARD = "9K")
  BY <1>1, <1>2, <1>3 DEF Carried, Count
<1>5. Accounted'
  BY <1>2, <1>4 DEF Accounted, Count
<1>6. CASE BOARD = "20K"
  <2>1. sig_in_prev1' = FALSE /\ was' = FALSE
    BY DEF Next, Edge, Sample, Samples
  <2>2. FirstSample'
    BY <2>1, <1>6 DEF FirstSample, Stable
  <2> QED  BY <1>4, <1>5, <2>2
<1>7. CASE BOARD = "9K"
  <2>1. owed' < Carried' /\ Stable(sig_in_prev1)'
    BY <1>1, <1>4, <1>7 DEF Count, Stable
  <2> QED  BY <1>1, <1>4, <1>5, <1>7, <2>1 DEF FirstSample
<1> QED  BY <1>6, <1>7, ButtonAssumption

-----------------------------------------------------------------------------
LEMMA IInvStep == IInv /\ [Next]_vars => IInv'
<1> SUFFICES ASSUME IInv, [Next]_vars PROVE IInv'
  OBVIOUS
<1>1. CASE Next
  <2>1. Core /\ reset_n' \in BOOLEAN /\ pressed' \in BOOLEAN
        /\ Sample /\ Pulse /\ was' = (reset_n /\ pressed)
    BY <1>1 DEF Next, Edge
  <2>2. FirstSample' /\ Accounted' /\ owed' \in Nat
    BY <1>1, StepOutOfReset, StepInReset
  <2>3. Typed' /\ ClearedSamples'
    BY <2>1, <2>2, MoveSamples, CoreTyped DEF Typed
  <2> QED  BY <2>2, <2>3 DEF IInv
<1>2. CASE UNCHANGED vars
  BY <1>2 DEF vars, samples, IInv, Typed, ClearedSamples, FirstSample, Accounted,
              Carried, Edge1, Edge2, Stable
<1> QED  BY <1>1, <1>2

LEMMA Invariant == Spec => []IInv
BY InitEstablishes, IInvStep, PTL DEF Spec

(* TypeOK, with what the bound on the history hides: no more than three    *)
(* presses are ever on their way, however fast the button bounces, so one  *)
(* more than that is a bound that is never met.                            *)
THEOREM TypeCorrect == Spec => []TypeOK
<1>1. IInv => TypeOK
  BY ButtonAssumption DEF IInv, Typed, Accounted, TypeOK
<1> QED  BY <1>1, Invariant, PTL

(* On either board no press is lost between the samples and the pending    *)
(* bit of the core, whatever the core does about the interrupt.            *)
THEOREM NothingLost == Spec => []NoneLost
<1>1. IInv => NoneLost
  BY DEF IInv, Typed, Accounted, Carried, Count, Edge1, Edge2, NoneLost
<1> QED  BY <1>1, Invariant, PTL

(* On a 20K no interrupt comes without a press, resets included.  (On a 9K *)
(* one does: that is the finding of run button_9k_ghost.)                  *)
THEOREM NoGhostOn20K ==
  ASSUME BOARD = "20K" PROVE Spec => []NoGhost
<1>1. IInv => NoGhost
  BY DEF IInv, Typed, Accounted, Count, NoGhost
<1> QED  BY <1>1, Invariant, PTL

===============================================================================
