---------------------------- MODULE UFlash_proofs ----------------------------
(* What holds of the flash controller for every choice of the waits.       *)
EXTENDS UFlash, TLAPS

LEMMA HistoryCap == HISTORY_CAP \in Nat
BY ClksAssumption DEF HISTORY_CAP

LEMMA SequenceLines ==
  ASSUME lines \subseteq Lines, Sequence
  PROVE  lines' \subseteq Lines
<1> USE DEF Lines, Raise, Drop
<1>1. CASE Idle \/ BeginRead \/ BeginWrite \/ BeginErase \/ Unsupported
  BY <1>1 DEF Idle, BeginRead, BeginWrite, BeginErase, Unsupported, ufvars
<1>2. CASE Read1 \/ Read2 \/ Write1 \/ Write5 \/ Done \/ Wait
  BY <1>2 DEF Read1, Read2, Write1, Write5, Done, Wait
<1>3. CASE Erase1 \/ Erase2 \/ Erase3 \/ Erase4 \/ Erase5
  BY <1>3 DEF Erase1, Erase2, Erase3, Erase4, Erase5
<1>4. CASE Write2 \/ Write3 \/ Write4 \/ Write6 \/ Write7
  BY <1>4 DEF Write2, Write3, Write4, Write6, Write7
<1> QED  BY <1>1, <1>2, <1>3, <1>4 DEF Sequence

LEMMA SequenceState ==
  ASSUME uf_state \in UState, cycle_count \in 0 .. CYCLE_MOD - 1, Sequence
  PROVE  uf_state' \in UState /\ cycle_count' \in 0 .. CYCLE_MOD - 1
<1> CYCLE_MOD \in Nat \ {0}
  BY ClksAssumption DEF TimedState
<1> USE DEF UState, TimedState
<1>1. CASE Idle \/ BeginRead \/ BeginWrite \/ BeginErase \/ Unsupported
  BY <1>1 DEF Idle, BeginRead, BeginWrite, BeginErase, Unsupported, Goto,
              ufvars
<1>2. CASE Read1 \/ Read2 \/ Write1 \/ Write5 \/ Done
  BY <1>2 DEF Read1, Read2, Write1, Write5, Done, Goto
<1>3. CASE Erase1 \/ Erase2 \/ Erase3 \/ Erase4 \/ Erase5
  BY <1>3 DEF Erase1, Erase2, Erase3, Erase4, Erase5, Leave
<1>4. CASE Write2 \/ Write3 \/ Write4 \/ Write6 \/ Write7
  BY <1>4 DEF Write2, Write3, Write4, Write6, Write7, Leave
<1>5. CASE Wait
  BY <1>5 DEF Wait
<1> QED  BY <1>1, <1>2, <1>3, <1>4, <1>5 DEF Sequence

(* The history takes no part in what the controller does, but it stays in  *)
(* its range.                                                              *)
LEMMA RememberType ==
  ASSUME since \in [Lines -> 0 .. HISTORY_CAP], Remember
  PROVE  since' \in [Lines -> 0 .. HISTORY_CAP]
BY HistoryCap DEF Remember

(* The registers of the controller stay in their range, whatever the bus   *)
(* presents and whenever the reset line falls.                             *)
LEMMA EdgeType ==
  ASSUME TypeOK, Edge PROVE TypeOK'
<1>1. uf_state' \in UState /\ lines' \subseteq Lines
      /\ cycle_count' \in 0 .. CYCLE_MOD - 1
  <2>1. CASE reset_n /\ reset_n'
    BY <2>1, SequenceState, SequenceLines DEF Edge, TypeOK
  <2>2. CASE ~(reset_n /\ reset_n')
    BY <2>2, ClksAssumption DEF Edge, Clear, UState, TimedState
  <2> QED  BY <2>1, <2>2
<1>2. since' \in [Lines -> 0 .. HISTORY_CAP]
  BY RememberType DEF TypeOK, Edge
<1> QED  BY <1>1, <1>2 DEF TypeOK

(* uflash_controller.v never reaches a state outside its localparams, nor  *)
(* a count outside its 24 bits.                                            *)
THEOREM TypeCorrect == Spec => []TypeOK
<1>1. Init => TypeOK
  BY HistoryCap, ClksAssumption DEF Init, TypeOK, UState, TimedState
<1>2. TypeOK /\ [Tick]_vars => TypeOK'
  <2>1. ASSUME TypeOK, Tick PROVE TypeOK'
    BY <2>1, EdgeType DEF Tick
  <2>2. ASSUME TypeOK, UNCHANGED vars PROVE TypeOK'
    BY <2>2 DEF TypeOK, vars
  <2> QED  BY <2>1, <2>2
<1> QED  BY <1>1, <1>2, PTL DEF Spec

(* Every wait of an erase or a program sequence starts from zero, for all  *)
(* waits: no pulse on the flash is cut short by what ran before it.        *)
THEOREM CountFreshAlways == Spec => []CountFresh
<1>1. Init => CountFresh
  BY DEF Init, CountFresh
<1>2. TypeOK /\ CountFresh /\ [Tick]_vars => CountFresh'
  <2> SUFFICES ASSUME TypeOK, CountFresh, [Tick]_vars PROVE CountFresh'
    OBVIOUS
  <2> USE DEF CountFresh, TypeOK, TimedState
  <2>1. CASE UNCHANGED vars
    BY <2>1 DEF vars
  <2>2. CASE Edge /\ ~(reset_n /\ reset_n')
    BY <2>2 DEF Edge, Clear
  <2>3. CASE Sequence
    <3>1. CASE Idle \/ BeginRead \/ BeginWrite \/ BeginErase \/ Unsupported
      BY <3>1 DEF Idle, BeginRead, BeginWrite, BeginErase, Unsupported, Goto,
                  ufvars
    <3>2. CASE Read1 \/ Read2 \/ Write1 \/ Write5 \/ Done
      BY <3>2 DEF Read1, Read2, Write1, Write5, Done, Goto
    <3>3. CASE Erase1 \/ Erase2 \/ Erase3 \/ Erase4 \/ Erase5
      BY <3>3 DEF Erase1, Erase2, Erase3, Erase4, Erase5, Leave
    <3>4. CASE Write2 \/ Write3 \/ Write4 \/ Write6 \/ Write7
      BY <3>4 DEF Write2, Write3, Write4, Write6, Write7, Leave
    <3>5. CASE Wait
      BY <3>5 DEF Wait
    <3> QED  BY <2>3, <3>1, <3>2, <3>3, <3>4, <3>5 DEF Sequence
  <2> QED  BY <2>1, <2>2, <2>3 DEF Tick, Edge
<1> QED  BY <1>1, <1>2, TypeCorrect, PTL DEF Spec

-----------------------------------------------------------------------------
(* The lines.  Each is high in the states the code leaves it high in, the  *)
(* request stays what it was when the sequence began, and the line whose   *)
(* change began a wait has been where it is for as long as the count says. *)

Erasing == {"ERASE1", "ERASE2", "ERASE3", "ERASE4", "ERASE5"}
Writing == {"WRITE1", "WRITE2", "WRITE3", "WRITE4", "WRITE5", "WRITE6", "WRITE7"}
Reading == {"READ1", "READ2"}

(* After a read the lines are still up in the clock of the answer.         *)
ReadDone == uf_state = "DONE" /\ wstrb = {}

LineStates ==
  /\ "erase" \in lines <=> uf_state \in {"ERASE2", "ERASE3"}
  /\ "prog"  \in lines <=> uf_state \in {"WRITE2", "WRITE3", "WRITE4", "WRITE5"}
  /\ "nvstr" \in lines <=> uf_state \in {"ERASE3", "ERASE4", "WRITE3", "WRITE4",
                                      "WRITE5", "WRITE6"}
  /\ "se"    \in lines <=> uf_state = "READ2"
  /\ "ye"    \in lines <=> uf_state \in {"READ1", "READ2", "WRITE4"} \/ ReadDone
  /\ "xe"    \in lines <=> uf_state \in Erasing \cup Writing \cup Reading \/ ReadDone

Asked ==
  /\ uf_state # "IDLE" => sel /\ reset_n
  /\ uf_state \in Erasing => wstrb = {0}
  /\ uf_state \in Writing => wstrb = Lane
  /\ uf_state \in Reading => wstrb = {}

(* The line that changes when timed state s is entered.                    *)
Entered(s) == IF s \in {"ERASE2", "ERASE4"} THEN "erase"
              ELSE IF s \in {"WRITE2", "WRITE6"} THEN "prog"
              ELSE IF s = "WRITE4" THEN "ye" ELSE "nvstr"

Waited == uf_state \in TimedState => since[Entered(uf_state)] >= cycle_count

LInv == LineStates /\ Asked /\ Waited

(* A sequence under way, or begun in this clock, finds its request up and  *)
(* keeps it.                                                               *)
LEMMA Held ==
  ASSUME Asked, Tick, Sequence, reset_n, uf_state' # "IDLE"
  PROVE  uf_state # "DONE" /\ sel /\ sel' = sel /\ wstrb' = wstrb
<1>1. uf_state # "DONE"
  <2> SUFFICES ASSUME uf_state = "DONE" PROVE FALSE
    OBVIOUS
  <2> QED
    BY DEF Sequence, Idle, BeginRead, BeginWrite, BeginErase, Unsupported,
           Read1, Read2, Erase1, Erase2, Erase3, Erase4, Erase5, Write1, Write2,
           Write3, Write4, Write5, Write6, Write7, Wait, Done, Leave, Goto,
           TimedState
<1>2. uf_state = "IDLE" => sel
  BY DEF Sequence, Idle, BeginRead, BeginWrite, BeginErase, Unsupported,
         Read1, Read2, Erase1, Erase2, Erase3, Erase4, Erase5, Write1, Write2,
         Write3, Write4, Write5, Write6, Write7, Wait, Done, Leave,
         TimedState, ufvars
<1>3. sel
  BY <1>2 DEF Asked
<1> QED  BY <1>1, <1>3 DEF Tick, BusEdge, RequestRaised, RequestHeld, NoRequest, ready

(* The lines after each step of the sequencer.                             *)
LEMMA LineStep ==
  ASSUME TypeOK, LInv, Sequence, uf_state' # "IDLE" => wstrb' = wstrb
  PROVE  LineStates'
<1> USE DEF LInv, LineStates, Asked, ReadDone, Erasing, Writing, Reading, Raise, Drop
<1>0. Lane # {} /\ Lane # {0} /\ {0} # {}
  BY LaneAssumption
<1>1. CASE Idle \/ Done
  BY <1>1 DEF Idle, Done, Goto, ufvars
<1>2. CASE BeginRead \/ BeginWrite \/ BeginErase \/ Unsupported
  BY <1>0, <1>2 DEF BeginRead, BeginWrite, BeginErase, Unsupported, Goto
<1>3. CASE Read1 \/ Read2
  BY <1>0, <1>3 DEF Read1, Read2, Goto
<1>4. CASE Write1 \/ Write5
  BY <1>0, <1>4 DEF Write1, Write5, Goto
<1>5. CASE Erase1 \/ Erase2 \/ Erase3 \/ Erase4 \/ Erase5
  BY <1>0, <1>5 DEF Erase1, Erase2, Erase3, Erase4, Erase5, Leave
<1>6. CASE Write2 \/ Write3 \/ Write4 \/ Write6 \/ Write7
  BY <1>0, <1>6 DEF Write2, Write3, Write4, Write6, Write7, Leave
<1>7. CASE Wait
  BY <1>7 DEF Wait, TimedState
<1> QED  BY <1>1, <1>2, <1>3, <1>4, <1>5, <1>6, <1>7 DEF Sequence

LEMMA AskedStep ==
  ASSUME LInv, Sequence, reset_n',
         uf_state' # "IDLE" => sel' /\ wstrb' = wstrb
  PROVE  Asked'
<1> USE DEF LInv, Asked, Erasing, Writing, Reading
<1>1. CASE Idle \/ Done
  BY <1>1 DEF Idle, Done, Goto, ufvars
<1>2. CASE BeginRead \/ BeginWrite \/ BeginErase \/ Unsupported
  BY <1>2 DEF BeginRead, BeginWrite, BeginErase, Unsupported, Goto
<1>3. CASE Read1 \/ Read2
  BY <1>3 DEF Read1, Read2, Goto
<1>4. CASE Write1 \/ Write5
  BY <1>4 DEF Write1, Write5, Goto
<1>5. CASE Erase1 \/ Erase2 \/ Erase3 \/ Erase4 \/ Erase5
  BY <1>5 DEF Erase1, Erase2, Erase3, Erase4, Erase5, Leave
<1>6. CASE Write2 \/ Write3 \/ Write4 \/ Write6 \/ Write7
  BY <1>6 DEF Write2, Write3, Write4, Write6, Write7, Leave
<1>7. CASE Wait
  BY <1>7 DEF Wait
<1> QED  BY <1>1, <1>2, <1>3, <1>4, <1>5, <1>6, <1>7 DEF Sequence

(* A step that does not wait begins a wait at zero; one that waits adds    *)
(* one to the count and to what is remembered of every line.               *)
LEMMA Begins ==
  ASSUME CountFresh, Sequence, uf_state' \in TimedState
  PROVE  Wait \/ cycle_count' = 0
<1> USE DEF CountFresh, TimedState
<1>1. CASE Idle \/ BeginRead \/ BeginWrite \/ BeginErase \/ Unsupported
  BY <1>1 DEF Idle, BeginRead, BeginWrite, BeginErase, Unsupported, Goto, ufvars
<1>2. CASE Read1 \/ Read2 \/ Write1 \/ Write5 \/ Done
  BY <1>2 DEF Read1, Read2, Write1, Write5, Done, Goto
<1>3. CASE Erase1 \/ Erase2 \/ Erase3 \/ Erase4 \/ Erase5
  BY <1>3 DEF Erase1, Erase2, Erase3, Erase4, Erase5, Leave
<1>4. CASE Write2 \/ Write3 \/ Write4 \/ Write6 \/ Write7
  BY <1>4 DEF Write2, Write3, Write4, Write6, Write7, Leave
<1> QED  BY <1>1, <1>2, <1>3, <1>4 DEF Sequence

LEMMA WaitedStep ==
  ASSUME TypeOK, TypeOK', CountFresh, LInv, Sequence, Remember
  PROVE  Waited'
<1> SUFFICES ASSUME uf_state' \in TimedState
             PROVE  since'[Entered(uf_state')] >= cycle_count'
  BY DEF Waited
<1>1. Entered(uf_state') \in Lines
  BY DEF Entered, Lines
<1>2. CYCLE_MOD \in Nat /\ HISTORY_CAP = CYCLE_MOD
  BY ClksAssumption DEF HISTORY_CAP
<1>3. since'[Entered(uf_state')] \in 0 .. HISTORY_CAP
  BY <1>1 DEF TypeOK
<1>4. CASE cycle_count' = 0
  BY <1>2, <1>3, <1>4
<1>5. CASE Wait
  <2> DEFINE l == Entered(uf_state)
  <2>1. uf_state' = uf_state /\ lines' = lines /\ uf_state \in TimedState
    BY <1>5 DEF Wait
  <2>2. /\ l \in Lines /\ since[l] \in Nat /\ since[l] >= cycle_count
        /\ since'[l] = IF since[l] < HISTORY_CAP THEN since[l] + 1 ELSE since[l]
    BY <1>1, <1>2, <2>1 DEF LInv, Waited, TypeOK, Remember
  <2>3. cycle_count \in Nat /\ cycle_count + 1 < CYCLE_MOD
    BY <1>2, <1>5, ClksAssumption DEF TypeOK, Wait
  <2>4. cycle_count' = cycle_count + 1
    BY <1>2, <1>5, <2>3 DEF Wait
  <2> HIDE DEF l
  <2>5. since'[l] >= cycle_count'
    BY <1>2, <2>2, <2>3, <2>4
  <2> QED  BY <2>1, <2>5 DEF l
<1> QED  BY <1>4, <1>5, Begins

LEMMA LInvStep ==
  ASSUME TypeOK, TypeOK', CountFresh, LInv, [Tick]_vars
  PROVE  LInv'
<1>1. CASE Tick /\ reset_n /\ reset_n'
  <2>1. Sequence /\ Remember
    BY <1>1 DEF Tick, Edge
  <2>2. uf_state' # "IDLE" => sel /\ sel' = sel /\ wstrb' = wstrb
    BY <1>1, <2>1, Held DEF LInv
  <2> QED  BY <1>1, <2>1, <2>2, LineStep, AskedStep, WaitedStep DEF LInv
<1>2. CASE Tick /\ ~(reset_n /\ reset_n')
  <2>1. uf_state' = "IDLE" /\ lines' = {}
    BY <1>2 DEF Tick, Edge, Clear
  <2> QED  BY <2>1 DEF LInv, LineStates, ReadDone, Asked, Waited, Erasing, Writing,
                       Reading, TimedState
<1>3. CASE UNCHANGED vars
  BY <1>3 DEF LInv, LineStates, ReadDone, Asked, Waited, vars
<1> QED  BY <1>1, <1>2, <1>3

LEMMA LinesAlways == Spec => [](TypeOK /\ CountFresh /\ LInv)
<1>1. Init => LInv
  BY DEF Init, LInv, LineStates, ReadDone, Asked, Waited, Erasing, Writing, Reading,
         TimedState
<1>2. TypeOK /\ TypeOK' /\ CountFresh /\ LInv /\ [Tick]_vars => LInv'
  BY LInvStep
<1> QED  BY <1>1, <1>2, TypeCorrect, CountFreshAlways, PTL DEF Spec

(* The flash is never asked for two things at once and its high voltage is *)
(* only up under a selected row, for all waits and whenever a reset comes. *)
THEOREM LinesCompatibleAlways == Spec => []LinesCompatible
<1>1. LInv => LinesCompatible
  BY DEF LInv, LineStates, ReadDone, Erasing, Writing, LinesCompatible
<1> QED  BY <1>1, LinesAlways, PTL

(* While a line is high the request that raised it is up and unchanged:    *)
(* the flash never sees its address or data move.                          *)
THEOREM RequestUnderLinesAlways == Spec => RequestUnderLines
<1>1. TypeOK /\ CountFresh /\ LInv /\ [Tick]_vars => [UnderLines]_vars
  <2> SUFFICES ASSUME TypeOK, LInv, Tick, reset_n, reset_n', lines # {}
               PROVE  sel /\ (lines' # {} => sel' /\ UNCHANGED wstrb)
    BY DEF UnderLines
  <2>1. Sequence
    BY DEF Tick, Edge
  <2>2. uf_state # "IDLE"
    BY DEF LInv, LineStates, ReadDone, Erasing, Writing, Reading, TypeOK, Lines
  <2>3. CASE uf_state' # "IDLE"
    BY <2>1, <2>3, Held DEF LInv
  <2>4. CASE uf_state' = "IDLE"
    <3>1. uf_state = "DONE"
      BY <2>1, <2>2, <2>4
      DEF Sequence, Idle, BeginRead, BeginWrite, BeginErase, Unsupported, Read1,
          Read2, Erase1, Erase2, Erase3, Erase4, Erase5, Write1, Write2, Write3,
          Write4, Write5, Write6, Write7, Wait, Done, Leave, Goto
    <3>2. lines' = {}
      BY <2>1, <3>1
      DEF Sequence, Idle, BeginRead, BeginWrite, BeginErase, Unsupported, Read1,
          Read2, Erase1, Erase2, Erase3, Erase4, Erase5, Write1, Write2, Write3,
          Write4, Write5, Write6, Write7, Wait, Done, Leave, TimedState
    <3> QED  BY <2>2, <3>2 DEF LInv, Asked
  <2> QED  BY <2>3, <2>4
<1> QED  BY <1>1, LinesAlways, PTL DEF RequestUnderLines, Spec

(* What a timed state waits for has been so for its wait when it is left.  *)
LEMMA WaitOver ==
  ASSUME TypeOK, LInv, NEW s \in TimedState, NEW next, Leave(s, next)
  PROVE  since[Entered(s)] + 1 >= CLKS[s]
<1>1. Entered(s) \in Lines
  BY DEF Entered, Lines
<1>2. /\ since[Entered(s)] \in Nat /\ cycle_count \in Nat /\ CLKS[s] \in Nat
      /\ since[Entered(s)] >= cycle_count /\ cycle_count >= CLKS[s]
  BY <1>1, HistoryCap, ClksAssumption DEF TypeOK, LInv, Waited, Leave
<1> QED  BY <1>2

(* No line of the flash changes sooner after the change it follows than    *)
(* the wait computed for it, in an erase or a program, for all waits.      *)
THEOREM LineTimingAlways == Spec => LineTiming
<1>1. TypeOK /\ CountFresh /\ LInv /\ [Tick]_vars => [EraseTimed /\ ProgramTimed]_vars
  <2> SUFFICES ASSUME TypeOK, LInv, Tick, reset_n'
               PROVE  EraseTimed /\ ProgramTimed
    BY DEF EraseTimed, ProgramTimed, Rises, Falls
  <2> USE DEF EraseTimed, ProgramTimed, Rises, Falls, Up, Down
  <2>0. /\ Lane # {} /\ Lane # {0} /\ {0} # {}
        /\ LineStates /\ Asked
    BY LaneAssumption DEF LInv
  <2> USE DEF LineStates, ReadDone, Asked, Erasing, Writing, Reading, Raise, Drop
  <2>1. CASE ~reset_n
    BY <2>0, <2>1 DEF Tick, Edge, Clear
  <2>2. CASE reset_n
    <3>1. Sequence
      BY <2>2 DEF Tick, Edge
    <3>2. CASE Erase2
      <4>1. since["erase"] + 1 >= CLKS["ERASE2"]
        BY <3>2, WaitOver DEF Erase2, TimedState, Entered
      <4> QED  BY <2>0, <3>2, <4>1 DEF Erase2, Leave
    <3>3. CASE Erase3
      <4>1. since["nvstr"] + 1 >= CLKS["ERASE3"]
        BY <3>3, WaitOver DEF Erase3, TimedState, Entered
      <4> QED  BY <2>0, <3>3, <4>1 DEF Erase3, Leave
    <3>4. CASE Erase4
      <4>1. since["erase"] + 1 >= CLKS["ERASE4"]
        BY <3>4, WaitOver DEF Erase4, TimedState, Entered
      <4> QED  BY <2>0, <3>4, <4>1 DEF Erase4, Leave
    <3>5. CASE Erase5
      <4>1. since["nvstr"] + 1 >= CLKS["ERASE5"]
        BY <3>5, WaitOver DEF Erase5, TimedState, Entered
      <4> QED  BY <2>0, <3>5, <4>1 DEF Erase5, Leave
    <3>6. CASE Write2
      <4>1. since["prog"] + 1 >= CLKS["WRITE2"]
        BY <3>6, WaitOver DEF Write2, TimedState, Entered
      <4> QED  BY <2>0, <3>6, <4>1 DEF Write2, Leave
    <3>7. CASE Write3
      <4>1. since["nvstr"] + 1 >= CLKS["WRITE3"]
        BY <3>7, WaitOver DEF Write3, TimedState, Entered
      <4> QED  BY <2>0, <3>7, <4>1 DEF Write3, Leave
    <3>8. CASE Write4
      <4>1. since["ye"] + 1 >= CLKS["WRITE4"]
        BY <3>8, WaitOver DEF Write4, TimedState, Entered
      <4> QED  BY <2>0, <3>8, <4>1 DEF Write4, Leave
    <3>9. CASE Write6
      <4>1. since["prog"] + 1 >= CLKS["WRITE6"]
        BY <3>9, WaitOver DEF Write6, TimedState, Entered
      <4> QED  BY <2>0, <3>9, <4>1 DEF Write6, Leave
    <3>10. CASE Write7
      <4>1. since["nvstr"] + 1 >= CLKS["WRITE7"]
        BY <3>10, WaitOver DEF Write7, TimedState, Entered
      <4> QED  BY <2>0, <3>10, <4>1 DEF Write7, Leave
    <3>11. CASE BeginRead \/ BeginWrite \/ BeginErase \/ Unsupported
      BY <2>0, <3>11 DEF BeginRead, BeginWrite, BeginErase, Unsupported
    <3>12. CASE Read1 \/ Read2 \/ Erase1 \/ Write1 \/ Write5
      BY <2>0, <3>12 DEF Read1, Read2, Erase1, Write1, Write5
    <3>13. CASE Idle \/ Wait \/ Done
      BY <2>0, <3>13 DEF Idle, Wait, Done, ufvars
    <3> QED
      BY <3>1, <3>2, <3>3, <3>4, <3>5, <3>6, <3>7, <3>8, <3>9, <3>10, <3>11, <3>12,
         <3>13 DEF Sequence
  <2> QED  BY <2>1, <2>2
<1> QED  BY <1>1, LinesAlways, PTL DEF LineTiming, Spec

=============================================================================
