------------------------------- MODULE UFlash -------------------------------
(***************************************************************************)
(* uflash_controller.v: the controller between the bus and the user flash  *)
(* of the Tang Nano 9K.  It drives the six control lines of the flash      *)
(* through a read, an erase or a program sequence while the core waits.    *)
(*                                                                         *)
(* A step is a rising clock edge.  Registers with an asynchronous reset    *)
(* hold their reset value after an edge if the line is low on either side  *)
(* of it: while it is low before the edge the flip-flop is held, and when  *)
(* it falls just after the edge the flip-flop is cleared at once.          *)
(***************************************************************************)
EXTENDS Naturals

CONSTANTS
  Lane,        \* the byte lanes of the bus; lane 0 is the least significant
  CLKS,        \* the wait of each timed state, E2_CLKS .. W7_CLKS
  CYCLE_MOD    \* 2^24: cycle_count has 24 bits

VARIABLES
  reset_n,     \* the reset line is released
  sel, wstrb,  \* the request the bus presents
  uf_state,    \* the state of the sequencer
  lines,       \* which of the control lines of the flash are high
  cycle_count,
  since        \* history: clocks since each line last changed

TimedState == {"ERASE2", "ERASE3", "ERASE4", "ERASE5",
               "WRITE2", "WRITE3", "WRITE4", "WRITE6", "WRITE7"}

UState == TimedState \cup {"IDLE", "READ1", "READ2", "ERASE1", "WRITE1",
                           "WRITE5", "DONE"}

Lines == {"xe", "ye", "se", "erase", "nvstr", "prog"}

(* A write of one lane and a write of all are told apart.                  *)
ASSUME LaneAssumption == 0 \in Lane /\ Lane # {0}

(* No wait may reach the width of the counter, or it would never end.      *)
ASSUME ClksAssumption ==
  /\ CYCLE_MOD \in Nat
  /\ CLKS \in [TimedState -> 1 .. CYCLE_MOD - 1]

ufvars == <<uf_state, lines, cycle_count>>

(* The history stops counting above every wait: it need not tell more.     *)
HISTORY_CAP == CYCLE_MOD

(* The registers stay within their widths: no wait is longer than the 24   *)
(* bits of cycle_count can count.                                          *)
TypeOK ==
  /\ uf_state \in UState
  /\ lines \subseteq Lines
  /\ cycle_count \in 0 .. CYCLE_MOD - 1
  /\ since \in [Lines -> 0 .. HISTORY_CAP]


ready == uf_state = "DONE"

(* The asynchronous reset.                                                 *)
Clear ==
  /\ uf_state' = "IDLE"
  /\ lines' = {}
  /\ cycle_count' = 0

Raise(L) == lines' = lines \cup L
Drop(L)  == lines' = lines \ L
Goto(s)  == uf_state' = s /\ UNCHANGED cycle_count

-----------------------------------------------------------------------------
(* The sequencer, one action per state it leaves.                          *)

Idle ==
  /\ uf_state = "IDLE"
  /\ ~sel
  /\ UNCHANGED ufvars

BeginRead ==
  /\ uf_state = "IDLE" /\ sel /\ wstrb = {}
  /\ Goto("READ1") /\ Raise({"xe", "ye"})

BeginWrite ==
  /\ uf_state = "IDLE" /\ sel /\ wstrb = Lane
  /\ Goto("WRITE1") /\ Raise({"xe"})

BeginErase ==
  /\ uf_state = "IDLE" /\ sel /\ wstrb = {0} /\ wstrb # Lane
  /\ Goto("ERASE1")
  /\ lines' = (lines \ {"ye", "se", "erase", "nvstr"}) \cup {"xe"}

Unsupported ==
  /\ uf_state = "IDLE" /\ sel /\ wstrb \notin {{}, Lane, {0}}
  /\ Goto("DONE") /\ UNCHANGED lines

Read1  == uf_state = "READ1" /\ Goto("READ2") /\ Raise({"se"})
Read2  == uf_state = "READ2" /\ Goto("DONE")  /\ Drop({"se"})

Erase1 ==
  /\ uf_state = "ERASE1"
  /\ uf_state' = "ERASE2"
  /\ cycle_count' = 0
  /\ Raise({"erase"})

Write1 == uf_state = "WRITE1" /\ Goto("WRITE2") /\ Raise({"prog"})
Write5 == uf_state = "WRITE5" /\ Goto("WRITE6") /\ Drop({"prog"})

Wait ==
  /\ uf_state \in TimedState
  /\ cycle_count < CLKS[uf_state]
  /\ cycle_count' = (cycle_count + 1) % CYCLE_MOD
  /\ UNCHANGED <<uf_state, lines>>

(* Definitions named Mut.. are mutants: a definition with a bug a careless *)
(* edit of the code could make, used only to see a property refuse it.     *)
MutLeaveCounting(s, next) ==
  /\ uf_state = s
  /\ cycle_count >= CLKS[s]
  /\ uf_state' = next
  /\ cycle_count' = cycle_count + 1

MutLeaveUncleared(s, next) ==
  /\ uf_state = s
  /\ cycle_count >= CLKS[s]
  /\ Goto(next)

MutLeaveAtOnce(s, next) ==
  /\ uf_state = s
  /\ uf_state' = next
  /\ cycle_count' = 0

Leave(s, next) ==
  /\ uf_state = s
  /\ cycle_count >= CLKS[s]
  /\ uf_state' = next
  /\ cycle_count' = 0

MutErase5Again == Leave("ERASE5", "ERASE1") /\ Drop({"xe"})
MutWrite6KeepsVoltage == Leave("WRITE6", "WRITE7") /\ UNCHANGED lines
MutDoneKeepsLines == uf_state = "DONE" /\ Goto("IDLE") /\ UNCHANGED lines
MutDoneStays == uf_state = "DONE" /\ Goto("DONE") /\ lines' = {}

Erase2 == Leave("ERASE2", "ERASE3") /\ Raise({"nvstr"})
Erase3 == Leave("ERASE3", "ERASE4") /\ Drop({"erase"})
Erase4 == Leave("ERASE4", "ERASE5") /\ Drop({"nvstr"})
Erase5 == Leave("ERASE5", "DONE")   /\ Drop({"xe"})
Write2 == Leave("WRITE2", "WRITE3") /\ Raise({"nvstr"})
Write3 == Leave("WRITE3", "WRITE4") /\ Raise({"ye"})
Write4 == Leave("WRITE4", "WRITE5") /\ Drop({"ye"})
Write6 == Leave("WRITE6", "WRITE7") /\ Drop({"nvstr"})
Write7 == Leave("WRITE7", "DONE")   /\ Drop({"xe"})

Done   == uf_state = "DONE" /\ Goto("IDLE") /\ lines' = {}

Sequence ==
  \/ Idle \/ BeginRead \/ BeginWrite \/ BeginErase \/ Unsupported
  \/ Read1 \/ Read2
  \/ Erase1 \/ Erase2 \/ Erase3 \/ Erase4 \/ Erase5
  \/ Write1 \/ Write2 \/ Write3 \/ Write4 \/ Write5 \/ Write6 \/ Write7
  \/ Wait \/ Done

Remember ==
  since' = [l \in Lines |->
              IF (l \in lines) # (l \in lines') THEN 0
              ELSE IF since[l] < HISTORY_CAP THEN since[l] + 1 ELSE since[l]]

Edge ==
  /\ IF reset_n /\ reset_n' THEN Sequence ELSE Clear
  /\ Remember

-----------------------------------------------------------------------------
(* The bus side, as top.v and the core present it: the select is raised    *)
(* with a request, both stay until ready, and the select then falls for at *)
(* least one clock.  The core leaves the bus one clock after the reset.    *)

RequestRaised ==
  /\ ~sel /\ reset_n
  /\ sel' = TRUE
  /\ wstrb' \in SUBSET Lane

RequestHeld ==
  /\ sel /\ reset_n /\ ~ready
  /\ UNCHANGED <<sel, wstrb>>

NoRequest ==
  /\ ~sel \/ ready \/ ~reset_n
  /\ sel' = FALSE
  /\ UNCHANGED wstrb

BusEdge == RequestRaised \/ RequestHeld \/ NoRequest

Init ==
  /\ reset_n = FALSE
  /\ sel = FALSE
  /\ wstrb = {}
  /\ uf_state = "IDLE"
  /\ lines = {}
  /\ cycle_count = 0
  /\ since = [l \in Lines |-> HISTORY_CAP]

Tick ==
  /\ reset_n' \in BOOLEAN
  /\ BusEdge
  /\ Edge

vars == <<reset_n, sel, wstrb, uf_state, lines, cycle_count, since>>

(* The clock goes on for as long as the line is released.  Nothing is      *)
(* assumed of the line: a reset may come, but none ever has to.            *)
Spec == Init /\ [][Tick]_vars /\ WF_vars(Tick /\ reset_n /\ reset_n')

-----------------------------------------------------------------------------
(* Every wait starts from zero.  WRITE1 does not clear cycle_count, as     *)
(* ERASE1 does: a program pulse is long enough only because whatever ran   *)
(* before left the counter at zero.                                        *)
CountFresh == uf_state \notin TimedState => cycle_count = 0

Rises(l) == reset_n' /\ l \notin lines /\ l \in lines'
Falls(l) == reset_n' /\ l \in lines /\ l \notin lines'

(* Line l has been up (or down) for as long as a wait of clks asks for.    *)
Up(l, clks)   == l \in lines /\ since[l] + 1 >= clks
Down(l, clks) == l \notin lines /\ since[l] + 1 >= clks

(* The set-up and hold times of the flash, measured on the lines           *)
(* themselves: no change of a line comes sooner after the change it        *)
(* follows than the wait the code computes for it.                         *)
EraseTimed ==
  wstrb = {0} =>
    /\ Rises("nvstr") => Up("erase", CLKS["ERASE2"])
    /\ Falls("erase") => Up("nvstr", CLKS["ERASE3"])
    /\ Falls("nvstr") => Down("erase", CLKS["ERASE4"])
    /\ Falls("xe")    => Down("nvstr", CLKS["ERASE5"])

ProgramTimed ==
  wstrb = Lane =>
    /\ Rises("nvstr") => Up("prog", CLKS["WRITE2"])
    /\ Rises("ye")    => Up("nvstr", CLKS["WRITE3"])
    /\ Falls("ye")    => Up("ye", CLKS["WRITE4"])
    /\ Falls("nvstr") => Down("prog", CLKS["WRITE6"])
    /\ Falls("xe")    => Down("nvstr", CLKS["WRITE7"])

LineTiming == [][EraseTimed /\ ProgramTimed]_vars

(* The flash is never asked for two things at once, its high voltage is    *)
(* only up with a row selected, and a column is pulsed in a program only   *)
(* under that voltage.                                                     *)
LinesCompatible ==
  /\ ~({"erase", "prog"} \subseteq lines)
  /\ "nvstr" \in lines => "xe" \in lines /\ "se" \notin lines
  /\ {"prog", "ye"} \subseteq lines => "nvstr" \in lines
  /\ "erase" \in lines => "ye" \notin lines

(* The flash takes its address and data straight from the bus for as long  *)
(* as any line is high, so the request must not go or move under it.       *)
UnderLines ==
  reset_n /\ reset_n' /\ lines # {} =>
    sel /\ (lines' # {} => sel' /\ UNCHANGED wstrb)

RequestUnderLines == [][UnderLines]_vars

(* The core is never left waiting: every request is answered, unless a     *)
(* reset cuts it off.                                                      *)
EveryRequestAnswered == sel ~> (ready \/ ~reset_n)

=============================================================================
