-------------------------------- MODULE Build --------------------------------
(***************************************************************************)
(* Makefile and conv_to_init.c: from CLK_FREQ and SRAM_ADDR_WIDTH in the   *)
(* Makefile and the C sources to the program image and to the three sorts  *)
(* of file the Verilog build takes: sys_parameters.v, global_defs.v and    *)
(* the memory lanes mem_init0..3.ini.  Somebody edits the Makefile or the  *)
(* sources, runs make for one board or the other, cleans, or interrupts.   *)
(* main.o stands for the objects of all C files.  Any open may fail.       *)
(***************************************************************************)
EXTENDS FreqSearch

CONSTANTS
  Clocks, Widths,    \* values of the two Makefile variables
  Sizes,             \* bytes the program may have
  Targets,           \* frequencies the stand-alone search is asked for
  None, Cut,         \* a file that is not there, or ends too soon
  MAX_MAKES          \* bound: how often make is run

ASSUME BuildAssumption ==
  /\ "BOARD_BOTH" \in BOARDS
  /\ Clocks \subseteq Int /\ Targets \subseteq Int
  /\ Widths \subseteq Int /\ Sizes \subseteq Nat

Goals == {"BOARD_9K", "BOARD_20K"}

(* What is in a file that is there.                                        *)
Startups == [width : Widths]
Objects == [clk : Clocks, board : Goals, size : Sizes]
Parameters == [idiv_sel : Int, fbdiv_sel : Int, odiv_sel : Int, width : Widths, clk : Int]
Programs == [clk : Clocks, width : Widths, board : Goals, size : Sizes]
Images == [prog : Programs, bytes : Nat]

ASSUME FileAssumption ==
  /\ None \notin Startups /\ None \notin Objects /\ None \notin Parameters
  /\ None \notin Images /\ Cut \notin Images

(* CLK_FREQ is an int of Hz, so that a row of the table is always nearer   *)
(* than the 99999 MHz the search starts from.                              *)
ASSUME RowAssumption ==
  LET rows == tables["BOARD_BOTH"] IN
  /\ \A k \in 1..SCANNED : k \in DOMAIN rows /\ rows[k] \in Int \X Int \X Int \X Int
  /\ \A c \in Clocks : \E k \in 1..SCANNED :
       c - rows[k][1] < MIN0 /\ rows[k][1] - c < MIN0

VARIABLES
  clk, width, size,   \* the Makefile variables, the program the sources make
  fresh,              \* targets that are there and newer than all they depend on
  startup_o, main_o,  \* [width], [clk, board, size], or None when not fresh
  params, defs,       \* sys_parameters.v, global_defs.v
  lanes,              \* None, Cut, or [prog, bytes]
  pll,                \* conv_to_init: what the search found, until it is written
  pc, goal,           \* where make and conv_to_init are, and the board
  outcome,            \* of the last make
  makes,
  tidy,               \* history: make was used as the Makefile says
  ran                 \* history: what conv_to_init was last run for
sources == <<clk, width, size>>
objects == <<startup_o, main_o>>
generated == <<params, defs, lanes>>
history == <<tidy, ran, makes>>
vars == <<search, sources, fresh, objects, generated, pll, pc, goal, outcome, history>>

-----------------------------------------------------------------------------
(* What make knows.  The two boards' images depend on the same objects: a  *)
(* fresh one is of the board main.o was compiled for.                      *)

Linked == {"elf", "bin", "hex"}
Remade(t, behind) == fresh' = (fresh \ behind) \cup {t}
Idle == pc = "idle"
OfGoal == IF main_o # None /\ main_o.board # goal THEN fresh \ Linked ELSE fresh
Making(t, depends) == pc = "make" /\ t \notin OfGoal /\ depends \subseteq OfGoal
Fail == pc' = "idle" /\ outcome' = "failed" /\ tidy' = FALSE
NotFailing == UNCHANGED <<outcome, tidy>>

(* What a fresh elf or bin holds.                                          *)
Program == [clk |-> main_o.clk, width |-> startup_o.width, board |-> main_o.board,
            size |-> main_o.size]

-----------------------------------------------------------------------------
(* The person at the keyboard.                                             *)

(* The variables are not among what the objects depend on.                 *)
EditMakefile ==
  /\ Idle
  /\ \E c \in Clocks, w \in Widths :
       clk' = c /\ width' = w /\ (tidy' = (tidy /\ fresh = {}))
  /\ outcome' = "none"
  /\ UNCHANGED <<search, size, fresh, objects, generated, pll, pc, goal, ran, makes>>

EditSource ==
  /\ Idle
  /\ size' \in Sizes
  /\ fresh' = fresh \ ({"main.o"} \cup Linked) /\ main_o' = None /\ outcome' = "none"
  /\ UNCHANGED <<search, clk, width, startup_o, generated, pll, pc, goal, history>>

Clean ==
  /\ Idle
  /\ fresh' = {} /\ startup_o' = None /\ main_o' = None
  /\ tidy' = TRUE /\ outcome' = "none"
  /\ UNCHANGED <<search, sources, generated, pll, pc, goal, ran, makes>>

Make(b) ==
  /\ Idle /\ makes < MAX_MAKES
  /\ pc' = "make" /\ goal' = b /\ outcome' = "none" /\ makes' = makes + 1
  /\ tidy' = (tidy /\ (fresh = {} \/ goal = b))
  /\ UNCHANGED <<search, sources, fresh, objects, generated, pll, ran>>

(* make deletes the target whose recipe is interrupted.                    *)
Interrupt ==
  /\ pc \notin {"idle", "search", "standalone"}
  /\ Fail /\ pll' = None
  /\ fresh' = IF pc = "make" THEN fresh ELSE fresh \ {"bin"}
  /\ UNCHANGED <<search, sources, objects, generated, goal, ran, makes>>

-----------------------------------------------------------------------------
(* The recipes, in make's order.                                           *)

AssembleStartup ==
  /\ Making("startup.o", {})
  /\ startup_o' = [width |-> width] /\ Remade("startup.o", Linked)
  /\ UNCHANGED <<search, sources, main_o, generated, pll, pc, goal, outcome, history>>

Compile ==
  /\ Making("main.o", {"startup.o"})
  /\ main_o' = [clk |-> clk, board |-> goal, size |-> size] /\ Remade("main.o", Linked)
  /\ UNCHANGED <<search, sources, startup_o, generated, pll, pc, goal, outcome, history>>

(* Objects for the other board refer to functions that are not linked.     *)
Link ==
  /\ Making("elf", {"startup.o", "main.o"})
  /\ IF main_o.board # goal THEN Fail /\ UNCHANGED fresh
     ELSE Remade("elf", Linked) /\ UNCHANGED pc /\ NotFailing
  /\ UNCHANGED <<search, sources, objects, generated, pll, goal, ran, makes>>

CompileConv ==
  /\ Making("conv_to_init", {"elf"}) /\ Remade("conv_to_init", {"bin", "hex"})
  /\ UNCHANGED <<search, sources, objects, generated, pll, pc, goal, outcome, history>>

(* objcopy, rm -f, and the start of conv_to_init.  If that fails later the *)
(* image is nevertheless fresh.                                            *)
ObjCopy(Remove) ==
  /\ Making("bin", {"elf", "conv_to_init"}) /\ Remade("bin", {"hex"})
  /\ Remove
  /\ ran' = [clk |-> clk, width |-> width, board |-> goal]
  /\ pc' = "conv_to_init"
  /\ UNCHANGED <<search, sources, objects, defs, pll, goal, outcome, tidy, makes>>

(* rm -f of the generated files is forgotten.                              *)
MutMakeBin == ObjCopy(UNCHANGED <<params, lanes>>)

MakeBin == ObjCopy(params' = None /\ lanes' = None)

Dump ==
  /\ Making("hex", {"bin", "conv_to_init"}) /\ Remade("hex", {})
  /\ UNCHANGED <<search, sources, objects, generated, pll, pc, goal, outcome, history>>

MakeDone ==
  /\ pc = "make" /\ "hex" \in OfGoal
  /\ pc' = "idle" /\ outcome' = "ok"
  /\ UNCHANGED <<search, sources, fresh, objects, generated, pll, goal, history>>

-----------------------------------------------------------------------------
(* conv_to_init.                                                           *)

Untouched == UNCHANGED <<sources, fresh, objects, goal, ran, makes>>

ConvStart ==
  /\ pc = "conv_to_init"
  /\ IF clk <= 0 THEN Fail /\ UNCHANGED search
     ELSE SearchBegin("BOARD_BOTH", clk) /\ pc' = "search" /\ NotFailing
  /\ Untouched /\ UNCHANGED <<generated, pll>>

ConvSearch ==
  /\ pc = "search" /\ SearchRow
  /\ Untouched /\ NotFailing /\ UNCHANGED <<generated, pll, pc>>

(* The lanes are opened one by one: after a failure some are there.        *)
ConvOpen ==
  /\ pc = "search" /\ SearchReturn
  /\ IF Found[1] # clk \/ width <= 0 THEN Fail /\ UNCHANGED <<pll, lanes>>
     ELSE \/ Fail /\ lanes' \in {None, Cut} /\ UNCHANGED pll
          \/ lanes' = Cut /\ pll' = Found /\ pc' = "sys_parameters" /\ NotFailing
  /\ Untouched /\ UNCHANGED <<params, defs>>

ConvParameters ==
  /\ pc = "sys_parameters"
  /\ pll' = None
  /\ \/ Fail /\ UNCHANGED params
     \/ /\ params' = [idiv_sel |-> pll[2], fbdiv_sel |-> pll[3], odiv_sel |-> pll[4],
                      width |-> width, clk |-> pll[1]]
        /\ pc' = "global_defs" /\ NotFailing
  /\ Untouched /\ UNCHANGED <<search, defs, lanes>>

ConvDefs ==
  /\ pc = "global_defs"
  /\ \/ Fail /\ UNCHANGED defs
     \/ defs' = goal /\ pc' = "lanes" /\ NotFailing
  /\ Untouched /\ UNCHANGED <<search, pll, params, lanes>>

Padded(n) == 16 * ((n + 15) \div 16)
MemBytes(w) == 4 * 2^w

(* The program is written to the lanes before its size is looked at.       *)
ConvCopy ==
  /\ pc = "lanes"
  /\ LET bytes == Padded(Program.size) IN
     /\ lanes' = [prog |-> Program, bytes |-> bytes]
     /\ IF bytes > MemBytes(width) THEN Fail
        ELSE pc' = "make" /\ NotFailing
  /\ Untouched /\ UNCHANGED <<search, pll, params, defs>>

-----------------------------------------------------------------------------
(* freq_search.c built by itself, as a program.                            *)

Standalone ==
  /\ Idle /\ makes = 0
  /\ \E b \in BOARDS, f \in Targets : SearchBegin(b, f)
  /\ pc' = "standalone"
  /\ UNCHANGED <<sources, fresh, objects, generated, pll, goal, outcome, history>>

StandaloneStep ==
  /\ pc = "standalone"
  /\ IF Searching THEN SearchRow /\ UNCHANGED pc
     ELSE pc' = "idle" /\ SearchReturn
  /\ UNCHANGED <<sources, fresh, objects, generated, pll, goal, outcome, history>>

-----------------------------------------------------------------------------
Init ==
  /\ SearchInit
  /\ clk \in Clocks /\ width \in Widths /\ size \in Sizes
  /\ fresh = {} /\ startup_o = None /\ main_o = None
  /\ pll = None /\ params = None /\ defs = None /\ lanes = None
  /\ pc = "idle" /\ goal = "BOARD_9K" /\ outcome = "none" /\ makes = 0
  /\ tidy = TRUE
  /\ ran = [clk |-> 0, width |-> 0, board |-> "none"]

User == EditMakefile \/ EditSource \/ Clean \/ (\E b \in Goals : Make(b)) \/ Interrupt
Recipes == AssembleStartup \/ Compile \/ CompileConv \/ Link \/ MakeBin \/ Dump \/ MakeDone
ConvToInit == \/ ConvStart \/ ConvSearch \/ ConvOpen \/ ConvParameters \/ ConvDefs
              \/ ConvCopy
Next == User \/ Recipes \/ ConvToInit \/ Standalone \/ StandaloneStep
Spec == Init /\ [][Next]_vars

-----------------------------------------------------------------------------
(* Verilog and software that agree.                                        *)
Coherent ==
  /\ params # None /\ params.clk = clk /\ params.width = width
  /\ defs = goal
  /\ lanes \notin {None, Cut}
  /\ lanes.prog = [clk |-> clk, width |-> width, board |-> goal, size |-> size]
  /\ size <= lanes.bytes /\ lanes.bytes % 16 = 0
  /\ lanes.bytes <= MemBytes(width)

(* A make that succeeds, and was used as the Makefile says (make clean     *)
(* after a change of the board or of a variable, and after a failure),     *)
(* leaves Verilog and software that agree: the PLL makes the clock the     *)
(* program was compiled for, the stack starts where the SRAM ends, the     *)
(* board is the one asked for, and the whole program, of the sources as    *)
(* they are, is in the lanes and fits.                                     *)
TidyBuild == pc = "idle" /\ outcome = "ok" /\ tidy => Coherent

(* Dividers for the clock of the last run, and its width.                  *)
ParametersOfRun ==
  /\ params.clk = ran.clk /\ params.width = ran.width
  /\ \E k \in DOMAIN tables["BOARD_BOTH"] :
       tables["BOARD_BOTH"][k] =
         <<params.clk, params.idiv_sel, params.fbdiv_sel, params.odiv_sel>>

(* Whatever is edited, not cleaned, interrupted or failing: parameters     *)
(* that are there are those of the last run of conv_to_init, with          *)
(* dividers for its clock, and lanes that are complete stand beside the    *)
(* parameters and the board of the same run.                               *)
OneRun ==
  pc # "conv_to_init" =>
    /\ params # None => ParametersOfRun
    /\ lanes \notin {None, Cut} => params # None /\ defs = ran.board

BuildCoherent == TidyBuild /\ OneRun

=============================================================================
