---------------------------- MODULE Build_proofs ----------------------------
(***************************************************************************)
(* The search for PLL settings returns the nearest row of a table, for     *)
(* every table, every number of rows scanned and every frequency in reach  *)
(* of the rows scanned.  And what a build leaves behind is coherent: for   *)
(* every clock, width, size of the program, and number of edits, makes and *)
(* failures.                                                               *)
(***************************************************************************)
EXTENDS Build, TLAPS

SearchType ==
  /\ board \in BOARDS /\ target_freq \in Int
  /\ i \in 1..(SCANNED + 1)
  /\ min \in Int /\ index_min \in 0..(i - 1)

(* What min and index_min mean while the loop runs.                        *)
Nothing == index_min = 0 =>
  min = MIN0 /\ \A k \in 1..(i - 1) : MIN0 <= Diff(k)
Something == index_min # 0 =>
  /\ min = Diff(index_min)
  /\ \A k \in 1..(i - 1) : min <= Diff(k)

SInv == SearchType /\ Nothing /\ Something

(* Distances are integers.                                                 *)
LEMMA DiffInt ==
  ASSUME SearchType, NEW k \in 1..SCANNED
  PROVE  Diff(k) \in Int
  BY TableAssumption DEF SearchType, Diff, Distance

(* A distance depends on the arguments of the search only.                 *)
LEMMA DiffSame ==
  ASSUME UNCHANGED <<board, target_freq>>, NEW k
  PROVE  Diff(k)' = Diff(k)
  BY DEF Diff, Distance

(* One pass through the loop.                                              *)
LEMMA RowStep ==
  ASSUME SInv, SearchRow
  PROVE  SInv'
<1>1. i \in 1..SCANNED /\ i' = i + 1
  BY TableAssumption DEF SearchRow, Searching, SInv, SearchType
<1>2. Diff(i) \in Int /\ min \in Int
  BY <1>1, DiffInt DEF SInv, SearchType
<1>3. \A k : Diff(k)' = Diff(k)
  BY DiffSame DEF SearchRow
<1>4. \A k \in 1..(i - 1) : Diff(k) \in Int
  BY <1>1, DiffInt, TableAssumption DEF SInv
<1>a. CASE Diff(i) < min
  <2>1. min' = Diff(i) /\ index_min' = i
    BY <1>a DEF SearchRow
  <2>2. SearchType'
    BY <1>1, <1>2, <2>1, TableAssumption DEF SInv, SearchType, SearchRow
  <2>3. Nothing'
    BY <1>1, <2>1 DEF Nothing
  <2>4. \A k \in 1..(i - 1) : Diff(i) < Diff(k)
    <3>1. CASE index_min = 0
      BY <3>1, <1>a, <1>2, <1>4, TableAssumption DEF SInv, Nothing
    <3>2. CASE index_min # 0
      BY <3>2, <1>a, <1>2, <1>4 DEF SInv, Something
    <3> QED  BY <3>1, <3>2
  <2>5. \A k \in 1..(i' - 1) : Diff(i) <= Diff(k)
    BY <1>1, <1>2, <1>4, <2>4
  <2>6. Diff(index_min)' = Diff(i)
    BY <2>1 DEF Diff, Distance, SearchRow
  <2>7. Something'
    BY <1>3, <2>1, <2>4, <2>5, <2>6 DEF Something
  <2> QED  BY <2>2, <2>3, <2>7 DEF SInv
<1>b. CASE ~(Diff(i) < min)
  <2>1. min' = min /\ index_min' = index_min
    BY <1>b DEF SearchRow
  <2>2. SearchType'
    BY <1>1, <2>1, TableAssumption DEF SInv, SearchType, SearchRow
  <2>3. min <= Diff(i)
    BY <1>b, <1>2
  <2>4. Nothing'
    BY <1>1, <1>3, <2>1, <2>3 DEF SInv, Nothing
  <2>5. Diff(index_min)' = Diff(index_min)
    BY <2>1 DEF Diff, Distance, SearchRow
  <2>6. Something'
    BY <1>1, <1>3, <2>1, <2>3, <2>5 DEF SInv, Something
  <2> QED  BY <2>2, <2>4, <2>6 DEF SInv
<1> QED  BY <1>a, <1>b

(* The loop begins, or the function has returned.                          *)
LEMMA BeginStep ==
  ASSUME board' \in BOARDS, target_freq' \in Int,
         i' = 1, min' = MIN0, index_min' = 0
  PROVE  SInv'
  BY TableAssumption DEF SInv, SearchType, Nothing, Something

LEMMA SameStep ==
  ASSUME SInv, UNCHANGED search
  PROVE  SInv'
<1>1. UNCHANGED <<board, target_freq, i, min, index_min>>
  BY DEF search
<1>2. \A k : Diff(k)' = Diff(k)
  BY <1>1, DiffSame
<1>3. Diff(index_min)' = Diff(index_min)
  BY <1>1 DEF Diff, Distance
<1> QED  BY <1>1, <1>2, <1>3 DEF SInv, SearchType, Nothing, Something

ClockOK == clk \in Clocks

(* What the steps of the program do to the search.                         *)
LEMMA SearchSteps ==
  ASSUME ClockOK, [Next]_vars
  PROVE  \/ UNCHANGED search
         \/ SearchRow
         \/ SearchReturn
         \/ \E b \in BOARDS, f \in Int : SearchBegin(b, f)
<1>1. CASE User
  BY <1>1 DEF User, EditMakefile, EditSource, Clean, Make, Interrupt
<1>2. CASE Recipes
  BY <1>2 DEF Recipes, AssembleStartup, Compile, CompileConv, Link, MakeBin, ObjCopy, Dump,
              MakeDone
<1>3. CASE ConvToInit
  <2>1. CASE ConvStart
    BY <2>1, BuildAssumption DEF ConvStart, ClockOK
  <2>2. CASE ConvSearch \/ ConvOpen
    BY <2>2 DEF ConvSearch, ConvOpen
  <2>3. CASE ConvParameters \/ ConvDefs \/ ConvCopy
    BY <2>3 DEF ConvParameters, ConvDefs, ConvCopy
  <2> QED  BY <1>3, <2>1, <2>2, <2>3 DEF ConvToInit
<1>4. CASE Standalone
  BY <1>4, BuildAssumption DEF Standalone
<1>5. CASE StandaloneStep
  BY <1>5 DEF StandaloneStep
<1>6. CASE UNCHANGED vars
  BY <1>6 DEF vars
<1> QED  BY <1>1, <1>2, <1>3, <1>4, <1>5, <1>6 DEF Next

(* Only the Makefile's author changes the clock.                           *)
LEMMA ClockStep ==
  ASSUME ClockOK, [Next]_vars
  PROVE  ClockOK'
<1>1. CASE User
  BY <1>1 DEF User, EditMakefile, EditSource, Clean, Make, Interrupt, sources, ClockOK
<1>2. CASE Recipes
  BY <1>2 DEF Recipes, AssembleStartup, Compile, CompileConv, Link, MakeBin, ObjCopy, Dump,
              MakeDone, sources, ClockOK
<1>3. CASE ConvToInit
  BY <1>3 DEF ConvToInit, ConvStart, ConvSearch, ConvOpen, ConvParameters, ConvDefs,
              ConvCopy, Untouched, sources, ClockOK
<1>4. CASE Standalone \/ StandaloneStep \/ UNCHANGED vars
  BY <1>4 DEF Standalone, StandaloneStep, vars, sources, ClockOK
<1> QED  BY <1>1, <1>2, <1>3, <1>4 DEF Next

LEMMA Chosen == (CHOOSE b \in BOARDS : TRUE) \in BOARDS
  BY BuildAssumption

LEMMA SearchInvariant == Spec => [](SInv /\ ClockOK)
<1>1. Init => SInv /\ ClockOK
  BY Chosen, TableAssumption
     DEF Init, SearchInit, SInv, SearchType, Nothing, Something, ClockOK
<1>2. SInv /\ ClockOK /\ [Next]_vars => (SInv /\ ClockOK)'
  <2> SUFFICES ASSUME SInv, ClockOK, [Next]_vars
               PROVE  SInv'
    BY ClockStep
  <2>1. CASE UNCHANGED search
    BY <2>1, SameStep
  <2>2. CASE SearchRow
    BY <2>2, RowStep
  <2>3. CASE SearchReturn
    BY <2>3, BeginStep, Chosen DEF SearchReturn
  <2>4. ASSUME NEW b \in BOARDS, NEW f \in Int, SearchBegin(b, f)
        PROVE  SInv'
    BY <2>4, BeginStep DEF SearchBegin
  <2> QED  BY <2>1, <2>2, <2>3, <2>4, SearchSteps
<1> QED  BY <1>1, <1>2, PTL DEF Spec

(* Every search is for a frequency in reach, if what the Makefile and the  *)
(* stand-alone program ask for is.                                         *)
AllInReach ==
  /\ \A c \in Clocks : c > 0 => InReach("BOARD_BOTH", c)
  /\ \A b \in BOARDS, f \in Targets : InReach(b, f)

Asked ==
  IF pc \in {"search", "standalone"} THEN InReach(board, target_freq) ELSE i = 1

LEMMA AskedStep ==
  ASSUME AllInReach, ClockOK, Asked, [Next]_vars
  PROVE  Asked'
<1>1. \A b, f : InReach(b, f)' = InReach(b, f)
  BY DEF InReach, Distance
<1>2. CASE pc \notin {"search", "standalone"} /\ UNCHANGED search
           /\ pc' \notin {"search", "standalone"}
  BY <1>2 DEF Asked, search
<1>3. CASE User
  BY <1>2, <1>3 DEF User, EditMakefile, EditSource, Clean, Make, Interrupt, Idle, Fail
<1>4. CASE Recipes
  BY <1>2, <1>4
     DEF Recipes, AssembleStartup, Compile, CompileConv, Link, MakeBin, ObjCopy, Dump,
         MakeDone, Making, Fail
<1>5. CASE ConvStart
  <2>1. CASE clk <= 0
    BY <1>2, <1>5, <2>1 DEF ConvStart, Fail
  <2>2. CASE ~(clk <= 0)
    <3>1. InReach("BOARD_BOTH", clk)
      BY <2>2, BuildAssumption DEF AllInReach, ClockOK
    <3> QED  BY <1>1, <1>5, <2>2, <3>1 DEF ConvStart, SearchBegin, Asked
  <2> QED  BY <2>1, <2>2
<1>6. CASE ConvSearch
  BY <1>1, <1>6 DEF ConvSearch, SearchRow, Asked
<1>7. CASE ConvOpen
  <2>1. pc' \notin {"search", "standalone"} /\ i' = 1
    BY <1>7 DEF ConvOpen, SearchReturn, Fail
  <2> QED  BY <2>1 DEF Asked
<1>8. CASE ConvParameters \/ ConvDefs \/ ConvCopy
  BY <1>2, <1>8 DEF ConvParameters, ConvDefs, ConvCopy, Fail
<1>9. CASE Standalone
  <2>1. PICK b \in BOARDS, f \in Targets : SearchBegin(b, f)
    BY <1>9 DEF Standalone
  <2> QED  BY <1>1, <1>9, <2>1 DEF Standalone, SearchBegin, AllInReach, Asked
<1>10. CASE StandaloneStep
  <2>1. CASE Searching
    BY <1>1, <1>10, <2>1 DEF StandaloneStep, SearchRow, Asked
  <2>2. CASE ~Searching
    BY <1>10, <2>2 DEF StandaloneStep, SearchReturn, Asked
  <2> QED  BY <2>1, <2>2
<1>11. CASE UNCHANGED vars
  BY <1>1, <1>11 DEF vars, search, Asked
<1> QED  BY <1>3, <1>4, <1>5, <1>6, <1>7, <1>8, <1>9, <1>10, <1>11 DEF Next, ConvToInit

(* The row that is returned is as near as any row of the table, those the  *)
(* loop does not look at included, when what is asked for is in reach of   *)
(* those it does look at; and it is never that of an index that was not    *)
(* set.                                                                    *)
THEOREM NearestAlways ==
  ASSUME AllInReach
  PROVE  Spec => []Nearest
<1>1. SInv /\ Asked => Nearest
  <2> SUFFICES ASSUME SInv, Asked, ~Searching
               PROVE  /\ index_min \in DOMAIN tables[board]
                      /\ \A j \in DOMAIN tables[board] : Diff(index_min) <= Diff(j)
    BY DEF Nearest
  <2>1. i = SCANNED + 1 /\ board \in BOARDS /\ InReach(board, target_freq)
    BY TableAssumption DEF SInv, SearchType, Searching, Asked
  <2>2. PICK k \in 1..SCANNED :
          /\ Diff(k) < MIN0
          /\ \A j \in DOMAIN tables[board] : j \notin 1..SCANNED => Diff(k) <= Diff(j)
    BY <2>1 DEF InReach, Diff
  <2>3. \A j \in DOMAIN tables[board] : Diff(j) \in Int
    BY <2>1, TableAssumption DEF SInv, SearchType, Diff, Distance
  <2>4. index_min \in 1..SCANNED
    BY <2>1, <2>2, DiffInt, TableAssumption DEF SInv, SearchType, Nothing
  <2>5. \A j \in 1..SCANNED : Diff(index_min) <= Diff(j)
    <3>1. index_min # 0 /\ 1..(i - 1) = 1..SCANNED
      BY <2>1, <2>4, TableAssumption
    <3> QED  BY <3>1 DEF SInv, Something
  <2>6. 1..SCANNED \subseteq DOMAIN tables[board]
    BY <2>1, TableAssumption
  <2>7. ASSUME NEW j \in DOMAIN tables[board]
        PROVE  Diff(index_min) <= Diff(j)
    <3>1. CASE j \in 1..SCANNED
      BY <2>5, <3>1
    <3>2. CASE j \notin 1..SCANNED
      <4>1. Diff(index_min) <= Diff(k) /\ Diff(k) <= Diff(j)
        BY <2>2, <2>5, <3>2
      <4>2. Diff(index_min) \in Int /\ Diff(k) \in Int /\ Diff(j) \in Int
        BY <2>3, <2>4, <2>6
      <4> QED  BY <4>1, <4>2
    <3> QED  BY <3>1, <3>2
  <2> QED  BY <2>4, <2>6, <2>7
<1>2. Init => Asked
  BY DEF Init, SearchInit, Asked
<1>3. ClockOK /\ Asked /\ [Next]_vars => Asked'
  BY AskedStep
<1> QED  BY <1>1, <1>2, <1>3, SearchInvariant, PTL DEF Spec

-----------------------------------------------------------------------------
(* While conv_to_init runs.                                                *)
Converting == {"conv_to_init", "search", "sys_parameters", "global_defs", "lanes"}

Typed ==
  /\ pc \in Converting \cup {"idle", "make", "standalone"}
  /\ goal \in Goals /\ width \in Widths /\ size \in Sizes
  /\ IF "startup.o" \in fresh THEN startup_o \in Startups ELSE startup_o = None
  /\ IF "main.o" \in fresh THEN main_o \in Objects /\ main_o.size = size
     ELSE main_o = None

(* What is fresh was made from what is fresh.                              *)
Chain ==
  /\ "elf" \in fresh => {"main.o", "startup.o"} \subseteq fresh
  /\ "bin" \in fresh => "elf" \in fresh
  /\ "hex" \in fresh => "bin" \in fresh
  /\ pc \in Converting => "bin" \in fresh /\ "hex" \notin fresh
  /\ outcome = "ok" => "hex" \in fresh /\ pc \in {"idle", "standalone"}

(* What conv_to_init was run for, and what it has found.                   *)
RunOf ==
  /\ pc \in Converting =>
       ran = [clk |-> clk, width |-> width, board |-> goal]
  /\ pc \in {"sys_parameters", "global_defs", "lanes"} => width > 0
  /\ pc = "search" => board = "BOARD_BOTH" /\ target_freq = clk
  /\ pc = "sys_parameters" =>
       \E k \in 1..SCANNED : pll = tables["BOARD_BOTH"][k] /\ pll[1] = clk

(* The files of an earlier run are removed before a run writes its own,    *)
(* and the lanes are complete last.                                        *)
FilesOf ==
  /\ params # None => ParametersOfRun
  /\ pc \in {"conv_to_init", "search", "sys_parameters"} => params = None
  /\ pc \in {"conv_to_init", "search"} => lanes = None
  /\ pc \in {"sys_parameters", "global_defs", "lanes"} => lanes = Cut
  /\ pc \in {"global_defs", "lanes"} => params # None
  /\ pc = "lanes" => defs = goal
  /\ lanes \notin {None, Cut} => params # None /\ defs = ran.board

(* When make was used as the Makefile says, fresh objects are of the       *)
(* variables as they are, and a fresh image has its files beside it.       *)
TidyInv == tidy =>
  /\ "startup.o" \in fresh => startup_o.width = width
  /\ "main.o" \in fresh => main_o.clk = clk /\ main_o.board = goal
  /\ "bin" \in fresh /\ pc \notin Converting => Coherent

BInv == Typed /\ Chain /\ RunOf /\ FilesOf /\ TidyInv

(* Steps that leave the files of the Verilog build alone, outside of       *)
(* conv_to_init.                                                           *)
LEMMA FilesStay ==
  ASSUME FilesOf, UNCHANGED <<generated, ran>>,
         pc \notin Converting \ {"search"}, pc' \notin Converting \/ pc' = pc
  PROVE  FilesOf'
  BY DEF FilesOf, generated, Converting, ParametersOfRun

LEMMA CoherentStays ==
  ASSUME Coherent, UNCHANGED <<clk, width, goal, size, generated>>
  PROVE  Coherent'
  BY DEF Coherent, generated, MemBytes

-----------------------------------------------------------------------------
(* The person at the keyboard.                                             *)

LEMMA EditMakefileStep ==
  ASSUME BInv, EditMakefile
  PROVE  BInv'
<1> USE DEF EditMakefile, Idle
<1>1. Typed' /\ Chain' /\ RunOf'
  BY DEF BInv, Typed, Chain, RunOf, objects, Converting
<1>2. FilesOf'
  BY FilesStay DEF BInv, Converting
<1>3. TidyInv'
  BY DEF BInv, TidyInv
<1> QED  BY <1>1, <1>2, <1>3 DEF BInv

LEMMA EditSourceStep ==
  ASSUME BInv, EditSource
  PROVE  BInv'
<1> USE DEF EditSource, Idle
<1>1. Typed' /\ Chain' /\ RunOf'
  BY DEF BInv, Typed, Chain, RunOf, Converting, Linked, history
<1>2. FilesOf'
  BY FilesStay DEF BInv, Converting, history
<1>3. TidyInv'
  BY DEF BInv, TidyInv, Linked, history
<1> QED  BY <1>1, <1>2, <1>3 DEF BInv

LEMMA CleanStep ==
  ASSUME BInv, Clean
  PROVE  BInv'
<1> USE DEF Clean, Idle
<1>1. Typed' /\ Chain' /\ RunOf'
  BY DEF BInv, Typed, Chain, RunOf, Converting, sources
<1>2. FilesOf'
  BY FilesStay DEF BInv, Converting
<1>3. TidyInv'
  BY DEF TidyInv
<1> QED  BY <1>1, <1>2, <1>3 DEF BInv

LEMMA MakeStep ==
  ASSUME BInv, NEW b \in Goals, Make(b)
  PROVE  BInv'
<1> USE DEF Make, Idle
<1>1. Typed' /\ Chain' /\ RunOf'
  BY DEF BInv, Typed, Chain, RunOf, Converting, sources, objects
<1>2. FilesOf'
  BY FilesStay DEF BInv, Converting
<1>3. TidyInv'
  <2> SUFFICES ASSUME tidy'
               PROVE  TidyInv'
    BY DEF TidyInv
  <2>1. tidy /\ (fresh = {} \/ goal = b)
    OBVIOUS
  <2>2. CASE fresh = {}
    BY <2>2 DEF TidyInv
  <2>3. CASE goal = b
    <3>1. UNCHANGED <<goal, clk, width, size, fresh, startup_o, main_o, generated>>
      BY <2>3 DEF sources, objects
    <3>2. Coherent => Coherent'
      BY <3>1, CoherentStays
    <3> QED  BY <2>1, <3>1, <3>2 DEF BInv, TidyInv, Converting
  <2> QED  BY <2>1, <2>2, <2>3
<1> QED  BY <1>1, <1>2, <1>3 DEF BInv

(* A make that fails or is interrupted is not tidy.                        *)
LEMMA InterruptStep ==
  ASSUME BInv, Interrupt
  PROVE  BInv'
<1> USE DEF Interrupt, Fail
<1>1. Typed' /\ Chain' /\ RunOf'
  BY DEF BInv, Typed, Chain, RunOf, Converting, sources, objects
<1>2. FilesOf'
  BY DEF BInv, FilesOf, Converting, generated, ParametersOfRun
<1>3. TidyInv'
  BY DEF TidyInv
<1> QED  BY <1>1, <1>2, <1>3 DEF BInv

-----------------------------------------------------------------------------
(* The recipes.                                                            *)

LEMMA AssembleStartupStep ==
  ASSUME BInv, AssembleStartup
  PROVE  BInv'
<1> USE DEF AssembleStartup, Making, Remade, OfGoal, Linked
<1>1. "startup.o" \notin fresh /\ startup_o' = [width |-> width]
  OBVIOUS
<1>2. Typed' /\ Chain' /\ RunOf'
  BY <1>1 DEF BInv, Typed, Chain, RunOf, Converting, sources, history, Startups
<1>3. FilesOf'
  BY FilesStay DEF BInv, Converting, history
<1>4. TidyInv'
  BY <1>1 DEF BInv, TidyInv, sources, history
<1> QED  BY <1>2, <1>3, <1>4 DEF BInv

LEMMA CompileStep ==
  ASSUME BInv, ClockOK, Compile
  PROVE  BInv'
<1> USE DEF Compile, Making, Remade, OfGoal, Linked
<1>1. main_o' = [clk |-> clk, board |-> goal, size |-> size]
  OBVIOUS
<1>2. Typed' /\ Chain' /\ RunOf'
  BY <1>1 DEF BInv, Typed, Chain, RunOf, Converting, sources, history, Objects, ClockOK
<1>3. FilesOf'
  BY FilesStay DEF BInv, Converting, history
<1>4. TidyInv'
  BY <1>1 DEF BInv, TidyInv, sources, history
<1> QED  BY <1>2, <1>3, <1>4 DEF BInv

LEMMA LinkStep ==
  ASSUME BInv, Link
  PROVE  BInv'
<1>1. /\ pc = "make" /\ {"startup.o", "main.o"} \subseteq fresh
      /\ UNCHANGED <<search, sources, objects, generated, pll, goal, ran, makes>>
  BY DEF Link, Making, OfGoal
<1>2. CASE Fail /\ UNCHANGED fresh
  <2>1. Typed' /\ Chain' /\ RunOf'
    BY <1>1, <1>2 DEF BInv, Typed, Chain, RunOf, Converting, sources, objects, Fail
  <2>2. FilesOf'
    BY <1>1, <1>2, FilesStay DEF BInv, Converting, Fail
  <2>3. TidyInv'
    BY <1>2 DEF TidyInv, Fail
  <2> QED  BY <2>1, <2>2, <2>3 DEF BInv
<1>3. CASE Remade("elf", Linked) /\ UNCHANGED pc /\ NotFailing
  <2> USE DEF Remade, NotFailing, Linked
  <2>1. Typed' /\ Chain' /\ RunOf'
    BY <1>1, <1>3 DEF BInv, Typed, Chain, RunOf, Converting, sources, objects
  <2>2. FilesOf'
    BY <1>1, <1>3, FilesStay DEF BInv, Converting
  <2>3. TidyInv'
    BY <1>1, <1>3 DEF BInv, TidyInv, sources, objects
  <2> QED  BY <2>1, <2>2, <2>3 DEF BInv
<1> QED  BY <1>2, <1>3 DEF Link

LEMMA CompileConvStep ==
  ASSUME BInv, CompileConv
  PROVE  BInv'
<1> USE DEF CompileConv, Making, Remade, OfGoal
<1>1. Typed' /\ Chain' /\ RunOf'
  BY DEF BInv, Typed, Chain, RunOf, Converting, sources, history, objects
<1>2. FilesOf'
  BY FilesStay DEF BInv, Converting, history
<1>3. TidyInv'
  BY DEF BInv, TidyInv, sources, history, objects
<1> QED  BY <1>1, <1>2, <1>3 DEF BInv

LEMMA MakeBinStep ==
  ASSUME BInv, MakeBin
  PROVE  BInv'
<1> USE DEF MakeBin, ObjCopy, Making, Remade
<1>1. "elf" \in fresh
  BY DEF OfGoal
<1>2. Typed' /\ Chain' /\ RunOf'
  BY <1>1 DEF BInv, Typed, Chain, RunOf, Converting, sources, objects
<1>3. FilesOf'
  BY DEF BInv, FilesOf, Converting
<1>4. TidyInv'
  BY DEF BInv, TidyInv, Converting, sources, objects
<1> QED  BY <1>2, <1>3, <1>4 DEF BInv

LEMMA DumpStep ==
  ASSUME BInv, Dump
  PROVE  BInv'
<1> USE DEF Dump, Making, Remade
<1>1. "bin" \in fresh
  BY DEF OfGoal
<1>2. Typed' /\ Chain' /\ RunOf'
  BY <1>1 DEF BInv, Typed, Chain, RunOf, Converting, sources, objects, history
<1>3. FilesOf'
  BY FilesStay DEF BInv, Converting, history
<1>4. UNCHANGED <<clk, width, goal, size, generated, pc, startup_o, main_o, tidy>>
  BY DEF sources, objects, history
<1>5. Coherent => Coherent'
  BY <1>4, CoherentStays
<1>6. TidyInv'
  BY <1>4, <1>5 DEF BInv, TidyInv
<1> QED  BY <1>2, <1>3, <1>6 DEF BInv

LEMMA MakeDoneStep ==
  ASSUME BInv, MakeDone
  PROVE  BInv'
<1> USE DEF MakeDone
<1>1. "hex" \in fresh
  BY DEF OfGoal
<1>2. Typed' /\ Chain' /\ RunOf'
  BY <1>1 DEF BInv, Typed, Chain, RunOf, Converting, sources, objects, history
<1>3. FilesOf'
  BY FilesStay DEF BInv, Converting, history
<1>4. UNCHANGED <<clk, width, goal, size, generated, startup_o, main_o, tidy, fresh>>
  BY DEF sources, objects, history
<1>5. Coherent => Coherent'
  BY <1>4, CoherentStays
<1>6. TidyInv'
  BY <1>4, <1>5 DEF BInv, TidyInv, Converting
<1> QED  BY <1>2, <1>3, <1>6 DEF BInv

LEMMA StandaloneSteps ==
  ASSUME BInv, Standalone \/ StandaloneStep
  PROVE  BInv'
<1>1. /\ UNCHANGED <<sources, fresh, objects, generated, pll, goal, outcome, history>>
      /\ pc \in {"idle", "standalone"} /\ pc' \in {"idle", "standalone"}
  BY DEF Standalone, StandaloneStep, Idle
<1>2. Typed' /\ Chain' /\ RunOf'
  BY <1>1 DEF BInv, Typed, Chain, RunOf, Converting, sources, objects, history
<1>3. FilesOf'
  BY <1>1, FilesStay DEF BInv, Converting, history
<1>4. UNCHANGED <<clk, width, goal, size, generated, startup_o, main_o, tidy, fresh>>
  BY <1>1 DEF sources, objects, history
<1>5. Coherent => Coherent'
  BY <1>4, CoherentStays
<1>6. TidyInv'
  BY <1>1, <1>4, <1>5 DEF BInv, TidyInv, Converting
<1> QED  BY <1>2, <1>3, <1>6 DEF BInv

-----------------------------------------------------------------------------
(* conv_to_init.                                                           *)

(* Whatever step of it fails, what is there of the files is cut short.     *)
LEMMA FailStep ==
  ASSUME BInv, pc \in Converting, Fail, Untouched,
         params' # None => params # None /\ UNCHANGED params,
         lanes' \in {None, Cut} \/ (params' # None /\ defs' = ran.board)
  PROVE  BInv'
<1> USE DEF Fail, Untouched
<1>1. Typed' /\ Chain' /\ RunOf'
  BY DEF BInv, Typed, Chain, RunOf, Converting, sources, objects
<1>2. FilesOf'
  BY DEF BInv, FilesOf, Converting, ParametersOfRun
<1>3. TidyInv'
  BY DEF TidyInv
<1> QED  BY <1>1, <1>2, <1>3 DEF BInv

(* What does not change when a step of it succeeds.                        *)
LEMMA ConvGoes ==
  ASSUME BInv, pc \in Converting, pc' \in Converting, Untouched, NotFailing
  PROVE  /\ Typed' /\ Chain' /\ TidyInv'
         /\ ran' = [clk |-> clk', width |-> width', board |-> goal']
         /\ clk' = clk /\ goal' = goal
<1> USE DEF Untouched, NotFailing
<1>1. Typed' /\ Chain' /\ TidyInv'
  BY DEF BInv, Typed, Chain, TidyInv, Converting, sources, objects
<1>2. ran' = [clk |-> clk', width |-> width', board |-> goal']
  BY DEF BInv, RunOf, sources
<1> QED  BY <1>1, <1>2 DEF sources

LEMMA ConvStartStep ==
  ASSUME BInv, ConvStart
  PROVE  BInv'
<1> USE DEF ConvStart
<1>1. CASE Fail
  BY <1>1, FailStep DEF Converting, BInv, FilesOf, generated
<1>2. CASE SearchBegin("BOARD_BOTH", clk) /\ pc' = "search" /\ NotFailing
  <2>1. pc \in Converting /\ pc' \in Converting
    BY <1>2 DEF Converting
  <2>2. RunOf'
    BY <1>2, <2>1, ConvGoes DEF RunOf, SearchBegin
  <2>3. FilesOf'
    BY <1>2 DEF BInv, FilesOf, Converting, generated
  <2> QED  BY <1>2, <2>1, <2>2, <2>3, ConvGoes DEF BInv
<1> QED  BY <1>1, <1>2

LEMMA ConvSearchStep ==
  ASSUME BInv, ConvSearch
  PROVE  BInv'
<1> USE DEF ConvSearch
<1>1. pc \in Converting /\ pc' \in Converting
  BY DEF Converting
<1>2. RunOf'
  BY <1>1, ConvGoes DEF BInv, RunOf, SearchRow
<1>3. FilesOf'
  BY DEF BInv, FilesOf, Converting, generated
<1> QED  BY <1>1, <1>2, <1>3, ConvGoes DEF BInv

(* When the loop ends it has found a row.                                  *)
LEMMA Finds ==
  ASSUME SInv, ClockOK, ~Searching, board = "BOARD_BOTH", target_freq = clk
  PROVE  index_min \in 1..SCANNED
<1>1. i = SCANNED + 1
  BY TableAssumption DEF SInv, SearchType, Searching
<1>2. PICK k \in 1..SCANNED : /\ clk - tables[board][k][1] < MIN0
                              /\ tables[board][k][1] - clk < MIN0
  BY RowAssumption DEF ClockOK
<1>3. Diff(k) < MIN0 /\ Diff(k) \in Int
  <2>1. clk \in Int /\ tables[board][k][1] \in Int /\ MIN0 \in Int
    BY BuildAssumption, TableAssumption DEF ClockOK
  <2> QED  BY <1>2, <2>1 DEF Diff, Distance
<1>4. index_min # 0
  BY <1>1, <1>3, TableAssumption DEF SInv, Nothing
<1> QED  BY <1>1, <1>4, TableAssumption DEF SInv, SearchType

LEMMA ConvOpenStep ==
  ASSUME BInv, SInv, ClockOK, ConvOpen
  PROVE  BInv'
<1>1. /\ pc = "search" /\ ~Searching /\ board = "BOARD_BOTH" /\ target_freq = clk
      /\ params = None /\ params' = None /\ lanes = None /\ defs' = defs /\ Untouched
  BY DEF ConvOpen, SearchReturn, BInv, RunOf, FilesOf, Converting
<1>2. CASE Fail /\ lanes' \in {None, Cut}
  BY <1>1, <1>2, FailStep DEF Converting
<1>3. CASE /\ Found[1] = clk
           /\ lanes' = Cut /\ pll' = Found /\ pc' = "sys_parameters" /\ NotFailing
           /\ ~(width <= 0)
  <2>1. pc \in Converting /\ pc' \in Converting
    BY <1>1, <1>3 DEF Converting
  <2>2. /\ index_min \in 1..SCANNED /\ pll' = tables["BOARD_BOTH"][index_min]
        /\ pll'[1] = clk
    BY <1>1, <1>3, Finds DEF Found
  <2>3. RunOf'
    <3>1. width > 0 /\ width' = width
      BY <1>1, <1>3, BuildAssumption DEF BInv, Typed, Untouched, sources
    <3> QED  BY <1>1, <1>3, <2>1, <2>2, <3>1, ConvGoes DEF RunOf
  <2>4. FilesOf'
    BY <1>1, <1>3 DEF FilesOf, Converting
  <2> QED  BY <1>1, <1>3, <2>1, <2>3, <2>4, ConvGoes DEF BInv
<1> QED  BY <1>1, <1>2, <1>3 DEF ConvOpen

LEMMA ConvParametersStep ==
  ASSUME BInv, ConvParameters
  PROVE  BInv'
<1>1. /\ pc = "sys_parameters" /\ Untouched /\ defs' = defs /\ lanes' = lanes
      /\ lanes = Cut /\ params = None
  BY DEF ConvParameters, BInv, FilesOf
<1>2. CASE Fail /\ UNCHANGED params
  BY <1>1, <1>2, FailStep DEF Converting
<1>3. CASE /\ params' = [idiv_sel |-> pll[2], fbdiv_sel |-> pll[3], odiv_sel |-> pll[4],
                         width |-> width, clk |-> pll[1]]
           /\ pc' = "global_defs" /\ NotFailing
  <2>1. pc \in Converting /\ pc' \in Converting
    BY <1>1, <1>3 DEF Converting
  <2>2. PICK k \in 1..SCANNED : pll = tables["BOARD_BOTH"][k] /\ pll[1] = clk
    BY <1>1 DEF BInv, RunOf
  <2>3. /\ k \in DOMAIN tables["BOARD_BOTH"]
        /\ tables["BOARD_BOTH"][k] \in Int \X Int \X Int \X Int
    BY RowAssumption
  <2>4. tables["BOARD_BOTH"][k] = <<clk, pll[2], pll[3], pll[4]>>
    BY <2>2, <2>3
  <2>5. params' \in Parameters
    BY <1>1, <1>3, <2>2, <2>3 DEF Parameters, BInv, Typed
  <2>6. params' # None
    BY <2>5, FileAssumption
  <2>7. RunOf'
    BY <1>3, <2>1, <1>1, ConvGoes DEF RunOf, BInv, Untouched, sources
  <2>8. ParametersOfRun'
    <3>1. /\ params'.clk = ran'.clk /\ params'.width = ran'.width
          /\ params'.idiv_sel = pll[2] /\ params'.fbdiv_sel = pll[3]
          /\ params'.odiv_sel = pll[4] /\ params'.clk = clk
      BY <1>1, <1>3, <2>1, <2>2, ConvGoes DEF BInv, RunOf, Untouched, sources
    <3> QED  BY <2>3, <2>4, <3>1 DEF ParametersOfRun
  <2>9. FilesOf'
    BY <1>1, <1>3, <2>6, <2>8 DEF FilesOf
  <2> QED  BY <1>1, <1>3, <2>1, <2>7, <2>9, ConvGoes DEF BInv
<1> QED  BY <1>2, <1>3 DEF ConvParameters

LEMMA ConvDefsStep ==
  ASSUME BInv, ConvDefs
  PROVE  BInv'
<1>1. /\ pc = "global_defs" /\ Untouched /\ params' = params /\ lanes' = lanes
      /\ lanes = Cut /\ params # None /\ ParametersOfRun
  BY DEF ConvDefs, BInv, FilesOf
<1>2. CASE Fail
  BY <1>1, <1>2, FailStep DEF Converting
<1>3. CASE defs' = goal /\ pc' = "lanes" /\ NotFailing
  <2>1. pc \in Converting /\ pc' \in Converting
    BY <1>1, <1>3 DEF Converting
  <2>2. RunOf'
    BY <1>1, <1>3, <2>1, ConvGoes DEF RunOf, BInv, Untouched, sources
  <2>3. FilesOf'
    BY <1>1, <1>3 DEF FilesOf, ParametersOfRun, Untouched
  <2> QED  BY <1>1, <1>3, <2>1, <2>2, <2>3, ConvGoes DEF BInv
<1> QED  BY <1>2, <1>3 DEF ConvDefs

(* The padded program is no shorter, and whole rows of the lanes.          *)
LEMMA PaddedWhole ==
  ASSUME NEW n \in Nat
  PROVE  Padded(n) \in Nat /\ n <= Padded(n) /\ Padded(n) % 16 = 0
  BY DEF Padded

LEMMA ConvCopyStep ==
  ASSUME BInv, ConvCopy
  PROVE  BInv'
<1> DEFINE bytes == Padded(Program.size)
<1>1. /\ pc = "lanes" /\ Untouched /\ params' = params /\ defs' = defs
      /\ lanes' = [prog |-> Program, bytes |-> bytes]
      /\ params # None /\ ParametersOfRun /\ defs = goal
      /\ ran = [clk |-> clk, width |-> width, board |-> goal]
  BY DEF ConvCopy, BInv, FilesOf, RunOf, Converting
<1>2. {"bin", "elf", "main.o", "startup.o"} \subseteq fresh /\ "hex" \notin fresh
  BY <1>1 DEF BInv, Chain, Converting
<1>3. /\ Program \in Programs /\ Program.size = size /\ size \in Nat
      /\ Program = [clk |-> main_o.clk, width |-> startup_o.width, board |-> main_o.board,
                    size |-> size]
  BY <1>2, BuildAssumption DEF BInv, Typed, Program, Programs, Startups, Objects
<1>4. bytes \in Nat /\ size <= bytes /\ bytes % 16 = 0
  BY <1>3, PaddedWhole
<1>5. lanes' \in Images /\ lanes'.prog = Program /\ lanes'.bytes = bytes
  BY <1>1, <1>3, <1>4 DEF Images
<1>6. lanes' \notin {None, Cut}
  BY <1>5, FileAssumption
<1>7. CASE Fail
  BY <1>1, <1>7, FailStep DEF Converting
<1>8. CASE bytes <= MemBytes(width) /\ pc' = "make" /\ NotFailing
  <2>1. UNCHANGED <<fresh, startup_o, main_o, clk, width, size, goal, ran, outcome, tidy>>
    BY <1>1, <1>8 DEF Untouched, sources, objects, NotFailing
  <2>2. Typed' /\ Chain' /\ RunOf'
    BY <1>1, <1>8, <2>1 DEF BInv, Typed, Chain, RunOf, Converting
  <2>3. FilesOf'
    BY <1>1, <1>6, <1>8, <2>1 DEF FilesOf, ParametersOfRun
  <2>4. ASSUME tidy
        PROVE  Coherent'
    <3>1. params.clk = clk /\ params.width = width
      BY <1>1 DEF ParametersOfRun
    <3>2. Program = [clk |-> clk, width |-> width, board |-> goal, size |-> size]
      BY <1>2, <1>3, <2>4 DEF BInv, TidyInv
    <3>3. MemBytes(width)' = MemBytes(width)
      BY <2>1 DEF MemBytes
    <3> HIDE DEF bytes
    <3> QED  BY <1>1, <1>4, <1>5, <1>6, <1>8, <2>1, <3>1, <3>2, <3>3 DEF Coherent
  <2>5. TidyInv'
    BY <2>1, <2>4 DEF BInv, TidyInv
  <2> QED  BY <2>2, <2>3, <2>5 DEF BInv
<1>9. bytes > MemBytes(width) \/ bytes <= MemBytes(width)
  <2>1. width \in Nat
    BY <1>1, BuildAssumption DEF BInv, Typed, RunOf
  <2>2. 2^width \in Int
    BY <2>1
  <2>3. MemBytes(width) \in Int
    BY <2>2 DEF MemBytes
  <2> HIDE DEF bytes
  <2> QED  BY <1>4, <2>3
<1> QED  BY <1>7, <1>8, <1>9 DEF ConvCopy

-----------------------------------------------------------------------------
LEMMA StutterStep ==
  ASSUME BInv, UNCHANGED vars
  PROVE  BInv'
<1> USE DEF vars
<1>1. UNCHANGED <<clk, width, goal, size, generated, startup_o, main_o, tidy, fresh, ran,
                  pc, outcome, pll, board, target_freq>>
  BY DEF sources, objects, history, search
<1>2. Typed' /\ Chain' /\ RunOf'
  BY <1>1 DEF BInv, Typed, Chain, RunOf, Converting
<1>3. FilesOf'
  BY <1>1 DEF BInv, FilesOf, generated, ParametersOfRun
<1>4. Coherent => Coherent'
  BY <1>1, CoherentStays
<1>5. TidyInv'
  BY <1>1, <1>4 DEF BInv, TidyInv
<1> QED  BY <1>2, <1>3, <1>5 DEF BInv

LEMMA BuildInvariant == Spec => []BInv
<1>1. Init => BInv
  BY DEF Init, BInv, Typed, Goals, Chain, RunOf, FilesOf, TidyInv, Converting
<1>2. BInv /\ SInv /\ ClockOK /\ [Next]_vars => BInv'
  <2> SUFFICES ASSUME BInv, SInv, ClockOK, [Next]_vars
               PROVE  BInv'
    OBVIOUS
  <2>1. CASE User
    BY <2>1, EditMakefileStep, EditSourceStep, CleanStep, MakeStep, InterruptStep DEF User
  <2>2. CASE Recipes
    BY <2>2, AssembleStartupStep, CompileStep, LinkStep, CompileConvStep, MakeBinStep,
       DumpStep, MakeDoneStep DEF Recipes
  <2>3. CASE ConvToInit
    BY <2>3, ConvStartStep, ConvSearchStep, ConvOpenStep, ConvParametersStep,
       ConvDefsStep, ConvCopyStep DEF ConvToInit
  <2>4. CASE Standalone \/ StandaloneStep
    BY <2>4, StandaloneSteps
  <2>5. CASE UNCHANGED vars
    BY <2>5, StutterStep
  <2> QED  BY <2>1, <2>2, <2>3, <2>4, <2>5 DEF Next
<1> QED  BY <1>1, <1>2, SearchInvariant, PTL DEF Spec

(* Whatever is edited, interrupted or failing, files that stand side by    *)
(* side are of one run of conv_to_init; and a make that succeeds and was   *)
(* used as the Makefile says leaves Verilog and software that agree.       *)
THEOREM BuildCoherentAlways == Spec => []BuildCoherent
<1>1. BInv => BuildCoherent
  <2> SUFFICES ASSUME BInv
               PROVE  TidyBuild /\ OneRun
    BY DEF BuildCoherent
  <2>1. TidyBuild
    BY DEF BInv, TidyBuild, TidyInv, Chain, Converting
  <2>2. OneRun
    BY DEF BInv, OneRun, FilesOf
  <2> QED  BY <2>1, <2>2
<1> QED  BY <1>1, BuildInvariant, PTL

=============================================================================
