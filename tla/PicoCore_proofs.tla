---------------------------- MODULE PicoCore_proofs ----------------------------
(***************************************************************************)
(* The control of the core, for every memory, program, set of interrupts   *)
(* and length of a shift.  The invariant says for each state of the main   *)
(* state machine which flags may be set, where the memory interface then   *)
(* is, and what each of them is about: a fetch under way is of the word    *)
(* at due, but behind a branch that is taken.                              *)
(***************************************************************************)
EXTENDS PicoCore, TLAPS

Flagsets == {{}, {"rinst"}, {"prefetch"}, {"prefetch", "rinst"}, {"rdata"}, {"wdata"}}

(* The memory interface is where the flags say it is.                      *)
MemInv ==
  /\ mem_valid <=> mem_state \in {1, 2}
  /\ mem_do \in Flagsets
  /\ mem_state = 1 =>
       mem_do \notin {{}, {"wdata"}} /\ ~mem_write /\ (mem_instr <=> mem_do # {"rdata"})
  /\ mem_state = 2 => mem_do = {"wdata"} /\ mem_write
  /\ mem_state = 3 => "prefetch" \in mem_do /\ ~mem_write

(* What is fetched, being fetched or kept is the word at pc.               *)
FetchOf(pc) ==
  /\ mem_state = 1 /\ mem_do # {"rdata"} => mem_addr = WordOf(pc)
  /\ mem_state = 3 => mem_rdata_q.at = WordOf(pc)

(* The first stage holds the instruction at pc, and in the clock of the    *)
(* trigger the second has the word it needs.                               *)
Decoded(pc) ==
  /\ insn1.at = WordOf(pc)
  /\ IF SecondStage THEN insn1 = mem_rdata_q ELSE insn1 = insn2

Settles == irq_state = 0 /\ ~do_waitirq /\ irq_delay = irq_active
           /\ ~decoder_pseudo_trigger

FetchInv ==
  /\ mem_do \subseteq {"prefetch", "rinst"}
  /\ mem_do = {"rinst"} => mem_state \in {0, 1}
  /\ "prefetch" \in mem_do => mem_state \in {1, 3}
  /\ IF irq_state = 1 THEN reg_next_pc = due ELSE current_pc = due
  /\ latched_branch => /\ mem_state = 0 /\ ~decoder_trigger
                       /\ latched_store /\ latched_stalu => mem_do = {}
  /\ FetchOf(due)
  /\ decoder_trigger => mem_do = {} /\ Decoded(due)
  /\ do_waitirq => /\ mem_do = {} /\ ~decoder_trigger /\ irq_state = 0
                   /\ insn1.kind = "waitirq" /\ insn1.at = WordOf(due)
                   /\ ~latched_branch /\ ~latched_store
                   /\ irq_pending \cap {irq_ebreak, irq_buserror} = {}
  /\ decoder_pseudo_trigger => decoder_trigger
  /\ irq_state # 0 =>
       /\ ~latched_branch /\ ~latched_store /\ ~decoder_trigger
       /\ mem_state = 0
       /\ mem_do = IF irq_state = 1 THEN {} ELSE {"rinst"}
       /\ latched_rd = IF irq_state = 1 THEN "q0" ELSE "q1"
       /\ irq_state = 2 => irq_active
       /\ irq_pending \ irq_mask # {}

LdRs1Inv ==
  /\ Settles /\ ~decoder_trigger
  /\ mem_state = 0
  /\ mem_do = IF Prefetches(insn1.kind) THEN {"prefetch"} ELSE {}
  /\ insn1.kind \notin {"jal", "waitirq"}
  /\ insn1 = insn2 /\ insn1.at = WordOf(reg_pc)
  /\ due = reg_next_pc /\ due = After(reg_pc)
  /\ ~latched_branch /\ ~latched_stalu

ExecInv ==
  /\ Settles /\ ~decoder_trigger
  /\ IF insn1.kind = "jalr" THEN mem_do = {} /\ mem_state = 0
     ELSE mem_do = {"prefetch", "rinst"} /\ mem_state = 1
  /\ insn1 = insn2
  /\ FetchOf(reg_next_pc)
  /\ insn1.kind # "taken" => due = reg_next_pc
  /\ ~latched_stalu

ShiftInv ==
  /\ Settles /\ ~decoder_trigger
  /\ mem_do = {"prefetch"} /\ mem_state \in {1, 3}
  /\ FetchOf(due) /\ due = reg_next_pc
  /\ ~latched_branch

AccessInv(flag, s) ==
  /\ Settles
  /\ \/ mem_do = {"prefetch", "rinst"} /\ mem_state = 1 /\ ~decoder_trigger
        /\ FetchOf(due)
     \/ mem_do = {flag} /\ mem_state = s /\ ~decoder_trigger /\ Decoded(due)
     \/ mem_do = {flag} /\ mem_state = 0 /\ decoder_trigger /\ Decoded(due)
  /\ due = reg_next_pc
  /\ ~latched_branch

(* What is known in each state of the main state machine.                  *)
StateInv ==
  /\ cpu_state = "fetch"  => FetchInv
  /\ cpu_state = "ld_rs1" => LdRs1Inv
  /\ cpu_state = "exec"   => ExecInv
  /\ cpu_state = "shift"  => ShiftInv
  /\ cpu_state = "ldmem"  => AccessInv("rdata", 1)
  /\ cpu_state = "stmem"  => AccessInv("wdata", 2)

(* The core traps for good, and never on its way into a handler.           *)
TrapInv ==
  /\ trap => cpu_state = "trap"
  /\ cpu_state = "trap" => irq_state = 0

(* A fault that is pending is on its way to the handler.  It may only wait *)
(* for the one instruction that follows retirq when that is at an address  *)
(* that is not aligned, and if that instruction masks it the core traps.   *)
TakenNext(i) ==
  /\ i \notin irq_mask /\ ~irq_active
  /\ cpu_state = "fetch" /\ irq_delay => i = irq_buserror /\ ~Aligned(due)
  /\ cpu_state = "ld_rs1" => i = irq_buserror /\ ~Aligned(reg_pc)

Doomed(i) ==
  /\ cpu_state = "fetch" /\ i = irq_buserror /\ ~irq_active /\ irq_state = 0
  /\ ~decoder_trigger
  /\ "prefetch" \in mem_do
  /\ ~Aligned(due) /\ ("rinst" \in mem_do => ~Aligned(reg_pc))

OnItsWay(i) ==
  \/ cpu_state = "fetch" /\ irq_state = 2 /\ i \notin irq_mask
  \/ TakenNext(i)
  \/ i \in irq_mask /\ Doomed(i)

Faults == irq_pending \cap {irq_ebreak, irq_buserror}

(* What misses its alignment behind retirq is the address it returned to.  *)
DelayedFetch ==
  cpu_state = "fetch" /\ irq_delay /\ ~irq_active
    /\ "rinst" \in mem_do /\ ~Aligned(reg_pc) => ~Aligned(due)

FaultInv ==
  /\ cpu_state # "trap" => \A i \in Faults : OnItsWay(i)
  /\ DelayedFetch

IInv == (~trap => MemInv) /\ StateInv /\ TrapInv /\ FaultInv

-----------------------------------------------------------------------------
(* The memory interface: where a clock takes it, for each set of flags.    *)
LEMMA MemoryGoes ==
  ASSUME MemInv, mem_state \in 0 .. 3, MemEdge, resetn, ~trap
  PROVE  /\ mem_valid' <=> mem_state' \in {1, 2}
         /\ mem_state' \in 0 .. 3
         /\ mem_do = {} => mem_state = 0 /\ mem_state' = 0 /\ ~mem_done
         /\ mem_do = {"rinst"} => 
              /\ mem_state \in {0, 1}
              /\ mem_state' = IF mem_done THEN 0 ELSE 1
         /\ mem_do = {"prefetch"} =>
              /\ ~mem_done
              /\ mem_state' \in {1, 3}
         /\ mem_do = {"prefetch", "rinst"} =>
              /\ mem_state' = IF mem_done THEN 0 ELSE 1
         /\ mem_do = {"rdata"} => 
              /\ mem_state \in {0, 1}
              /\ mem_state' = IF mem_done THEN 0 ELSE 1
         /\ mem_do = {"wdata"} => 
              /\ mem_state \in {0, 2}
              /\ mem_state' = IF mem_done THEN 0 ELSE 2
         /\ mem_state = 0 => ~mem_done
         /\ mem_done => mem_do \notin {{}, {"prefetch"}}
         /\ mem_state' = 1 => ~mem_write' /\ (mem_instr' <=> mem_do # {"rdata"})
         /\ mem_state' = 2 => mem_write'
         /\ mem_state' = 3 => ~mem_write' 
<1>1. /\ mem_valid <=> mem_state \in {1, 2}
      /\ mem_state = 1 => mem_do \notin {{}, {"wdata"}}
      /\ mem_state = 2 => mem_do = {"wdata"}
      /\ mem_state = 3 => mem_do \in {{"prefetch"}, {"prefetch", "rinst"}}
      /\ mem_do \in Flagsets
  BY DEF MemInv, Flagsets
<1>2. /\ mem_do \cap {"rinst", "rdata", "wdata"} # {} <=> mem_do \notin {{}, {"prefetch"}}
      /\ mem_do \cap {"rinst", "rdata"} # {} <=>
           mem_do \in {{"rinst"}, {"prefetch", "rinst"}, {"rdata"}}
      /\ mem_do \cap {"prefetch", "rinst", "rdata"} # {} <=> mem_do \notin {{}, {"wdata"}}
      /\ mem_do \cap {"prefetch", "rinst"} # {} <=>
           mem_do \in {{"rinst"}, {"prefetch"}, {"prefetch", "rinst"}}
      /\ "wdata" \in mem_do <=> mem_do = {"wdata"}
      /\ "rinst" \in mem_do <=> mem_do \in {{"rinst"}, {"prefetch", "rinst"}}
  BY <1>1 DEF Flagsets
<1>3. CASE BeginRead
  <2>1. mem_state = 0 /\ mem_state' = 1 /\ mem_valid' = TRUE
    BY <1>3 DEF BeginRead, Request
  <2>7. mem_write' = (1 = 2)
    BY <1>3 DEF BeginRead, Request
  <2>9. 1 # 2
    OBVIOUS
  <2>8. ~mem_write'
    BY <2>7, <2>9, Zenon
  <2>5. mem_do \notin {{}, {"wdata"}}
    BY <1>2, <1>3 DEF BeginRead
  <2>6. mem_instr' = (mem_do \cap {"prefetch", "rinst"} # {})
    BY <1>3 DEF BeginRead, Request
  <2>2. ~mem_done
    BY <2>1 DEF mem_done
  <2>3. mem_instr' <=> mem_do # {"rdata"}
    BY <1>1, <1>2, <2>5, <2>6 DEF Flagsets
  <2>4. QED
    BY <1>1, <2>1, <2>2, <2>3, <2>5, <2>8 DEF Flagsets
<1>8. CASE BeginWrite
  <2>1. /\ mem_state = 0 /\ mem_state' = 2 /\ mem_valid' = TRUE
        /\ mem_write' = TRUE
        /\ mem_do = {"wdata"}
    BY <1>2, <1>8 DEF BeginWrite, Request
  <2>2. ~mem_done
    BY <2>1 DEF mem_done
  <2>4. QED
    BY <1>1, <2>1, <2>2
<1>4. CASE EndRead \/ EndWrite
  BY <1>1, <1>2, <1>4 DEF EndRead, EndWrite, mem_xfer, mem_done, Flagsets, MemInv
<1>5. CASE TakePrefetched
  BY <1>1, <1>2, <1>5 DEF TakePrefetched, mem_xfer, mem_done, Flagsets, MemInv
<1>6. CASE MemIdle
  BY <1>1, <1>2, <1>6 DEF MemIdle, mem_xfer, mem_done, Flagsets, MemInv, bus
<1>7. QED
  BY <1>3, <1>4, <1>5, <1>6, <1>8 DEF MemEdge

(* A fetch stays on its word until that word is the first stage's.         *)
LEMMA FetchGoes ==
  ASSUME NEW pc, FetchOf(pc),
         MemInv, mem_state \in 0 .. 3, MemEdge, DecoderEdge, resetn, ~trap,
         mem_do \in {{}, {"rinst"}, {"prefetch"}, {"prefetch", "rinst"}},
         mem_state = 0 /\ mem_do # {} => next_pc = pc
  PROVE  /\ mem_state' = 1 => mem_addr' = WordOf(pc)
         /\ mem_state' = 3 => mem_rdata_q'.at = WordOf(pc)
         /\ FetchDone => insn1' = mem_rdata_q' /\ insn1'.at = WordOf(pc)
<1>1. /\ mem_valid <=> mem_state \in {1, 2}
      /\ mem_state = 1 => mem_do \notin {{}, {"wdata"}}
      /\ mem_state = 3 => "prefetch" \in mem_do
      /\ mem_state # 2
  BY DEF MemInv
<1>2. /\ mem_do \cap {"prefetch", "rinst"} # {} <=> mem_do # {}
      /\ mem_do \cap {"rinst", "rdata"} # {} <=> "rinst" \in mem_do
      /\ mem_do \cap {"prefetch", "rinst", "rdata"} # {} <=> mem_do # {}
      /\ mem_do \cap {"rinst", "rdata", "wdata"} # {} <=> "rinst" \in mem_do
      /\ "wdata" \notin mem_do /\ mem_do # {"rdata"}
  OBVIOUS
<1>3. /\ mem_xfer => mem_state = 1 /\ mem_rdata_q'.at = mem_addr
      /\ ~mem_xfer => mem_rdata_q' = mem_rdata_q
  BY <1>1 DEF DecoderEdge, mem_xfer
<1>4. mem_state = 1 => mem_addr = WordOf(pc)
  BY <1>2 DEF FetchOf
<1>5. mem_state = 3 => mem_rdata_q.at = WordOf(pc) /\ ~mem_xfer
  BY <1>1 DEF FetchOf, mem_xfer
<1>6. FetchDone => insn1' = mem_rdata_q' /\ insn1'.at = WordOf(pc)
  BY <1>1, <1>2, <1>3, <1>4, <1>5 DEF FetchDone, DecoderEdge, mem_done
<1>7. ASSUME mem_state' = 1 PROVE mem_addr' = WordOf(pc)
  BY <1>1, <1>2, <1>4, <1>7
     DEF MemEdge, BeginRead, BeginWrite, EndRead, EndWrite, TakePrefetched,
         MemIdle, Request, bus
<1>8. ASSUME mem_state' = 3 PROVE mem_rdata_q'.at = WordOf(pc)
  <2>1. mem_state = 3 \/ mem_xfer
    BY <1>1, <1>2, <1>8
       DEF MemEdge, BeginRead, BeginWrite, EndRead, EndWrite, TakePrefetched,
           MemIdle, Request, bus
  <2>2. QED
    BY <2>1, <1>3, <1>4, <1>5
<1>9. QED
  BY <1>6, <1>7, <1>8

(* What the decoder holds when nothing is fetched, and in a trigger.       *)
LEMMA DecoderGoes ==
  ASSUME DecoderEdge
  PROVE  /\ ~FetchDone => insn1' = insn1
         /\ ~SecondStage => insn2' = insn2
         /\ SecondStage /\ insn1 = mem_rdata_q => insn2' = insn1
         /\ ~mem_xfer => mem_rdata_q' = mem_rdata_q
BY DEF DecoderEdge, FetchDone

(* A clock in which the core runs.                                         *)
Clock == MemInv /\ mem_state \in 0 .. 3 /\ MemEdge /\ DecoderEdge /\ resetn /\ ~trap

(* The memory interface is where the new flags say it is, too.             *)
LEMMA MemoryAgrees ==
  ASSUME Clock, mem_do' \in Flagsets,
         mem_state' = 1 => /\ mem_do' \notin {{}, {"wdata"}}
                           /\ mem_do' = {"rdata"} <=> mem_do = {"rdata"},
         mem_state' = 2 => mem_do' = {"wdata"},
         mem_state' = 3 => "prefetch" \in mem_do'
  PROVE  MemInv'
BY MemoryGoes DEF Clock, MemInv

LEMMA EnterInterruptStep ==
  ASSUME Clock, FetchInv, EnterInterrupt, irq_state \in 0 .. 2
  PROVE  MemInv' /\ FetchInv'
<1>1. /\ ~do_waitirq' /\ ~decoder_pseudo_trigger'
      /\ ~latched_branch' /\ ~latched_store'
      /\ decoder_trigger' = FetchDone
      /\ reg_next_pc' = current_pc
      /\ irq_mask' = irq_mask
  BY DEF EnterInterrupt, FetchCommon, Trigger, NoPseudo, NoWait
<1>2. CASE irq_state = 0
  <2>1. decoder_trigger /\ irq_pending \ irq_mask # {}
    BY <1>2 DEF EnterInterrupt, EnterIrq
  <2>2. mem_do = {} /\ mem_state = 0 /\ mem_state' = 0 /\ ~mem_done
    BY <2>1, MemoryGoes DEF FetchInv, Clock
  <2>3. ~Vectors /\ ~Delivers /\ current_pc = due
    BY <1>2 DEF Vectors, Delivers, FetchInv
  <2>4. /\ mem_do' = {} /\ irq_state' = 1 /\ due' = due
        /\ latched_rd' = "q0"
        /\ irq_pending \subseteq irq_pending'
    BY <1>2, <2>1, <2>2, <2>3 DEF EnterInterrupt, Flags, Rinst, Pend
  <2>5. ~FetchDone
    BY <2>2 DEF FetchDone
  <2>6. MemInv'
    BY <2>2, <2>4, MemoryAgrees DEF Flagsets
  <2>7. FetchInv'
    BY <1>1, <2>1, <2>2, <2>3, <2>4, <2>5 DEF FetchInv, FetchOf
  <2>8. QED
    BY <2>6, <2>7
<1>3. CASE irq_state = 1
  <2>2. mem_do = {} /\ mem_state = 0 /\ mem_state' = 0 /\ ~mem_done
    BY <1>3, MemoryGoes DEF FetchInv, Clock
  <2>3. Vectors /\ ~Delivers /\ current_pc = PROGADDR_IRQ
    BY <1>3 DEF Vectors, Delivers, FetchInv, current_pc
  <2>4. /\ mem_do' = {"rinst"} /\ irq_state' = 2 /\ due' = PROGADDR_IRQ
        /\ latched_rd' = "q1"
        /\ irq_pending \subseteq irq_pending'
    BY <1>3, <2>2, <2>3 DEF EnterInterrupt, Flags, Rinst, Pend
  <2>1. irq_active'
    BY <2>3 DEF EnterInterrupt
  <2>5. ~FetchDone
    BY <2>2 DEF FetchDone
  <2>6. MemInv'
    BY <2>2, <2>4, MemoryAgrees DEF Flagsets
  <2>9. current_pc' = due'
    BY <1>1, <2>3, <2>4 DEF current_pc, Vectors
  <2>7. FetchInv'
    BY <1>1, <1>3, <2>1, <2>2, <2>3, <2>4, <2>5, <2>9 DEF FetchInv, FetchOf
  <2>8. QED
    BY <2>6, <2>7
<1>4. CASE irq_state = 2
  <2>1. /\ mem_do = {"rinst"} /\ mem_state = 0 /\ ~do_waitirq
        /\ ~latched_branch /\ ~decoder_trigger
    BY <1>4 DEF FetchInv
  <2>2. mem_state' = 1 /\ ~mem_done
    BY <2>1, MemoryGoes DEF Clock
  <2>3. ~Vectors /\ current_pc = due /\ next_pc = due
    BY <1>4, <2>1 DEF Vectors, FetchInv, current_pc, next_pc
  <2>4. mem_do' = {"rinst"} /\ irq_state' = 0 /\ due' = due
    BY <1>4, <2>1, <2>2, <2>3 DEF EnterInterrupt, Flags, Rinst
  <2>5. ~FetchDone
    BY <2>2 DEF FetchDone
  <2>6. MemInv'
    BY <2>1, <2>2, <2>4, MemoryAgrees DEF Flagsets
  <2>9. current_pc' = due'
    BY <1>1, <2>3, <2>4 DEF current_pc, Vectors
  <2>10. mem_addr' = WordOf(due)
    BY <2>1, <2>2, <2>3, FetchGoes DEF Clock, FetchInv
  <2>7. FetchInv'
    BY <1>1, <2>2, <2>4, <2>5, <2>9, <2>10 DEF FetchInv, FetchOf
  <2>8. QED
    BY <2>6, <2>7
<1>5. QED
  BY <1>2, <1>3, <1>4

LEMMA WaitForInterruptStep ==
  ASSUME Clock, FetchInv, WaitForInterrupt, irq_state \in 0 .. 2, irq \subseteq Sources
  PROVE  MemInv' /\ FetchInv'
<1>1. /\ ~decoder_pseudo_trigger' /\ ~latched_branch'
      /\ decoder_trigger' = FetchDone
      /\ irq_mask' = irq_mask /\ irq_state' = irq_state /\ irq_active' = irq_active
  BY DEF WaitForInterrupt, FetchCommon, Trigger, NoPseudo
<1>2. irq_state = 0 /\ (decoder_trigger \/ do_waitirq) /\ insn1.kind = "waitirq"
  BY DEF WaitForInterrupt, EnterIrq, WaitsIrq
<1>3. mem_do = {} /\ insn1.at = WordOf(due) /\ ~latched_branch /\ current_pc = due
  BY <1>2 DEF FetchInv, Decoded
<1>4. mem_state = 0 /\ mem_state' = 0 /\ ~mem_done /\ ~FetchDone
  BY <1>3, MemoryGoes DEF FetchInv, Clock, FetchDone
<1>5. insn1' = insn1
  BY <1>4, DecoderGoes DEF Clock
<1>6. CASE irq_pending = {}
  <2>1. mem_do' = {}
    BY <1>2, <1>3, <1>4, <1>6 DEF WaitForInterrupt, Flags, Rinst
  <2>2. reg_next_pc' = due /\ due' = due /\ ~latched_store'
    BY <1>3, <1>6 DEF WaitForInterrupt
  <2>3. ~Misaligned
    BY <1>3 DEF Misaligned
  <2>4. irq_pending' \cap {irq_ebreak, irq_buserror} = {}
    BY <2>3, <1>6, CoreAssumption
       DEF WaitForInterrupt, Pend, irq_timer, irq_ebreak, irq_buserror, Irq
  <2>5. current_pc' = due'
    BY <1>1, <1>2, <2>2 DEF current_pc, Vectors
  <2>6. MemInv'
    BY <1>4, <2>1, MemoryAgrees DEF Flagsets
  <2>7. FetchInv'
    BY <1>1, <1>2, <1>3, <1>4, <1>5, <2>1, <2>2, <2>4, <2>5 DEF FetchInv, FetchOf
  <2>8. QED
    BY <2>6, <2>7
<1>7. CASE irq_pending # {}
  <2>1. mem_do' = {"rinst"}
    BY <1>3, <1>4, <1>7 DEF WaitForInterrupt, Flags, Rinst
  <2>2. reg_next_pc' = After(due) /\ due' = After(due) /\ ~do_waitirq'
    BY <1>3, <1>7 DEF WaitForInterrupt
  <2>5. current_pc' = due'
    BY <1>1, <1>2, <2>2 DEF current_pc, Vectors
  <2>6. MemInv'
    BY <1>4, <2>1, MemoryAgrees DEF Flagsets
  <2>7. FetchInv'
    BY <1>1, <1>2, <1>4, <2>1, <2>2, <2>5 DEF FetchInv, FetchOf
  <2>8. QED
    BY <2>6, <2>7
<1>8. QED
  BY <1>6, <1>7

LEMMA LaunchJalStep ==
  ASSUME Clock, FetchInv, LaunchJal, irq_state \in 0 .. 2
  PROVE  MemInv' /\ FetchInv'
<1>1. /\ ~decoder_pseudo_trigger' /\ ~do_waitirq' /\ ~latched_store'
      /\ decoder_trigger' = FetchDone
      /\ irq_state' = irq_state
      /\ reg_next_pc' = insn1.target /\ due' = insn1.target
  BY DEF LaunchJal, FetchCommon, Trigger, NoPseudo, NoWait
<1>2. irq_state = 0 /\ decoder_trigger
  BY DEF LaunchJal, EnterIrq
<1>3. mem_do = {} /\ mem_state = 0 /\ mem_state' = 0 /\ ~mem_done /\ ~FetchDone
  BY <1>2, MemoryGoes DEF FetchInv, Clock, FetchDone
<1>4. mem_do' = {"rinst"}
  BY <1>3 DEF LaunchJal, Flags, Rinst
<1>5. current_pc' = due'
  BY <1>1, <1>2 DEF current_pc, Vectors
<1>6. MemInv'
  BY <1>3, <1>4, MemoryAgrees DEF Flagsets
<1>7. FetchInv'
  BY <1>1, <1>2, <1>3, <1>4, <1>5 DEF FetchInv, FetchOf
<1>8. QED
  BY <1>6, <1>7

LEMMA LaunchStep ==
  ASSUME Clock, FetchInv, Launch, irq_state \in 0 .. 2
  PROVE  MemInv' /\ LdRs1Inv'
<1>1. /\ ~decoder_pseudo_trigger' /\ ~do_waitirq'
      /\ ~latched_branch' /\ ~latched_stalu'
      /\ decoder_trigger' = FetchDone
      /\ irq_state' = irq_state /\ irq_active' = irq_active /\ irq_delay' = irq_active
      /\ reg_pc' = current_pc
      /\ reg_next_pc' = After(current_pc) /\ due' = After(current_pc)
      /\ insn1.kind # "jal"
  BY DEF Launch, FetchCommon, Trigger, NoPseudo, NoWait, DelaysIrq
<1>2. irq_state = 0 /\ decoder_trigger /\ insn1.kind # "waitirq"
  BY DEF Launch, EnterIrq, WaitsIrq
<1>3. mem_do = {} /\ mem_state = 0 /\ mem_state' = 0 /\ ~mem_done /\ ~FetchDone
  BY <1>2, MemoryGoes DEF FetchInv, Clock, FetchDone
<1>4. mem_do' = IF Prefetches(insn1.kind) THEN {"prefetch"} ELSE {}
  BY <1>3 DEF Launch, Flags
<1>5. current_pc = due /\ Decoded(due)
  BY <1>2 DEF FetchInv
<1>6. insn1' = insn1 /\ insn2' = insn1 /\ insn1.at = WordOf(due)
  BY <1>3, <1>5, DecoderGoes DEF Clock, Decoded
<1>7. MemInv'
  BY <1>3, <1>4, MemoryAgrees DEF Flagsets
<1>8. LdRs1Inv'
  BY <1>1, <1>2, <1>3, <1>4, <1>5, <1>6 DEF LdRs1Inv, Settles
<1>9. QED
  BY <1>7, <1>8

LEMMA AwaitInsnStep ==
  ASSUME Clock, FetchInv, AwaitInsn, irq_state \in 0 .. 2
  PROVE  MemInv' /\ FetchInv'
<1>1. /\ ~decoder_pseudo_trigger' /\ ~do_waitirq'
      /\ ~latched_store' /\ ~latched_branch'
      /\ decoder_trigger' = FetchDone
      /\ irq_state' = irq_state
      /\ reg_next_pc' = current_pc /\ due' = due
  BY DEF AwaitInsn, FetchCommon, Trigger, NoPseudo, NoWait
<1>2. irq_state = 0 /\ ~do_waitirq
  BY DEF AwaitInsn, EnterIrq, WaitsIrq, FetchInv
<1>3. current_pc = due /\ current_pc' = due'
  BY <1>1, <1>2 DEF FetchInv, current_pc, Vectors
<1>4. mem_do \in {{}, {"rinst"}, {"prefetch"}, {"prefetch", "rinst"}}
  BY DEF Clock, MemInv, Flagsets, FetchInv
<1>5. mem_state = 0 /\ mem_do # {} => next_pc = due
  BY <1>2, <1>3 DEF next_pc, current_pc, Vectors, FetchInv
<1>6. /\ mem_state' = 1 => mem_addr' = WordOf(due)
      /\ mem_state' = 3 => mem_rdata_q'.at = WordOf(due)
      /\ FetchDone => insn1' = mem_rdata_q' /\ insn1'.at = WordOf(due)
  BY <1>4, <1>5, FetchGoes DEF Clock, FetchInv
<1>7. mem_do' = IF mem_done THEN {} ELSE mem_do \cup {"rinst"}
  BY <1>2 DEF AwaitInsn, Flags, Rinst
<1>8. MemInv' /\ mem_do' \in {{}, {"rinst"}, {"prefetch", "rinst"}}
      /\ (mem_do' = {"rinst"} => mem_state' \in {0, 1})
      /\ ("prefetch" \in mem_do' => mem_state' \in {1, 3})
      /\ (FetchDone => mem_do' = {})
  <2>1. CASE mem_do = {}
    BY <1>7, <2>1, MemoryGoes, MemoryAgrees DEF Clock, Flagsets, FetchDone
  <2>2. CASE mem_do = {"rinst"}
    BY <1>7, <2>2, MemoryGoes, MemoryAgrees DEF Clock, Flagsets, FetchDone
  <2>3. CASE mem_do = {"prefetch"}
    <3>1. mem_do' = {"prefetch", "rinst"} /\ mem_state' \in {1, 3}
      BY <1>7, <2>3, MemoryGoes DEF Clock
    <3>2. QED
      BY <2>3, <3>1, MemoryAgrees DEF Flagsets, FetchDone
  <2>4. CASE mem_do = {"prefetch", "rinst"}
    BY <1>7, <2>4, MemoryGoes, MemoryAgrees DEF Clock, Flagsets, FetchDone
  <2>5. QED
    BY <1>4, <2>1, <2>2, <2>3, <2>4
<1>9. FetchInv'
  BY <1>1, <1>2, <1>3, <1>6, <1>8 DEF FetchInv, FetchOf, Decoded, SecondStage
<1>10. QED
  BY <1>8, <1>9

(* The fetch behind an instruction that has its operands: it begins, and   *)
(* at the address that follows.                                            *)
LEMMA Ldrs1Fetches ==
  ASSUME Clock, LdRs1Inv
  PROVE  /\ ~mem_done /\ ~FetchDone
         /\ insn1' = insn1 /\ insn2' = insn2 /\ insn1 = insn2
         /\ IF Prefetches(insn1.kind)
            THEN mem_do = {"prefetch"} /\ mem_state' = 1 /\ mem_addr' = WordOf(due)
            ELSE mem_do = {} /\ mem_state' = 0
<1>1. ~mem_done /\ ~FetchDone
  BY MemoryGoes DEF Clock, LdRs1Inv, FetchDone
<1>2. insn1' = insn1 /\ insn2' = insn2 /\ insn1 = insn2
  BY <1>1, DecoderGoes DEF Clock, LdRs1Inv, SecondStage
<1>3. next_pc = due
  BY DEF next_pc, LdRs1Inv
<1>4. CASE Prefetches(insn1.kind)
  <2>1. mem_do = {"prefetch"} /\ mem_state = 0
    BY <1>4 DEF LdRs1Inv
  <2>2. mem_state' = 1
    <3>1. BeginRead
      BY <2>1 DEF Clock, MemEdge, BeginRead, BeginWrite, EndRead, EndWrite, TakePrefetched, MemIdle
    <3>2. QED
      BY <3>1 DEF BeginRead, Request
  <2>3. FetchOf(due)
    BY <2>1 DEF FetchOf
  <2>4. QED
    BY <1>1, <1>2, <1>3, <1>4, <2>1, <2>2, <2>3, FetchGoes DEF Clock
<1>5. CASE ~Prefetches(insn1.kind)
  BY <1>1, <1>2, <1>5, MemoryGoes DEF Clock, LdRs1Inv
<1>6. QED
  BY <1>4, <1>5

LEMMA IllegalInsnStep ==
  ASSUME Clock, LdRs1Inv, IllegalInsn
  PROVE  MemInv' /\ FetchInv'
<1>1. /\ ~decoder_pseudo_trigger' /\ ~do_waitirq'
      /\ ~latched_branch' /\ decoder_trigger' = FetchDone
      /\ irq_state' = 0
      /\ reg_next_pc' = due /\ due' = due
  BY DEF IllegalInsn, LdRs1Common, Trigger, NoPseudo, NoWait, LdRs1Inv, Settles
<1>2. Prefetches(insn1.kind)
  BY Ldrs1Fetches DEF IllegalInsn, Prefetches
<1>3. ~FetchDone /\ mem_state' = 1 /\ mem_addr' = WordOf(due)
      /\ mem_do = {"prefetch"} /\ mem_do' = {"prefetch"}
  BY <1>2, Ldrs1Fetches DEF IllegalInsn, Flags
<1>4. current_pc' = due'
  BY <1>1 DEF current_pc, Vectors
<1>5. MemInv'
  BY <1>3, MemoryAgrees DEF Flagsets
<1>6. FetchInv'
  BY <1>1, <1>3, <1>4 DEF FetchInv, FetchOf
<1>7. QED
  BY <1>5, <1>6

LEMMA QuickInsnStep ==
  ASSUME Clock, LdRs1Inv, QuickInsn
  PROVE  MemInv' /\ FetchInv'
<1>1. /\ ~decoder_pseudo_trigger' /\ ~do_waitirq'
      /\ ~latched_branch' /\ decoder_trigger' = FetchDone
      /\ irq_state' = 0
      /\ reg_next_pc' = due /\ due' = due
  BY DEF QuickInsn, LdRs1Common, Trigger, NoPseudo, NoWait, LdRs1Inv, Settles
<1>2. Prefetches(insn1.kind)
  BY Ldrs1Fetches DEF QuickInsn, Prefetches
<1>3. ~FetchDone /\ mem_state' = 1 /\ mem_addr' = WordOf(due)
      /\ mem_do = {"prefetch"} /\ mem_do' = {"prefetch"}
  BY <1>2, Ldrs1Fetches DEF QuickInsn, Flags
<1>4. current_pc' = due'
  BY <1>1 DEF current_pc, Vectors
<1>5. MemInv'
  BY <1>3, MemoryAgrees DEF Flagsets
<1>6. FetchInv'
  BY <1>1, <1>3, <1>4 DEF FetchInv, FetchOf
<1>7. QED
  BY <1>5, <1>6

LEMMA RetIrqStep ==
  ASSUME Clock, LdRs1Inv, RetIrq
  PROVE  MemInv' /\ FetchInv'
<1>1. /\ ~decoder_pseudo_trigger' /\ ~do_waitirq'
      /\ latched_branch' /\ latched_store' /\ ~latched_stalu'
      /\ decoder_trigger' = FetchDone
      /\ irq_state' = 0
      /\ due' = reg_out'
  BY DEF RetIrq, LdRs1Common, Trigger, NoPseudo, NoWait, LdRs1Inv, Settles
<1>2. ~Prefetches(insn1.kind)
  BY Ldrs1Fetches DEF RetIrq, Prefetches
<1>3. ~FetchDone /\ mem_state' = 0 /\ mem_do = {} /\ mem_do' = {}
  BY <1>2, Ldrs1Fetches DEF RetIrq, Flags
<1>4. current_pc' = due'
  BY <1>1 DEF current_pc
<1>5. MemInv'
  BY <1>3, MemoryAgrees DEF Flagsets
<1>6. FetchInv'
  BY <1>1, <1>3, <1>4 DEF FetchInv, FetchOf
<1>7. QED
  BY <1>5, <1>6

(* Where SendOn goes.                                                      *)
SentTo ==
  IF insn2.kind \in {"load", "badload"} THEN "ldmem"
  ELSE IF insn2.kind \in {"store", "badstore"} THEN "stmem"
  ELSE IF insn2.kind = "shift" THEN "shift" ELSE "exec"


LEMMA SendOnStep ==
  ASSUME Clock, LdRs1Inv, SendOn
  PROVE  /\ MemInv' /\ Goto(SentTo)
         /\ SentTo = "ldmem" => AccessInv("rdata", 1)'
         /\ SentTo = "stmem" => AccessInv("wdata", 2)'
         /\ SentTo = "shift" => ShiftInv'
         /\ SentTo = "exec" => ExecInv'
<1>1. /\ Settles'
      /\ ~latched_branch' /\ ~latched_stalu' /\ decoder_trigger' = FetchDone
      /\ reg_next_pc' = due /\ due' = due
  BY DEF SendOn, LdRs1Common, Trigger, NoPseudo, NoWait, LdRs1Inv, Settles
<1>2. /\ ~FetchDone /\ ~mem_done /\ insn1' = insn1 /\ insn2' = insn2 /\ insn1 = insn2
      /\ IF Prefetches(insn2.kind)
         THEN mem_do = {"prefetch"} /\ mem_state' = 1 /\ mem_addr' = WordOf(due)
         ELSE mem_do = {} /\ mem_state' = 0
  BY Ldrs1Fetches
<1>3. Goto(SentTo)
  BY DEF SendOn, SentTo
<1>4. CASE SentTo \in {"ldmem", "stmem"}
  <2>1. Prefetches(insn2.kind) /\ mem_do' = {"prefetch", "rinst"}
    BY <1>2, <1>4 DEF SentTo, SendOn, Prefetches, Flags, Rinst
  <2>2. MemInv'
    BY <1>2, <2>1, MemoryAgrees DEF Flagsets
  <2>3. AccessInv("rdata", 1)' /\ AccessInv("wdata", 2)'
    BY <1>1, <1>2, <2>1 DEF AccessInv, FetchOf
  <2>4. QED
    BY <1>3, <1>4, <2>2, <2>3
<1>5. CASE SentTo = "shift"
  <2>1. Prefetches(insn2.kind) /\ mem_do' = {"prefetch"}
    BY <1>2, <1>5 DEF SentTo, SendOn, Prefetches, Flags
  <2>2. MemInv'
    BY <1>2, <2>1, MemoryAgrees DEF Flagsets
  <2>3. ShiftInv'
    BY <1>1, <1>2, <2>1 DEF ShiftInv, FetchOf
  <2>4. QED
    BY <1>3, <1>5, <2>2, <2>3
<1>6. CASE SentTo = "exec"
  <2>1. mem_do' = IF insn2.kind = "jalr" THEN {} ELSE {"prefetch", "rinst"}
    BY <1>2, <1>6 DEF SentTo, SendOn, Prefetches, Flags, Rinst
  <2>5. Prefetches(insn2.kind) <=> insn2.kind # "jalr"
    BY DEF SendOn, Prefetches
  <2>2. MemInv'
    BY <1>2, <2>1, <2>5, MemoryAgrees DEF Flagsets
  <2>3. ExecInv'
    BY <1>1, <1>2, <2>1, <2>5 DEF ExecInv, FetchOf
  <2>4. QED
    BY <1>3, <1>6, <2>2, <2>3
<1>7. QED
  BY <1>4, <1>5, <1>6 DEF SentTo

(* A branch that is taken throws away what the fetch behind it delivers.   *)
LEMMA BranchStep ==
  ASSUME Clock, ExecInv, Branch
  PROVE  /\ MemInv'
         /\ IF mem_done THEN FetchInv' ELSE ExecInv'
<1>1. /\ ~decoder_pseudo_trigger' /\ ~do_waitirq'
      /\ irq_state' = 0 /\ irq_delay' = irq_active'
      /\ reg_out' = insn2.target /\ reg_next_pc' = reg_next_pc
      /\ ~latched_stalu'
      /\ insn1 = insn2 /\ insn1.kind # "jalr"
      /\ mem_do = {"prefetch", "rinst"} /\ mem_state = 1
  BY DEF Branch, ExecCommon, NoPseudo, NoWait, ExecInv, Settles, irqs
<1>2. /\ mem_state' = IF mem_done THEN 0 ELSE 1
      /\ FetchDone <=> mem_done
  BY <1>1, MemoryGoes DEF Clock, FetchDone
<1>3. /\ mem_state' = 1 => mem_addr' = WordOf(reg_next_pc)
      /\ FetchDone => insn1' = mem_rdata_q' /\ insn1'.at = WordOf(reg_next_pc)
  BY <1>1, FetchGoes DEF Clock, ExecInv
<1>4. CASE mem_done /\ insn2.kind = "taken"
  <2>1. /\ mem_do' = {"rinst"} /\ ~decoder_trigger'
        /\ latched_store' = TRUE /\ latched_branch' = TRUE
        /\ due' = insn2.target
    BY <1>4 DEF Branch, Flags, Trigger
  <2>2. current_pc' = due'
    BY <1>1, <2>1 DEF current_pc
  <2>3. MemInv'
    BY <1>1, <1>2, <1>4, <2>1, MemoryAgrees DEF Flagsets
  <2>4. FetchInv'
    BY <1>1, <1>2, <1>4, <2>1, <2>2 DEF FetchInv, FetchOf
  <2>5. QED
    BY <1>4, <2>3, <2>4
<1>5. CASE mem_done /\ insn2.kind # "taken"
  <2>1. /\ mem_do' = {}
        /\ latched_store' = FALSE /\ latched_branch' = FALSE
        /\ due' = due /\ due = reg_next_pc
    BY <1>1, <1>5 DEF Branch, Flags, ExecInv
  <2>2. current_pc' = due'
    BY <1>1, <2>1 DEF current_pc, Vectors
  <2>3. MemInv'
    BY <1>1, <1>2, <1>5, <2>1, MemoryAgrees DEF Flagsets
  <2>4. Decoded(due)'
    BY <1>1, <1>2, <1>3, <1>5, <2>1 DEF Branch, Trigger, Decoded, SecondStage
  <2>5. FetchInv'
    BY <1>1, <1>2, <1>5, <2>1, <2>2, <2>4 DEF FetchInv, FetchOf
  <2>6. QED
    BY <1>5, <2>3, <2>5
<1>6. CASE ~mem_done
  <2>1. mem_do' = {"prefetch", "rinst"}
    BY <1>1, <1>6 DEF Branch, Flags
  <2>2. ~FetchDone /\ ~decoder_trigger'
    BY <1>2, <1>6 DEF Branch, Trigger
  <2>3. insn1' = insn1 /\ insn2' = insn2
    BY <2>2, DecoderGoes DEF Clock, ExecInv, SecondStage
  <2>4. MemInv'
    BY <1>1, <1>2, <1>6, <2>1, MemoryAgrees DEF Flagsets
  <2>5. insn1.kind # "taken" => due' = reg_next_pc
    BY <1>1 DEF Branch, ExecInv
  <2>6. ExecInv'
    BY <1>1, <1>2, <1>3, <1>6, <2>1, <2>2, <2>3, <2>5 DEF ExecInv, FetchOf, Settles
  <2>7. QED
    BY <1>6, <2>4, <2>6
<1>7. QED
  BY <1>4, <1>5, <1>6

LEMMA ExecuteStep ==
  ASSUME Clock, ExecInv, Execute
  PROVE  MemInv' /\ FetchInv'
<1>1. /\ ~decoder_pseudo_trigger' /\ ~do_waitirq'
      /\ irq_state' = 0
      /\ reg_next_pc' = reg_next_pc
      /\ latched_store' = TRUE /\ latched_stalu' = TRUE
      /\ decoder_trigger' = FetchDone
      /\ mem_do' = IF mem_done THEN {} ELSE mem_do
  BY DEF Execute, ExecCommon, NoPseudo, NoWait, Trigger, Flags, ExecInv, Settles, irqs
<1>2. CASE insn1.kind = "jalr"
  <2>1. mem_do = {} /\ mem_state' = 0 /\ ~FetchDone
    BY <1>2, MemoryGoes DEF ExecInv, Clock, FetchDone
  <2>2. latched_branch' = TRUE /\ due' = alu_out_q'
    BY <1>2 DEF Execute
  <2>3. current_pc' = due' /\ mem_do' = {}
    BY <1>1, <2>1, <2>2 DEF current_pc
  <2>4. MemInv'
    BY <2>1, <2>3, MemoryAgrees DEF Flagsets
  <2>5. FetchInv'
    BY <1>1, <2>1, <2>2, <2>3 DEF FetchInv, FetchOf
  <2>6. QED
    BY <2>4, <2>5
<1>3. CASE insn1.kind # "jalr"
  <2>1. /\ mem_do = {"prefetch", "rinst"} /\ mem_state = 1
        /\ due = reg_next_pc
    BY <1>3 DEF ExecInv, Execute
  <2>2. ~latched_branch' /\ due' = due
    BY <1>3 DEF Execute
  <2>3. /\ mem_state' = IF mem_done THEN 0 ELSE 1
        /\ FetchDone <=> mem_done
    BY <2>1, MemoryGoes DEF Clock, FetchDone
  <2>4. /\ mem_state' = 1 => mem_addr' = WordOf(due)
        /\ FetchDone => insn1' = mem_rdata_q' /\ insn1'.at = WordOf(due)
    BY <2>1, FetchGoes DEF Clock, ExecInv
  <2>5. current_pc' = due'
    BY <1>1, <2>1, <2>2 DEF current_pc, Vectors
  <2>6. MemInv'
    BY <1>1, <2>1, <2>3, MemoryAgrees DEF Flagsets
  <2>7. FetchInv'
    BY <1>1, <2>1, <2>2, <2>3, <2>4, <2>5 DEF FetchInv, FetchOf, Decoded, SecondStage
  <2>8. QED
    BY <2>6, <2>7
<1>4. QED
  BY <1>2, <1>3

LEMMA ShiftStep ==
  ASSUME Clock, ShiftInv, Shift
  PROVE  /\ MemInv'
         /\ IF reg_sh = 0 THEN FetchInv' ELSE ShiftInv'
<1>1. /\ Settles' /\ irq_state' = 0
      /\ reg_next_pc' = reg_next_pc /\ due' = due
      /\ ~latched_branch'
      /\ decoder_trigger' = FetchDone
      /\ mem_do = {"prefetch"} /\ mem_state \in {1, 3}
  BY DEF Shift, NoPseudo, NoWait, NoJump, StoreLatched, Trigger, ShiftInv, Settles, irqs
<1>2. mem_state' \in {1, 3} /\ ~mem_done /\ ~FetchDone
  BY <1>1, MemoryGoes DEF Clock, FetchDone
<1>3. /\ mem_state' = 1 => mem_addr' = WordOf(due)
      /\ mem_state' = 3 => mem_rdata_q'.at = WordOf(due)
  BY <1>1, FetchGoes DEF Clock, ShiftInv
<1>4. mem_do' = IF reg_sh = 0 THEN {"prefetch", "rinst"} ELSE {"prefetch"}
  BY <1>1, <1>2 DEF Shift, Flags, Rinst
<1>5. MemInv'
  BY <1>1, <1>2, <1>4, MemoryAgrees DEF Flagsets
<1>6. current_pc' = due'
  BY <1>1 DEF current_pc, Vectors, ShiftInv
<1>7. CASE reg_sh = 0
  BY <1>1, <1>2, <1>3, <1>4, <1>5, <1>6, <1>7 DEF FetchInv, FetchOf, Settles
<1>8. CASE reg_sh # 0
  BY <1>1, <1>2, <1>3, <1>4, <1>5, <1>8 DEF ShiftInv, FetchOf
<1>9. QED
  BY <1>7, <1>8

LEMMA AccessStep ==
  ASSUME Clock,
         NEW flag, NEW s, NEW bad,
         <<flag, s>> \in {<<"rdata", 1>>, <<"wdata", 2>>},
         AccessInv(flag, s), AccessData(flag, bad),
         ~latched_branch'
  PROVE  /\ MemInv'
         /\ IF MemOver THEN FetchInv' ELSE AccessInv(flag, s)'
<1>1. /\ ~do_waitirq' /\ irq_state' = 0 /\ irq_delay' = irq_active'
      /\ reg_next_pc' = reg_next_pc /\ due' = due /\ due = reg_next_pc
      /\ decoder_trigger' = (FetchDone \/ MemOver)
      /\ decoder_pseudo_trigger' = MemOver
      /\ ~decoder_pseudo_trigger
  BY DEF AccessData, NoWait, NoJump, Trigger, AccessInv, Settles, irqs
<1>2. current_pc' = due'
  BY <1>1 DEF current_pc, Vectors
<1>3. CASE mem_do = {"prefetch", "rinst"}
  <2>1. mem_state = 1 /\ FetchOf(due) /\ ~MemOver /\ flag \notin mem_do
    BY <1>3 DEF AccessInv, MemOver
  <2>2. /\ mem_state' = IF mem_done THEN 0 ELSE 1
        /\ FetchDone <=> mem_done
        /\ MemTurn <=> mem_done
    BY <1>3, MemoryGoes DEF Clock, FetchDone, MemTurn
  <2>3. /\ mem_state' = 1 => mem_addr' = WordOf(due)
        /\ FetchDone => insn1' = mem_rdata_q' /\ insn1'.at = WordOf(due)
    BY <1>3, <2>1, FetchGoes DEF Clock
  <2>4. mem_do' = IF mem_done THEN {flag} ELSE mem_do
    BY <2>1, <2>2 DEF AccessData, Flags
  <2>5. MemInv'
    BY <1>3, <2>1, <2>2, <2>4, MemoryAgrees DEF Flagsets
  <2>6. Settles' /\ ~latched_branch' /\ due' = reg_next_pc'
        /\ (decoder_trigger' <=> mem_done)
    BY <1>1, <2>1, <2>2 DEF Settles
  <2>7. CASE mem_done
    <3>1. Decoded(due)'
      BY <1>1, <2>1, <2>2, <2>3, <2>6, <2>7 DEF Decoded, SecondStage
    <3>2. AccessInv(flag, s)'
      BY <2>2, <2>4, <2>6, <2>7, <3>1 DEF AccessInv
    <3>3. QED
      BY <2>1, <2>5, <3>2
  <2>8. CASE ~mem_done
    <3>1. FetchOf(due)'
      BY <1>1, <2>2, <2>3, <2>8 DEF FetchOf
    <3>2. AccessInv(flag, s)'
      BY <1>3, <2>2, <2>4, <2>6, <2>8, <3>1 DEF AccessInv
    <3>3. QED
      BY <2>1, <2>5, <3>2
  <2>9. QED
    BY <2>7, <2>8
<1>4. CASE mem_do = {flag}
  <2>10. flag \notin {"prefetch", "rinst"} /\ s # 0
    OBVIOUS
  <2>1. /\ mem_state \in {0, s} /\ (decoder_trigger <=> mem_state = 0)
        /\ Decoded(due)
        /\ ~FetchDone /\ (MemOver <=> mem_done)
    BY <1>4, <2>10 DEF AccessInv, MemOver, FetchDone
  <2>2. mem_state' = (IF mem_done THEN 0 ELSE s) /\ (mem_state = 0 => ~mem_done)
    BY <1>4, MemoryGoes DEF Clock
  <2>3. insn1' = insn1 /\ insn2' = insn1
    BY <1>1, <2>1, DecoderGoes DEF Clock, Decoded
  <2>4. mem_do' = IF mem_done THEN {} ELSE mem_do
    BY <1>4 DEF AccessData, Flags
  <2>5. MemInv'
    BY <1>4, <2>1, <2>2, <2>4, MemoryAgrees DEF Flagsets
  <2>6. Decoded(due)'
    BY <1>1, <2>1, <2>3 DEF Decoded, SecondStage
  <2>7. CASE mem_done
    <3>1. decoder_trigger'
      BY <1>1, <2>1, <2>7
    <3>2. mem_do' = {} /\ mem_state' = 0
      BY <2>2, <2>4, <2>7
    <3>3. FetchInv'
      BY <1>1, <1>2, <2>6, <3>1, <3>2 DEF FetchInv, FetchOf
    <3>4. QED
      BY <2>1, <2>5, <2>7, <3>3
  <2>8. CASE ~mem_done
    BY <1>1, <1>4, <2>1, <2>2, <2>4, <2>5, <2>6, <2>8 DEF AccessInv, Settles
  <2>9. QED
    BY <2>7, <2>8
<1>5. QED
  BY <1>3, <1>4 DEF AccessInv

(* A clock keeps what is known of every state.                             *)
LEMMA ResetStep ==
  ASSUME ~resetn, MemEdge, ResetCore
  PROVE  MemInv' /\ cpu_state' = "fetch" /\ FetchInv' /\ ~trap' /\ ~irq_delay'
<1>1. /\ cpu_state' = "fetch" /\ trap' = FALSE /\ irq_delay' = FALSE
      /\ decoder_trigger' = FALSE /\ decoder_pseudo_trigger' = FALSE
      /\ do_waitirq' = FALSE /\ latched_branch' = FALSE
      /\ mem_do' = {} /\ irq_state' = 0 /\ reg_next_pc' = 0 /\ due' = 0
  BY DEF ResetCore, Trigger, NoPseudo, NoWait
<1>2. mem_state' = 0 /\ mem_valid' = FALSE
  BY DEF MemEdge
<1>3. MemInv'
  BY <1>1, <1>2 DEF MemInv, Flagsets
<1>4. current_pc' = due'
  BY <1>1 DEF current_pc, Vectors
<1>5. FetchInv'
  BY <1>1, <1>2, <1>4 DEF FetchInv, FetchOf
<1>6. QED
  BY <1>1, <1>3, <1>5

Kept == (~trap => MemInv) /\ StateInv /\ TrapInv

LEMMA RunStep ==
  ASSUME Kept, TypeOK, irq \subseteq Sources, resetn,
         MemEdge, DecoderEdge, CoreEdge
  PROVE  Kept'
<1> DEFINE Goes(s) == cpu_state' = s \/ cpu_state' = "trap"
<1>1. \A s : Goto(s) => Goes(s)
  BY DEF Goto
<1>2. /\ cpu_state # "trap" => ~trap /\ Clock
      /\ irq_state \in 0 .. 2 /\ mem_state \in 0 .. 3
  BY DEF Kept, TrapInv, Clock, TypeOK
<1>3. CASE EnterInterrupt
  <2>1. cpu_state = "fetch" /\ trap' = trap /\ Goto("fetch")
    BY <1>3 DEF EnterInterrupt, FetchCommon
  <2>2. MemInv' /\ FetchInv'
    BY <1>2, <1>3, <2>1, EnterInterruptStep DEF Kept, StateInv
  <2>3. Goes("fetch")
    BY <1>1, <2>1
  <2>4. irq_state' # 0 => cpu_state' = "fetch"
    <3>1. irq_state' # 0 => mem_do = {}
      BY <1>2, <1>3, <2>1
         DEF EnterInterrupt, EnterIrq, Kept, StateInv, FetchInv
    <3>2. mem_do = {} => ~Misaligned
      BY DEF Misaligned
    <3>3. QED
      BY <2>1, <3>1, <3>2 DEF Goto
  <2>5. QED
    BY <1>2, <2>1, <2>2, <2>3, <2>4 DEF Kept, StateInv, TrapInv
<1>4. CASE WaitForInterrupt \/ LaunchJal \/ AwaitInsn
  <2>1. cpu_state = "fetch" /\ trap' = trap /\ Goto("fetch") /\ irq_state' = 0
    BY <1>2, <1>4 DEF WaitForInterrupt, LaunchJal, AwaitInsn, FetchCommon, EnterIrq
  <2>2. MemInv' /\ FetchInv'
    BY <1>2, <1>4, <2>1, WaitForInterruptStep, LaunchJalStep, AwaitInsnStep
       DEF Kept, StateInv
  <2>3. Goes("fetch")
    BY <1>1, <2>1
  <2>4. QED
    BY <1>2, <2>1, <2>2, <2>3 DEF Kept, StateInv, TrapInv
<1>5. CASE Launch
  <2>1. cpu_state = "fetch" /\ trap' = trap /\ Goto("ld_rs1")
    BY <1>2, <1>5 DEF Launch, FetchCommon
  <2>2. MemInv' /\ LdRs1Inv'
    BY <1>2, <1>5, <2>1, LaunchStep DEF Kept, StateInv
  <2>3. Goes("ld_rs1")
    BY <1>1, <2>1
  <2>4. QED
    BY <1>2, <2>1, <2>2, <2>3 DEF Kept, StateInv, TrapInv, LdRs1Inv, Settles
<1>6. CASE IllegalInsn \/ QuickInsn \/ RetIrq
  <2>1. /\ cpu_state = "ld_rs1" /\ trap' = trap /\ irq_state' = irq_state
        /\ Goto("fetch") \/ Goto("trap")
    BY <1>6 DEF IllegalInsn, QuickInsn, RetIrq, LdRs1Common
  <2>2. MemInv' /\ FetchInv' /\ irq_state' = 0
    BY <1>2, <1>6, <2>1, IllegalInsnStep, QuickInsnStep, RetIrqStep
       DEF Kept, StateInv, LdRs1Inv, Settles
  <2>3. Goes("fetch")
    BY <1>1, <2>1
  <2>4. QED
    BY <1>2, <2>1, <2>2, <2>3 DEF Kept, StateInv, TrapInv
<1>7. CASE SendOn
  <2>1. cpu_state = "ld_rs1" /\ trap' = trap /\ irq_state' = irq_state
    BY <1>7 DEF SendOn, LdRs1Common
  <2>2. LdRs1Inv /\ irq_state' = 0
    BY <2>1 DEF Kept, StateInv, LdRs1Inv, Settles
  <2>3. /\ MemInv' /\ Goto(SentTo)
        /\ SentTo = "ldmem" => AccessInv("rdata", 1)'
        /\ SentTo = "stmem" => AccessInv("wdata", 2)'
        /\ SentTo = "shift" => ShiftInv'
        /\ SentTo = "exec" => ExecInv'
    BY <1>2, <1>7, <2>1, <2>2, SendOnStep
  <2>4. Goes(SentTo)
    BY <1>1, <2>3
  <2>5. SentTo \in {"ldmem", "stmem", "shift", "exec"}
    BY DEF SentTo
  <2>6. QED
    BY <1>2, <2>1, <2>2, <2>3, <2>4, <2>5 DEF Kept, StateInv, TrapInv
<1>8. CASE Branch
  <2>1. cpu_state = "exec" /\ trap' = trap /\ irq_state' = irq_state
        /\ Goto(IF mem_done THEN "fetch" ELSE "exec")
    BY <1>8 DEF Branch, ExecCommon, irqs
  <2>2. ExecInv /\ irq_state' = 0
    BY <2>1 DEF Kept, StateInv, ExecInv, Settles
  <2>3. MemInv' /\ IF mem_done THEN FetchInv' ELSE ExecInv'
    BY <1>2, <1>8, <2>1, <2>2, BranchStep
  <2>4. Goes(IF mem_done THEN "fetch" ELSE "exec")
    BY <1>1, <2>1
  <2>5. QED
    BY <1>2, <2>1, <2>2, <2>3, <2>4 DEF Kept, StateInv, TrapInv
<1>9. CASE Execute
  <2>1. cpu_state = "exec" /\ trap' = trap /\ irq_state' = irq_state
        /\ Goto("fetch")
    BY <1>9 DEF Execute, ExecCommon, irqs
  <2>2. ExecInv /\ irq_state' = 0
    BY <2>1 DEF Kept, StateInv, ExecInv, Settles
  <2>3. MemInv' /\ FetchInv'
    BY <1>2, <1>9, <2>1, <2>2, ExecuteStep
  <2>4. Goes("fetch")
    BY <1>1, <2>1
  <2>5. QED
    BY <1>2, <2>1, <2>2, <2>3, <2>4 DEF Kept, StateInv, TrapInv
<1>10. CASE Shift
  <2>1. cpu_state = "shift" /\ trap' = trap /\ irq_state' = irq_state
        /\ Goto(IF reg_sh = 0 THEN "fetch" ELSE "shift")
    BY <1>10 DEF Shift, irqs
  <2>2. ShiftInv /\ irq_state' = 0
    BY <2>1 DEF Kept, StateInv, ShiftInv, Settles
  <2>3. MemInv' /\ IF reg_sh = 0 THEN FetchInv' ELSE ShiftInv'
    BY <1>2, <1>10, <2>1, <2>2, ShiftStep
  <2>4. Goes(IF reg_sh = 0 THEN "fetch" ELSE "shift")
    BY <1>1, <2>1
  <2>5. QED
    BY <1>2, <2>1, <2>2, <2>3, <2>4 DEF Kept, StateInv, TrapInv
<1>11. CASE Store
  <2>1. cpu_state = "stmem" /\ trap' = trap /\ irq_state' = irq_state
        /\ Goto(IF MemOver THEN "fetch" ELSE "stmem")
    BY <1>11 DEF Store, AccessData, irqs
  <2>2. AccessInv("wdata", 2) /\ irq_state' = 0
    BY <2>1 DEF Kept, StateInv, AccessInv, Settles
  <2>3. ~latched_branch'
    BY <1>11, <2>2 DEF Store, latches, AccessInv
  <2>4. MemInv' /\ IF MemOver THEN FetchInv' ELSE AccessInv("wdata", 2)'
    BY <1>2, <1>11, <2>1, <2>2, <2>3, AccessStep DEF Store
  <2>5. Goes(IF MemOver THEN "fetch" ELSE "stmem")
    BY <1>1, <2>1
  <2>6. QED
    BY <1>2, <2>1, <2>2, <2>4, <2>5 DEF Kept, StateInv, TrapInv
<1>12. CASE Load
  <2>1. cpu_state = "ldmem" /\ trap' = trap /\ irq_state' = irq_state
        /\ Goto(IF MemOver THEN "fetch" ELSE "ldmem")
    BY <1>12 DEF Load, AccessData, irqs
  <2>2. AccessInv("rdata", 1) /\ irq_state' = 0
    BY <2>1 DEF Kept, StateInv, AccessInv, Settles
  <2>3. ~latched_branch'
    BY <1>12, <2>2 DEF Load, StoreLatched, AccessInv
  <2>4. MemInv' /\ IF MemOver THEN FetchInv' ELSE AccessInv("rdata", 1)'
    BY <1>2, <1>12, <2>1, <2>2, <2>3, AccessStep DEF Load
  <2>5. Goes(IF MemOver THEN "fetch" ELSE "ldmem")
    BY <1>1, <2>1
  <2>6. QED
    BY <1>2, <2>1, <2>2, <2>4, <2>5 DEF Kept, StateInv, TrapInv
<1>13. CASE Trapped
  <2>1. cpu_state = "trap" /\ trap' /\ irq_state' = irq_state /\ Goto("trap")
    BY <1>13 DEF Trapped, irqs
  <2>2. cpu_state' = "trap"
    BY <2>1 DEF Goto
  <2>3. QED
    BY <2>1, <2>2 DEF Kept, StateInv, TrapInv
<1>14. QED
  BY <1>3, <1>4, <1>5, <1>6, <1>7, <1>8, <1>9, <1>10, <1>11, <1>12, <1>13 DEF CoreEdge

-----------------------------------------------------------------------------
(* The program counter counts round, and two by two.                       *)
LEMMA AfterInPc ==
  ASSUME NEW pc \in Pc
  PROVE  After(pc) \in Pc /\ (Aligned(After(pc)) <=> Aligned(pc))
<1>1. PC_MOD \in Nat /\ PC_MOD >= 2 /\ PC_MOD % 2 = 0
  BY CoreAssumption
<1>2. pc \in Nat /\ pc < PC_MOD
  BY <1>1 DEF Pc
<1>3. CASE pc + 2 < PC_MOD
  <2>1. (pc + 2) % PC_MOD = pc + 2
    BY <1>1, <1>2, <1>3
  <2>2. QED
    BY <1>1, <1>2, <1>3, <2>1 DEF Pc, After, Aligned
<1>4. CASE pc + 2 >= PC_MOD
  <2>1. (pc + 2) % PC_MOD = pc + 2 - PC_MOD
    BY <1>1, <1>2, <1>4
  <2>2. QED
    BY <1>1, <1>2, <1>4, <2>1 DEF Pc, After, Aligned
<1>5. QED
  BY <1>1, <1>2, <1>3, <1>4

LEMMA InsnHasTarget ==
  ASSUME NEW i \in Insn \cup {Garbage}
  PROVE  i.target \in Pc
<1>1. 0 \in Pc
  BY CoreAssumption DEF Pc
<1>2. QED
  BY <1>1 DEF Insn, Garbage

Typed == TypeOK /\ irq \subseteq Sources

LEMMA CoreKeepsTypes ==
  ASSUME Typed, CoreEdge
  PROVE  /\ mem_do' \subseteq {"prefetch", "rinst", "rdata", "wdata"}
         /\ cpu_state' \in {"trap", "fetch", "ld_rs1", "exec", "shift", "stmem", "ldmem"}
         /\ {reg_pc', reg_next_pc', reg_out', alu_out_q', due'} \subseteq Pc
         /\ irq_state' \in 0 .. 2
         /\ irq_pending' \subseteq Irq /\ irq_mask' \subseteq Irq
         /\ timer' \in 0 .. TIMER_MAX
<1>1. /\ 0 \in Pc /\ PROGADDR_IRQ \in Pc /\ TIMER_MAX \in Nat
      /\ Sources \subseteq Irq /\ {irq_timer, irq_ebreak, irq_buserror} \subseteq Irq
  BY CoreAssumption DEF Pc, Irq, irq_timer, irq_ebreak, irq_buserror
<1>2. current_pc \in Pc /\ After(current_pc) \in Pc
  <2>1. current_pc \in Pc
    BY <1>1 DEF current_pc, Typed, TypeOK
  <2>2. QED
    BY <2>1, AfterInPc
<1>3. insn1.target \in Pc /\ insn2.target \in Pc
  BY InsnHasTarget DEF Typed, TypeOK
<1>4. mem_do' \subseteq {"prefetch", "rinst", "rdata", "wdata"}
  <2>1. \A set, f : /\ Flags(set, f)
                    /\ set \subseteq {"prefetch", "rinst", "rdata", "wdata"}
                    /\ f \subseteq {"prefetch", "rinst", "rdata", "wdata"}
                    => mem_do' \subseteq {"prefetch", "rinst", "rdata", "wdata"}
    BY DEF Flags
  <2>2. \A on : Rinst(on) \subseteq {"prefetch", "rinst", "rdata", "wdata"}
    BY DEF Rinst, Typed, TypeOK
  <2>3. CASE ResetCore
    BY <2>1, <2>2, <2>3 DEF ResetCore, Typed, TypeOK
  <2>4. CASE EnterInterrupt \/ WaitForInterrupt \/ LaunchJal
    BY <2>1, <2>2, <2>4 DEF EnterInterrupt, WaitForInterrupt, LaunchJal, FetchCommon, Typed, TypeOK
  <2>5. CASE Launch \/ AwaitInsn
    <3>1. \A P : (mem_do \ {"rinst", "prefetch"})
                 \cup (IF P THEN {"prefetch"} ELSE {})
                   \subseteq {"prefetch", "rinst", "rdata", "wdata"}
      BY DEF Typed, TypeOK
    <3>2. QED
      BY <2>1, <2>2, <2>5, <3>1 DEF Launch, AwaitInsn
  <2>6. CASE IllegalInsn \/ QuickInsn \/ RetIrq
    BY <2>1, <2>2, <2>6 DEF IllegalInsn, QuickInsn, RetIrq, LdRs1Common, Typed, TypeOK
  <2>7. CASE SendOn
    BY <2>1, <2>2, <2>7 DEF SendOn, LdRs1Common, Typed, TypeOK
  <2>8. CASE Branch \/ Execute
    BY <2>1, <2>2, <2>8 DEF Branch, Execute, ExecCommon, Typed, TypeOK
  <2>9. CASE Shift \/ Trapped
    BY <2>1, <2>2, <2>9 DEF Shift, Trapped, NoJump, Typed, TypeOK
  <2>10. CASE Store \/ Load
    BY <2>1, <2>2, <2>10 DEF Store, Load, AccessData, NoJump, Typed, TypeOK
  <2>11. QED
    BY <2>3, <2>4, <2>5, <2>6, <2>7, <2>8, <2>9, <2>10 DEF CoreEdge
<1>5. cpu_state' \in {"trap", "fetch", "ld_rs1", "exec", "shift", "stmem", "ldmem"}
  <2>1. \A s : /\ Goto(s)
               /\ s \in {"trap", "fetch", "ld_rs1", "exec", "shift", "stmem", "ldmem"}
               => cpu_state' \in
                    {"trap", "fetch", "ld_rs1", "exec", "shift", "stmem", "ldmem"}
    BY DEF Goto
  <2>2. QED
    BY <2>1
       DEF CoreEdge, ResetCore, EnterInterrupt, WaitForInterrupt,
           LaunchJal, Launch, AwaitInsn, IllegalInsn, QuickInsn, RetIrq, SendOn,
           Branch, Execute, Shift, Store, Load, Trapped
<1>6. {reg_pc', reg_next_pc', reg_out', alu_out_q', due'} \subseteq Pc
  <2>1. CASE ResetCore
    BY <1>1, <1>2, <1>3, <2>1 DEF ResetCore, Typed, TypeOK
  <2>2. CASE EnterInterrupt \/ WaitForInterrupt \/ LaunchJal
    BY <1>1, <1>2, <1>3, <2>2 DEF EnterInterrupt, WaitForInterrupt, LaunchJal, FetchCommon, Typed, TypeOK
  <2>3. CASE Launch \/ AwaitInsn
    BY <1>1, <1>2, <1>3, <2>3 DEF Launch, AwaitInsn, FetchCommon, Typed, TypeOK
  <2>4. CASE IllegalInsn \/ QuickInsn \/ RetIrq
    BY <1>1, <1>2, <1>3, <2>4 DEF IllegalInsn, QuickInsn, RetIrq, LdRs1Common, Typed, TypeOK
  <2>5. CASE SendOn
    BY <1>1, <1>2, <1>3, <2>5 DEF SendOn, LdRs1Common, Typed, TypeOK
  <2>6. CASE Branch \/ Execute
    BY <1>1, <1>2, <1>3, <2>6 DEF Branch, Execute, ExecCommon, Typed, TypeOK
  <2>7. CASE Shift \/ Trapped
    BY <1>1, <1>2, <1>3, <2>7 DEF Shift, Trapped, NoJump, Typed, TypeOK
  <2>8. CASE Store \/ Load
    BY <1>1, <1>2, <1>3, <2>8 DEF Store, Load, AccessData, NoJump, Typed, TypeOK
  <2>9. QED
    BY <2>1, <2>2, <2>3, <2>4, <2>5, <2>6, <2>7, <2>8 DEF CoreEdge
<1>7. irq_state' \in 0 .. 2
  <2>1. CASE ResetCore
    BY <2>1 DEF ResetCore, Typed, TypeOK, irqs
  <2>2. CASE EnterInterrupt \/ WaitForInterrupt \/ LaunchJal
    <3>1. (irq_state + 1) % 3 \in 0 .. 2 /\ irq_state \in 0 .. 2
      BY DEF Typed, TypeOK
    <3>2. QED
      BY <2>2, <3>1 DEF EnterInterrupt, WaitForInterrupt, LaunchJal
  <2>3. CASE Launch \/ AwaitInsn
    BY <2>3 DEF Launch, AwaitInsn, FetchCommon, Typed, TypeOK, irqs
  <2>4. CASE IllegalInsn \/ QuickInsn \/ RetIrq
    BY <2>4 DEF IllegalInsn, QuickInsn, RetIrq, LdRs1Common, Typed, TypeOK, irqs
  <2>5. CASE SendOn
    BY <2>5 DEF SendOn, LdRs1Common, Typed, TypeOK, irqs
  <2>6. CASE Branch \/ Execute
    BY <2>6 DEF Branch, Execute, ExecCommon, Typed, TypeOK, irqs
  <2>7. CASE Shift \/ Trapped
    BY <2>7 DEF Shift, Trapped, NoJump, Typed, TypeOK, irqs
  <2>8. CASE Store \/ Load
    BY <2>8 DEF Store, Load, AccessData, NoJump, Typed, TypeOK, irqs
  <2>9. QED
    BY <2>1, <2>2, <2>3, <2>4, <2>5, <2>6, <2>7, <2>8 DEF CoreEdge
<1>8. irq_pending' \subseteq Irq
  <2>1. irq_pending \subseteq Irq /\ irq \subseteq Irq
    BY <1>1 DEF Typed, TypeOK
  <2>2. \A p : p \subseteq Irq /\ Pend(p) => irq_pending' \subseteq Irq
    BY <1>1, <2>1 DEF Pend
  <2>3. QED
    BY <1>1, <2>1, <2>2
       DEF CoreEdge, ResetCore, EnterInterrupt,
         WaitForInterrupt, LaunchJal, Launch, AwaitInsn, LdRs1Common, IllegalInsn,
         QuickInsn, RetIrq, SendOn, ExecCommon, Branch, Execute, Shift, Store,
         Load, AccessData, Trapped
<1>9. irq_mask' \subseteq Irq
  BY DEF Typed, TypeOK, CoreEdge, ResetCore, FetchCommon, EnterInterrupt,
         WaitForInterrupt, LaunchJal, Launch, AwaitInsn, LdRs1Common, IllegalInsn,
         QuickInsn, RetIrq, SendOn, ExecCommon, Branch, Execute, Shift, Store,
         Load, AccessData, Trapped, irqs
<1>10. timer' \in 0 .. TIMER_MAX
  <2>1. CountDown => timer' \in 0 .. TIMER_MAX
    BY <1>1 DEF CountDown, Typed, TypeOK
  <2>2. CASE ResetCore
    BY <1>1, <2>1, <2>2 DEF ResetCore
  <2>3. CASE EnterInterrupt \/ WaitForInterrupt \/ LaunchJal
    BY <1>1, <2>1, <2>3 DEF EnterInterrupt, WaitForInterrupt, LaunchJal, FetchCommon
  <2>4. CASE Launch \/ AwaitInsn
    BY <1>1, <2>1, <2>4 DEF Launch, AwaitInsn, FetchCommon
  <2>5. CASE IllegalInsn \/ QuickInsn \/ RetIrq
    BY <1>1, <2>1, <2>5 DEF IllegalInsn, QuickInsn, RetIrq, LdRs1Common
  <2>6. CASE SendOn
    BY <1>1, <2>1, <2>6 DEF SendOn, LdRs1Common
  <2>7. CASE Branch \/ Execute
    BY <1>1, <2>1, <2>7 DEF Branch, Execute, ExecCommon
  <2>8. CASE Shift \/ Trapped
    BY <1>1, <2>1, <2>8 DEF Shift, Trapped, NoJump
  <2>9. CASE Store \/ Load
    BY <1>1, <2>1, <2>9 DEF Store, Load, AccessData, NoJump
  <2>10. QED
    BY <2>2, <2>3, <2>4, <2>5, <2>6, <2>7, <2>8, <2>9 DEF CoreEdge
<1>11. QED
  BY <1>4, <1>5, <1>6, <1>7, <1>8, <1>9, <1>10

LEMMA TypedStep == Typed /\ Next => Typed'
<1>1. SUFFICES ASSUME Typed, Next PROVE Typed'
  OBVIOUS
<1>2. mem_state' \in 0 .. 3
  BY <1>1 DEF Typed, TypeOK, Next, MemEdge, BeginRead, BeginWrite, EndRead,
              EndWrite, TakePrefetched, MemIdle, Request, bus
<1>6. mem_valid' \in BOOLEAN
  <2>1. CASE resetn /\ trap
    <3>1. mem_valid' = (mem_valid /\ ~mem_ready)
      BY <1>1, <2>1 DEF Next, MemEdge
    <3>2. QED
      BY <3>1, Zenon
  <2>2. CASE ~(resetn /\ trap)
    BY <1>1, <2>2 DEF Typed, TypeOK, Next, MemEdge, BeginRead, BeginWrite, EndRead,
                      EndWrite, TakePrefetched, MemIdle, Request, bus
  <2>3. QED
    BY <2>1, <2>2
<1>3. {mem_rdata_q', insn1', insn2'} \subseteq Insn \cup {Garbage}
  BY <1>1 DEF Typed, TypeOK, Next, DecoderEdge
<1>4. irq' \subseteq Sources
  BY <1>1 DEF Next, Inputs
<1>5. QED
  BY <1>1, <1>2, <1>3, <1>4, <1>6, CoreKeepsTypes DEF Typed, TypeOK, Next

(* The interrupts of faults that a clock can make pending.                 *)
LEMMA FaultsOf ==
  ASSUME NEW p, Pend(p), irq \subseteq Sources
  PROVE  /\ irq_ebreak # irq_buserror
         /\ irq_ebreak \in irq_pending' => irq_ebreak \in p
         /\ irq_buserror \in irq_pending' =>
              irq_buserror \in p \/ (Misaligned /\ Interrupts(irq_buserror))
<1>1. irq_ebreak \notin irq /\ irq_buserror \notin irq
  BY CoreAssumption
<1>2. irq_ebreak # irq_buserror /\ irq_ebreak # irq_timer /\ irq_buserror # irq_timer
  BY DEF irq_timer, irq_ebreak, irq_buserror
<1>3. \A i \in irq_pending' :
        \/ i \in p \/ i \in irq \/ i = irq_timer
        \/ i = irq_buserror /\ Misaligned /\ Interrupts(irq_buserror)
  BY DEF Pend
<1>4. irq_ebreak \in irq_pending' => irq_ebreak \in p
  BY <1>1, <1>2, <1>3
<1>5. ASSUME irq_buserror \in irq_pending', irq_buserror \notin p
      PROVE  Misaligned /\ Interrupts(irq_buserror)
  <2>1. \/ irq_buserror \in p \/ irq_buserror \in irq \/ irq_buserror = irq_timer
        \/ irq_buserror = irq_buserror /\ Misaligned /\ Interrupts(irq_buserror)
    BY <1>3, <1>5
  <2>2. QED
    BY <1>1, <1>2, <1>5, <2>1
<1>6. QED
  BY <1>2, <1>4, <1>5

LEMMA EnterInterruptFaults ==
  ASSUME FetchInv, FaultInv, EnterInterrupt, Typed
  PROVE  FaultInv'
<1>1. /\ cpu_state = "fetch" /\ irq_state \in 0 .. 2
      /\ irq_state' = (irq_state + 1) % 3
      /\ irq_mask' = irq_mask /\ irq_delay' = irq_delay
      /\ (irq_active' <=> irq_active \/ Vectors)
  BY DEF EnterInterrupt, FetchCommon, Typed, TypeOK
<1>2. CASE irq_state = 0
  <2>1. decoder_trigger /\ mem_do = {} /\ ~Vectors /\ ~Delivers
    BY <1>2 DEF EnterInterrupt, EnterIrq, FetchInv, Vectors, Delivers
  <2>2. /\ irq_state' = 1 /\ due' = due /\ ~Misaligned /\ mem_do' = {}
        /\ Pend(irq_pending)
    BY <1>1, <1>2, <2>1 DEF EnterInterrupt, Misaligned, Flags, Rinst
  <2>3. ASSUME NEW i \in Faults' PROVE OnItsWay(i)'
    <3>1. i \in Faults
      BY <2>2, <2>3, FaultsOf DEF Faults, Typed
    <3>2. TakenNext(i)
      BY <1>1, <1>2, <2>1, <3>1 DEF FaultInv, OnItsWay, Doomed
    <3>3. QED
      BY <1>1, <2>1, <2>2, <3>2 DEF EnterInterrupt, Goto, OnItsWay, TakenNext
  <2>4. QED
    BY <2>2, <2>3 DEF FaultInv, DelayedFetch
<1>3. CASE irq_state = 1
  <2>1. mem_do = {} /\ Vectors /\ ~Delivers
    BY <1>3 DEF FetchInv, Vectors, Delivers
  <2>2. /\ irq_state' = 2 /\ irq_active' /\ ~Misaligned
        /\ Pend(irq_pending) /\ cpu_state' = "fetch"
    BY <1>1, <1>3, <2>1 DEF EnterInterrupt, Misaligned, Goto
  <2>3. ASSUME NEW i \in Faults' PROVE OnItsWay(i)'
    <3>1. i \in Faults
      BY <2>2, <2>3, FaultsOf DEF Faults, Typed
    <3>2. TakenNext(i)
      BY <1>1, <1>3, <3>1 DEF FaultInv, OnItsWay, Doomed
    <3>3. QED
      BY <1>1, <2>2, <3>2 DEF OnItsWay, TakenNext
  <2>4. QED
    BY <2>2, <2>3 DEF FaultInv, DelayedFetch
<1>4. CASE irq_state = 2
  <2>1. Delivers /\ irq_active
    BY <1>4 DEF FetchInv, Delivers
  <2>2. irq_active' /\ Pend(irq_pending \cap irq_mask)
    BY <1>1, <2>1 DEF EnterInterrupt
  <2>3. ASSUME NEW i \in Faults' PROVE FALSE
    <3>1. i \in Faults /\ i \in irq_mask
      BY <2>1, <2>2, <2>3, FaultsOf DEF Faults, Typed, Interrupts
    <3>2. QED
      BY <1>1, <1>4, <3>1 DEF FaultInv, OnItsWay, TakenNext, Doomed
  <2>4. QED
    BY <2>2, <2>3 DEF FaultInv, DelayedFetch
<1>5. QED
  BY <1>1, <1>2, <1>3, <1>4

(* The steps of the fetch state that find a decoded instruction.           *)
LEMMA LaunchFaults ==
  ASSUME FetchInv, FaultInv, Typed,
         WaitForInterrupt \/ LaunchJal \/ Launch
  PROVE  FaultInv'
<1>1. /\ cpu_state = "fetch" /\ irq_state = 0 /\ irq_state' = 0
      /\ irq_mask' = irq_mask /\ irq_active' = irq_active
      /\ reg_pc' = current_pc
      /\ Pend(irq_pending)
  BY DEF WaitForInterrupt, LaunchJal, Launch, FetchCommon, EnterIrq, Typed, TypeOK
<1>2. mem_do = {} /\ ~Misaligned /\ current_pc = due /\ due \in Pc
  <2>1. decoder_trigger \/ do_waitirq
    BY DEF WaitForInterrupt, LaunchJal, Launch, WaitsIrq
  <2>2. mem_do = {} /\ current_pc = due
    BY <1>1, <2>1 DEF FetchInv
  <2>3. QED
    BY <2>2 DEF Misaligned, Typed, TypeOK
<1>3. ASSUME NEW i \in Faults' PROVE i \in Faults /\ TakenNext(i)
  <2>1. i \in Faults
    BY <1>1, <1>2, <1>3, FaultsOf DEF Faults, Typed
  <2>2. QED
    BY <1>1, <1>2, <2>1 DEF FaultInv, OnItsWay, Doomed
<1>4. CASE WaitForInterrupt
  <2>1. /\ irq_delay' = irq_delay /\ cpu_state' = "fetch"
        /\ due' = IF irq_pending = {} THEN due ELSE After(due)
    BY <1>2, <1>4 DEF WaitForInterrupt, Goto
  <2>2. Aligned(due') <=> Aligned(due)
    BY <1>2, <2>1, AfterInPc
  <2>3. ASSUME NEW i \in Faults' PROVE OnItsWay(i)'
    BY <1>1, <1>3, <2>1, <2>2, <2>3 DEF OnItsWay, TakenNext, Aligned
  <2>4. DelayedFetch'
    BY <1>1, <1>2, <2>2 DEF DelayedFetch, Aligned
  <2>5. QED
    BY <2>3, <2>4 DEF FaultInv
<1>5. CASE LaunchJal \/ Launch
  <2>1. irq_delay' = irq_active /\ decoder_trigger
        /\ cpu_state' \in {"fetch", "ld_rs1"}
    BY <1>2, <1>5 DEF LaunchJal, Launch, Goto, DelaysIrq
  <2>2. ASSUME NEW i \in Faults' PROVE OnItsWay(i)'
    <3>1. i \in irq_pending /\ i \notin irq_mask /\ ~irq_active
      BY <1>3, <2>2 DEF Faults, TakenNext
    <3>2. irq_delay
      BY <1>5, <2>1, <3>1 DEF LaunchJal, Launch, EnterIrq
    <3>3. i = irq_buserror /\ ~Aligned(due)
      BY <1>1, <1>3, <2>2, <3>2 DEF TakenNext
    <3>4. QED
      BY <1>1, <1>2, <2>1, <3>1, <3>3 DEF OnItsWay, TakenNext, Aligned
  <2>3. DelayedFetch'
    BY <1>1, <2>1 DEF DelayedFetch
  <2>4. QED
    BY <2>2, <2>3 DEF FaultInv
<1>6. QED
  BY <1>4, <1>5

LEMMA AwaitInsnFaults ==
  ASSUME FetchInv, FaultInv, Typed, AwaitInsn
  PROVE  FaultInv'
<1>1. /\ cpu_state = "fetch" /\ irq_state = 0 /\ irq_state' = 0
      /\ ~decoder_trigger
      /\ irq_mask' = irq_mask /\ irq_active' = irq_active /\ irq_delay' = irq_delay
      /\ reg_pc' = current_pc /\ due' = due
      /\ Pend(irq_pending) /\ Goto("fetch")
      /\ decoder_trigger' = FetchDone
  BY DEF AwaitInsn, FetchCommon, EnterIrq, Typed, TypeOK, Trigger
<1>2. current_pc = due /\ mem_do \subseteq {"prefetch", "rinst"}
      /\ irq_ebreak # irq_buserror
  BY <1>1 DEF FetchInv, irq_ebreak, irq_buserror
<1>3. Misaligned <=> "rinst" \in mem_do /\ ~Aligned(reg_pc)
  BY <1>2 DEF Misaligned
<1>4. DelayedFetch'
  BY <1>1, <1>2 DEF DelayedFetch, Aligned
<1>5. ASSUME NEW i \in Faults', cpu_state' # "trap" PROVE OnItsWay(i)'
  <2>1. cpu_state' = "fetch" /\ (Misaligned => Interrupts(irq_buserror))
    BY <1>1, <1>5 DEF Goto
  <2>2. CASE i \in Faults /\ TakenNext(i)
    BY <1>1, <2>1, <2>2 DEF OnItsWay, TakenNext, Aligned
  <2>3. CASE i \in Faults /\ i \in irq_mask /\ Doomed(i)
    <3>1. /\ i = irq_buserror /\ ~Interrupts(i) /\ ~irq_active
          /\ "prefetch" \in mem_do /\ ~Aligned(due)
      BY <2>3 DEF Doomed, Interrupts
    <3>2. "rinst" \notin mem_do
      BY <1>3, <2>1, <2>3, <3>1 DEF Doomed
    <3>5. ~mem_done /\ ~FetchDone
      BY <1>2, <3>2 DEF FetchDone, mem_done
    <3>3. "prefetch" \in mem_do'
      BY <3>1, <3>5 DEF AwaitInsn, Flags, Rinst
    <3>4. QED
      BY <1>1, <1>2, <2>1, <2>3, <3>1, <3>3, <3>5 DEF OnItsWay, Doomed, Aligned
  <2>4. CASE i \notin Faults
    <3>1. i = irq_buserror /\ Misaligned /\ Interrupts(irq_buserror)
      BY <1>1, <1>5, <2>4, FaultsOf DEF Faults, Typed
    <3>2. irq_delay => ~Aligned(due)
      BY <1>1, <1>3, <3>1 DEF FaultInv, DelayedFetch, Interrupts
    <3>3. QED
      BY <1>1, <2>1, <3>1, <3>2 DEF OnItsWay, TakenNext, Interrupts, Aligned
  <2>5. QED
    BY <1>1, <2>2, <2>3, <2>4 DEF FaultInv, OnItsWay
<1>6. QED
  BY <1>4, <1>5 DEF FaultInv

(* An instruction that runs behind retirq, and what it does to a fault     *)
(* that waits for it.                                                      *)
LEMMA LdRs1Faults ==
  ASSUME Clock, LdRs1Inv, FaultInv, Typed, cpu_state = "ld_rs1",
         IllegalInsn \/ QuickInsn \/ RetIrq \/ SendOn
  PROVE  FaultInv'
<1>1. /\ ~mem_done /\ ~FetchDone
      /\ insn1 = insn2
      /\ mem_do = IF Prefetches(insn1.kind) THEN {"prefetch"} ELSE {}
  BY Ldrs1Fetches DEF LdRs1Inv
<1>2. /\ irq_state = 0 /\ irq_state' = 0
      /\ irq_delay = irq_active /\ irq_delay' = irq_delay
      /\ decoder_trigger' = FetchDone
      /\ due = After(reg_pc) /\ reg_pc \in Pc
      /\ irq_ebreak # irq_buserror
  <2>1. LdRs1Common
    BY DEF IllegalInsn, QuickInsn, RetIrq, SendOn
  <2>2. irq_ebreak # irq_buserror
    BY DEF irq_ebreak, irq_buserror
  <2>3. QED
    BY <2>1, <2>2 DEF LdRs1Common, LdRs1Inv, Settles, Trigger, Typed, TypeOK
<1>3. ~Misaligned
  BY <1>1 DEF Misaligned
<1>4. ASSUME NEW i \in Faults
      PROVE  i \notin irq_mask /\ ~irq_active /\ i = irq_buserror /\ ~Aligned(due)
  BY <1>2, <1>4, AfterInPc DEF FaultInv, OnItsWay, TakenNext, Doomed
<1>5. CASE IllegalInsn
  <2>1. /\ irq_mask' = irq_mask /\ irq_active' = irq_active
        /\ cpu_state' \in {"fetch", "trap"}
    BY <1>3, <1>5 DEF IllegalInsn, Goto
  <2>2. ASSUME NEW i \in Faults' PROVE i \notin irq_mask /\ ~irq_active
    <3>1. CASE i \in Faults
      BY <1>4, <3>1
    <3>2. CASE i \notin Faults
      <4>1. Pend(irq_pending \cup (IF Interrupts(irq_ebreak) THEN {irq_ebreak} ELSE {}))
        BY <1>5 DEF IllegalInsn
      <4>2. i = irq_ebreak /\ Interrupts(irq_ebreak)
        BY <1>3, <2>2, <3>2, <4>1, FaultsOf DEF Faults, Typed
      <4>3. QED
        BY <4>2 DEF Interrupts
    <3>3. QED
      BY <3>1, <3>2
  <2>3. ASSUME NEW i \in Faults' PROVE TakenNext(i)'
    BY <1>2, <2>1, <2>2, <2>3 DEF TakenNext
  <2>4. DelayedFetch'
    BY <1>2, <2>1 DEF DelayedFetch
  <2>5. QED
    BY <2>3, <2>4 DEF FaultInv, OnItsWay
<1>6. CASE QuickInsn
  <2>1. /\ irq_active' = irq_active /\ due' = due
        /\ cpu_state' \in {"fetch", "trap"} /\ Pend(irq_pending)
        /\ mem_do' = {"prefetch"}
    BY <1>1, <1>3, <1>6 DEF QuickInsn, LdRs1Common, Goto, Flags, Prefetches
  <2>2. ASSUME NEW i \in Faults' PROVE i \in Faults
    BY <1>3, <2>1, <2>2, FaultsOf DEF Faults, Typed
  <2>3. ASSUME NEW i \in Faults', cpu_state' # "trap" PROVE OnItsWay(i)'
    <3>1. ~irq_active /\ i = irq_buserror /\ ~Aligned(due)
      BY <1>4, <2>2, <2>3
    <3>2. CASE i \in irq_mask'
      BY <1>1, <1>2, <2>1, <2>3, <3>1, <3>2 DEF OnItsWay, Doomed, Aligned
    <3>3. CASE i \notin irq_mask'
      BY <1>2, <2>1, <2>3, <3>1, <3>3 DEF OnItsWay, TakenNext
    <3>4. QED
      BY <3>2, <3>3
  <2>4. DelayedFetch'
    BY <1>2, <2>1 DEF DelayedFetch
  <2>5. QED
    BY <2>3, <2>4 DEF FaultInv
<1>7. CASE RetIrq
  <2>1. /\ irq_active' = FALSE /\ irq_mask' = irq_mask
        /\ cpu_state' \in {"fetch", "trap"} /\ Pend(irq_pending)
        /\ "rinst" \notin mem_do'
    BY <1>1, <1>3, <1>7 DEF RetIrq, Goto, Flags
  <2>2. ASSUME NEW i \in Faults' PROVE i \in Faults
    BY <1>3, <2>1, <2>2, FaultsOf DEF Faults, Typed
  <2>3. ASSUME NEW i \in Faults' PROVE TakenNext(i)'
    BY <1>2, <1>4, <2>1, <2>2, <2>3 DEF TakenNext
  <2>4. DelayedFetch'
    BY <2>1 DEF DelayedFetch
  <2>5. QED
    BY <2>3, <2>4 DEF FaultInv, OnItsWay
<1>8. CASE SendOn
  <2>1. /\ irq_active' = irq_active /\ irq_mask' = irq_mask
        /\ cpu_state' \in {"ldmem", "stmem", "shift", "exec", "trap"}
        /\ Pend(irq_pending)
    <3>1. Goto(SentTo)
      BY <1>8, SendOnStep
    <3>2. QED
      BY <3>1, <1>8 DEF SendOn, Goto, SentTo
  <2>2. ASSUME NEW i \in Faults' PROVE i \in Faults
    BY <1>3, <2>1, <2>2, FaultsOf DEF Faults, Typed
  <2>3. ASSUME NEW i \in Faults' PROVE TakenNext(i)'
    BY <1>4, <2>1, <2>2, <2>3 DEF TakenNext
  <2>4. DelayedFetch'
    BY <2>1 DEF DelayedFetch
  <2>5. QED
    BY <2>3, <2>4 DEF FaultInv, OnItsWay
<1>9. QED
  BY <1>5, <1>6, <1>7, <1>8

(* The states that follow leave the interrupts alone, and there is no      *)
(* delay in them but inside a handler.                                     *)
LEMMA OtherFaults ==
  ASSUME Settles, FaultInv, Typed,
         cpu_state \in {"exec", "shift", "stmem", "ldmem"},
         cpu_state' \notin {"ld_rs1"},
         UNCHANGED irqs, Pend(irq_pending)
  PROVE  FaultInv'
<1>1. /\ irq_delay' = irq_active' /\ irq_mask' = irq_mask /\ irq_active' = irq_active
  BY DEF Settles, irqs
<1>2. ASSUME NEW i \in Faults PROVE i \notin irq_mask /\ ~irq_active
  BY <1>2 DEF FaultInv, OnItsWay, TakenNext, Doomed
<1>3. ASSUME NEW i \in Faults' PROVE i \notin irq_mask /\ ~irq_active
  <2>1. CASE i \in Faults
    BY <1>2, <2>1
  <2>2. CASE i \notin Faults
    <3>1. i = irq_buserror /\ Interrupts(irq_buserror)
      BY <1>3, <2>2, FaultsOf DEF Faults, Typed
    <3>2. QED
      BY <3>1 DEF Interrupts
  <2>3. QED
    BY <2>1, <2>2
<1>4. ASSUME NEW i \in Faults' PROVE TakenNext(i)'
  BY <1>1, <1>3, <1>4 DEF TakenNext
<1>5. DelayedFetch'
  BY <1>1 DEF DelayedFetch
<1>6. QED
  BY <1>4, <1>5 DEF FaultInv, OnItsWay

-----------------------------------------------------------------------------
LEMMA InitHolds == Init => Typed /\ IInv
<1>1. SUFFICES ASSUME Init PROVE Typed /\ IInv
  OBVIOUS
<1>2. 0 \in Pc /\ 0 \in 0 .. TIMER_MAX
  BY CoreAssumption DEF Pc
<1>3. Typed
  <2>1. {reg_pc, reg_next_pc, reg_out, alu_out_q, due} \subseteq Pc
    BY <1>1, <1>2 DEF Init
  <2>2. {mem_rdata_q, insn1, insn2} \subseteq Insn \cup {Garbage}
    BY <1>1 DEF Init
  <2>3. mem_state \in 0 .. 3 /\ irq_state \in 0 .. 2 /\ timer \in 0 .. TIMER_MAX
    BY <1>1, <1>2 DEF Init
  <2>6. mem_valid \in BOOLEAN
    BY <1>1 DEF Init
  <2>4. /\ mem_do \subseteq {"prefetch", "rinst", "rdata", "wdata"}
        /\ irq_pending \subseteq Irq /\ irq_mask \subseteq Irq /\ irq \subseteq Sources
        /\ cpu_state = "fetch"
    BY <1>1 DEF Init
  <2>5. QED
    BY <2>1, <2>2, <2>3, <2>4, <2>6 DEF Typed, TypeOK
<1>4. MemInv
  BY <1>1 DEF Init, MemInv, Flagsets
<1>5. FetchInv
  BY <1>1 DEF Init, FetchInv, FetchOf, current_pc, Vectors
<1>6. FaultInv
  BY <1>1 DEF Init, FaultInv, Faults, DelayedFetch
<1>7. QED
  BY <1>1, <1>3, <1>4, <1>5, <1>6 DEF Init, IInv, StateInv, TrapInv

LEMMA FaultStep ==
  ASSUME IInv, Typed, resetn, MemEdge, DecoderEdge, CoreEdge
  PROVE  FaultInv'
<1>1. /\ cpu_state # "trap" => Clock
      /\ StateInv /\ FaultInv
  BY DEF IInv, TrapInv, Clock, Typed, TypeOK
<1>2. CASE EnterInterrupt
  BY <1>1, <1>2, EnterInterruptFaults DEF StateInv, EnterInterrupt, FetchCommon
<1>3. CASE WaitForInterrupt \/ LaunchJal \/ Launch
  BY <1>1, <1>3, LaunchFaults
     DEF StateInv, WaitForInterrupt, LaunchJal, Launch, FetchCommon
<1>4. CASE AwaitInsn
  BY <1>1, <1>4, AwaitInsnFaults DEF StateInv, AwaitInsn, FetchCommon
<1>5. CASE IllegalInsn \/ QuickInsn \/ RetIrq \/ SendOn
  BY <1>1, <1>5, LdRs1Faults
     DEF StateInv, IllegalInsn, QuickInsn, RetIrq, SendOn, LdRs1Common
<1>6. CASE Branch \/ Execute
  <2>1. cpu_state = "exec" /\ UNCHANGED irqs /\ Pend(irq_pending)
    BY <1>6 DEF Branch, Execute, ExecCommon
  <2>2. cpu_state' # "ld_rs1"
    BY <1>6 DEF Branch, Execute, Goto
  <2>3. Settles
    BY <1>1, <2>1 DEF StateInv, ExecInv
  <2>4. QED
    BY <1>1, <2>1, <2>2, <2>3, OtherFaults
<1>7. CASE Shift \/ Store \/ Load
  <2>1. /\ cpu_state \in {"shift", "stmem", "ldmem"}
        /\ UNCHANGED irqs /\ Pend(irq_pending)
    BY <1>7 DEF Shift, Store, Load, AccessData
  <2>2. cpu_state' # "ld_rs1"
    BY <1>7 DEF Shift, Store, Load, Goto
  <2>3. Settles
    BY <1>1, <2>1 DEF StateInv, ShiftInv, AccessInv
  <2>4. QED
    BY <1>1, <2>1, <2>2, <2>3, OtherFaults
<1>8. CASE Trapped
  BY <1>8 DEF Trapped, Goto, FaultInv, DelayedFetch
<1>9. QED
  BY <1>2, <1>3, <1>4, <1>5, <1>6, <1>7, <1>8 DEF CoreEdge

LEMMA InvStep == Typed /\ IInv /\ Next => IInv'
<1>1. SUFFICES ASSUME Typed, IInv, Next PROVE IInv'
  OBVIOUS
<1>2. MemEdge /\ DecoderEdge /\ CoreEdge /\ irq \subseteq Sources
  BY <1>1 DEF Next, Typed
<1>3. CASE ~resetn
  <2>1. ResetCore
    BY <1>2, <1>3 DEF CoreEdge
  <2>2. MemInv' /\ cpu_state' = "fetch" /\ FetchInv' /\ ~trap' /\ ~irq_delay'
    BY <1>2, <1>3, <2>1, ResetStep
  <2>3. Faults' = {}
    BY <1>2, <2>1, CoreAssumption
       DEF ResetCore, Faults, irq_timer, irq_ebreak, irq_buserror
  <2>4. QED
    BY <2>2, <2>3 DEF IInv, StateInv, TrapInv, FaultInv, DelayedFetch
<1>4. CASE resetn
  <2>1. Kept'
    BY <1>1, <1>2, <1>4, RunStep DEF IInv, Kept, Typed
  <2>2. FaultInv'
    BY <1>1, <1>2, <1>4, FaultStep
  <2>3. QED
    BY <2>1, <2>2 DEF IInv, Kept
<1>5. QED
  BY <1>3, <1>4

LEMMA StutterStep == Typed /\ IInv /\ UNCHANGED vars => Typed' /\ IInv'
<1>1. SUFFICES ASSUME Typed, IInv, UNCHANGED vars PROVE Typed' /\ IInv'
  OBVIOUS
<1> USE <1>1 DEF vars, inputs, bus, decoder, latches, pcs, irqs
<1>2. Typed'
  BY DEF Typed, TypeOK
<1>3. (~trap => MemInv)'
  BY DEF IInv, MemInv
<1>4. current_pc' = current_pc /\ SecondStage' = SecondStage
  BY DEF current_pc, Vectors, SecondStage
<1>5. FetchInv => FetchInv'
  BY <1>4 DEF FetchInv, FetchOf, Decoded, SecondStage
<1>6. /\ LdRs1Inv => LdRs1Inv'
      /\ ExecInv => ExecInv'
      /\ ShiftInv => ShiftInv'
  BY DEF LdRs1Inv, ExecInv, ShiftInv, Settles, FetchOf
<1>7. /\ AccessInv("rdata", 1) => AccessInv("rdata", 1)'
      /\ AccessInv("wdata", 2) => AccessInv("wdata", 2)'
  BY DEF AccessInv, Settles, FetchOf, Decoded, SecondStage
<1>8. StateInv'
  BY <1>5, <1>6, <1>7 DEF IInv, StateInv
<1>9. FaultInv'
  BY DEF IInv, FaultInv, Faults, OnItsWay, TakenNext, Doomed, DelayedFetch
<1>10. TrapInv'
  BY DEF IInv, TrapInv
<1>11. QED
  BY <1>2, <1>3, <1>8, <1>9, <1>10 DEF IInv

LEMMA Invariance == Spec => [](Typed /\ IInv)
<1>1. Typed /\ IInv /\ [Next]_vars => Typed' /\ IInv'
  BY TypedStep, InvStep, StutterStep
<1>2. QED
  BY InitHolds, <1>1, PTL DEF Spec

-----------------------------------------------------------------------------
(* The registers of the control keep to their ranges, and every pc to the  *)
(* address space.                                                          *)
THEOREM TypeCorrect == Spec => []TypeOK
<1>1. Typed => TypeOK
  BY DEF Typed
<1>2. QED
  BY <1>1, Invariance, PTL

(* The assertions of picorv32.v hold in every clock.                       *)
THEOREM AssertsAlways == Spec => []Asserts
<1>1. ASSUME IInv, resetn, ~trap PROVE Asserts
  <2>1. MemInv /\ mem_do \in Flagsets
    BY <1>1 DEF IInv, MemInv
  <2>2. /\ "wdata" \in mem_do => mem_do = {"wdata"}
        /\ "rdata" \in mem_do => mem_do = {"rdata"}
        /\ "rinst" \in mem_do \/ "prefetch" \in mem_do \/ "rdata" \in mem_do
             <=> mem_do \notin {{}, {"wdata"}}
        /\ mem_do \cap {"prefetch", "rinst", "rdata"} # {}
             <=> mem_do \notin {{}, {"wdata"}}
        /\ mem_do \cap {"prefetch", "rinst"} # {}
             <=> mem_do \notin {{}, {"wdata"}, {"rdata"}}
    BY <2>1 DEF Flagsets
  <2>3. mem_state = 1 => mem_valid /\ ~mem_write
                         /\ mem_do \notin {{}, {"wdata"}}
                         /\ (mem_instr <=> mem_do # {"rdata"})
    BY <2>1 DEF MemInv
  <2>4. mem_state = 2 => mem_valid /\ mem_do = {"wdata"} /\ mem_write
    BY <2>1 DEF MemInv
  <2>5. mem_state = 3 => "prefetch" \in mem_do /\ ~mem_write
    BY <2>1 DEF MemInv
  <2>6. QED
    BY <2>2, <2>3, <2>4, <2>5 DEF Asserts
<1>2. IInv => Asserts
  BY <1>1 DEF Asserts
<1>3. QED
  BY <1>2, Invariance, PTL

(* The instruction that executes is the word at the address where the one  *)
(* before it said that the program goes on.                                *)
THEOREM InOrderAlways == Spec => []InOrder
<1>1. ASSUME IInv, Executes, irq_state \in 0 .. 2 PROVE current_pc = due /\ insn1.at = WordOf(due)
  <2>1. /\ cpu_state = "fetch" /\ irq_state = 0
        /\ decoder_trigger \/ do_waitirq
    BY <1>1 DEF Executes, EnterIrq, WaitsIrq
  <2>2. FetchInv
    BY <1>1, <2>1 DEF IInv, StateInv
  <2>3. QED
    BY <2>1, <2>2 DEF FetchInv, Decoded
<1>2. Typed /\ IInv => InOrder
  BY <1>1 DEF InOrder, Typed, TypeOK
<1>3. QED
  BY <1>2, Invariance, PTL

(* Both stages of the decoder hold the instruction whose operands are      *)
(* read.                                                                   *)
THEOREM DecodedWholeAlways == Spec => []DecodedWhole
<1>1. IInv => DecodedWhole
  BY DEF IInv, StateInv, LdRs1Inv, DecodedWhole
<1>2. QED
  BY <1>1, Invariance, PTL

(* An interrupt comes between two instructions and takes nothing from      *)
(* either.                                                                 *)
THEOREM InterruptsBetweenAlways == Spec => []InterruptsBetween
<1>1. ASSUME IInv, Typed PROVE InterruptsBetween
  <2>1. ASSUME irq_state # 0 PROVE FetchInv
    <3>1. cpu_state = "fetch"
      BY <1>1, <2>1
         DEF IInv, StateInv, TrapInv, LdRs1Inv, ExecInv, ShiftInv, AccessInv,
             Settles, Typed, TypeOK
    <3>2. QED
      BY <1>1, <3>1 DEF IInv, StateInv
  <2>2. irq_state = 1 => Vectors /\ latched_rd = "q0" /\ reg_next_pc = due
    BY <2>1 DEF FetchInv, Vectors
  <2>3. irq_state = 2 =>
          Delivers /\ latched_rd = "q1" /\ irq_pending \ irq_mask # {}
    BY <2>1 DEF FetchInv, Delivers
  <2>4. QED
    BY <2>2, <2>3 DEF InterruptsBetween
<1>2. QED
  BY <1>1, Invariance, PTL

(* The interrupt of a fault comes before the next instruction, but for the *)
(* one that follows retirq.                                                *)
THEOREM FaultFirstAlways == Spec => []FaultFirst
<1>1. ASSUME IInv, Typed, Executes, ~irq_active,
             NEW i \in (irq_pending \ irq_mask) \cap {irq_ebreak, irq_buserror}
      PROVE  irq_delay /\ ~Aligned(due)
  <2>1. /\ cpu_state = "fetch" /\ irq_state = 0
        /\ decoder_trigger \/ do_waitirq
        /\ decoder_trigger => irq_delay
    BY <1>1 DEF Executes, EnterIrq, WaitsIrq, Typed, TypeOK
  <2>2. FetchInv /\ i \in Faults /\ i \notin irq_mask
    BY <1>1, <2>1 DEF IInv, StateInv, Faults
  <2>3. irq_delay
    BY <2>1, <2>2 DEF FetchInv, Faults
  <2>4. TakenNext(i)
    BY <1>1, <2>1, <2>2 DEF IInv, FaultInv, OnItsWay
  <2>5. QED
    BY <2>1, <2>3, <2>4 DEF TakenNext
<1>2. IInv /\ Typed => FaultFirst
  BY <1>1 DEF FaultFirst
<1>3. QED
  BY <1>2, Invariance, PTL

(* An interrupt stays pending until the handler is given it, and one that  *)
(* arrives in any clock is pending from then on.                           *)
THEOREM NoInterruptLostAlways == Spec => NoInterruptLost
<1>1. ASSUME Next PROVE PendingStay
  <2>1. SUFFICES ASSUME resetn
                 PROVE /\ irq_pending \ irq_pending' \subseteq
                            IF cpu_state = "fetch" /\ Delivers
                            THEN (irq_pending \ irq_mask) \ irq ELSE {}
                       /\ irq \subseteq irq_pending'
    BY DEF PendingStay
  <2>2. \A p : Pend(p) => p \subseteq irq_pending' /\ irq \subseteq irq_pending'
    BY DEF Pend
  <2>3. CASE EnterInterrupt
    <3>1. cpu_state = "fetch"
          /\ Pend(IF Delivers THEN irq_pending \cap irq_mask ELSE irq_pending)
      BY <2>3 DEF EnterInterrupt, FetchCommon
    <3>2. CASE Delivers
      BY <2>2, <3>1, <3>2
    <3>3. CASE ~Delivers
      BY <2>2, <3>1, <3>3
    <3>4. QED
      BY <3>2, <3>3
  <2>4. CASE ~EnterInterrupt
    <3>1. irq_pending \subseteq irq_pending' /\ irq \subseteq irq_pending'
      <4>1. \E p : Pend(p) /\ irq_pending \subseteq p
        <5>1. Pend(irq_pending) \/ IllegalInsn
          BY <1>1, <2>1, <2>4
             DEF Next, CoreEdge, WaitForInterrupt, LaunchJal, Launch, AwaitInsn,
                 QuickInsn, RetIrq, SendOn, Branch, Execute, ExecCommon, Shift,
                 Store, Load, AccessData, Trapped
        <5>2. QED
          BY <5>1 DEF IllegalInsn
      <4>2. QED
        BY <2>2, <4>1
    <3>2. QED
      BY <3>1
  <2>5. QED
    BY <2>3, <2>4
<1>2. [Next]_vars => [PendingStay]_vars
  BY <1>1
<1>3. QED
  BY <1>2, PTL DEF Spec, NoInterruptLost

(* The bus is asked as SocBus takes for granted: a request is held until   *)
(* it is answered, and a clock without one follows.                        *)
THEOREM BusProtocolAlways == Spec => BusProtocol
<1>1. ASSUME IInv, Typed, Next PROVE RequestHeld
  <2>1. SUFFICES ASSUME resetn
                 PROVE  /\ mem_valid /\ ~mem_ready =>
                             mem_valid' /\ UNCHANGED <<mem_addr, mem_write>>
                        /\ mem_valid /\ mem_ready => ~mem_valid'
    BY DEF RequestHeld
  <2>2. CASE trap
    <3>1. /\ mem_valid' = (mem_valid /\ ~mem_ready)
          /\ UNCHANGED <<mem_addr, mem_write>>
      BY <1>1, <2>1, <2>2 DEF Next, MemEdge
    <3>2. mem_valid' <=> mem_valid /\ ~mem_ready
      BY <3>1, Zenon
    <3>3. QED
      BY <3>1, <3>2
  <2>3. CASE ~trap
    <3>1. mem_valid <=> mem_state \in {1, 2}
      BY <1>1, <2>3 DEF IInv, MemInv
    <3>2. BeginRead \/ BeginWrite \/ EndRead \/ EndWrite \/ TakePrefetched \/ MemIdle
      BY <1>1, <2>1, <2>3 DEF Next, MemEdge
    <3>3. QED
      BY <3>1, <3>2
         DEF BeginRead, BeginWrite, EndRead, EndWrite, TakePrefetched, MemIdle,
             mem_xfer, bus
  <2>4. QED
    BY <2>2, <2>3
<1>2. [Next]_vars /\ Typed /\ IInv => [RequestHeld]_vars
  BY <1>1
<1>3. QED
  BY <1>2, Invariance, PTL DEF Spec, BusProtocol

===============================================================================
