------------------------------ MODULE PicoCore ------------------------------
(***************************************************************************)
(* The control of picorv32.v as top.v configures it: no compressed         *)
(* instructions, no barrel shifter, no co-processor, one-cycle ALU,        *)
(* interrupts with q registers and timer, misaligned accesses and illegal  *)
(* instructions caught.                                                    *)
(*                                                                         *)
(* Three machines share the flags mem_do_*: the memory interface, which    *)
(* fetches ahead while an instruction executes; the decoder, in two        *)
(* stages; and the main state machine.  A step is a clock edge, on which   *)
(* all three act.  What an instruction computes is left out: of an         *)
(* instruction there is the word it was fetched from, its kind, and where  *)
(* it jumps to.  A branch is of another kind when it will be taken, and a  *)
(* load or store when its address is misaligned: that data decides it is   *)
(* no concern of the control.                                              *)
(***************************************************************************)
EXTENDS Naturals

CONSTANTS
  PC_MOD,       \* 2^31: program counters count halfwords, a word is two
  PROGADDR_IRQ, \* 8: byte address 0x10
  Kinds,        \* the kinds of instruction that programs hold
  Irqs,         \* the interrupts that software may unmask
  Sources,      \* the irq inputs something is connected to (3, the button)
  TIMER_MAX,    \* 2^32 - 1
  SHIFTS        \* the most steps a shift takes

Irq == 0 .. 3   \* MASKED_IRQ keeps the low four bits
irq_timer == 0
irq_ebreak == 1
irq_buserror == 2

AllKinds == {"alu", "quick", "taken", "passed", "jal", "jalr", "shift",
             "load", "badload", "store", "badstore", "illegal",
             "retirq", "maskirq", "waitirq", "timer"}

(* top.v drives irq[3] alone; the core's own interrupts have no input.     *)
ASSUME CoreAssumption ==
  /\ PC_MOD \in Nat \ {0} /\ PC_MOD % 2 = 0
  /\ PROGADDR_IRQ \in 0 .. PC_MOD - 1
  /\ Kinds \subseteq AllKinds
  /\ Irqs \subseteq Irq
  /\ Sources \subseteq Irq \ {irq_timer, irq_ebreak, irq_buserror}
  /\ TIMER_MAX \in Nat
  /\ SHIFTS \in Nat

VARIABLES
  resetn, mem_ready, irq,                   \* inputs in this clock
  mem_state, mem_valid, mem_addr, mem_write, mem_instr,
  mem_do,                   \* which of the flags mem_do_* are set
  mem_rdata_q,              \* what the last transfer delivered
  insn1, insn2,             \* what each stage of the decoder has decoded
  decoder_trigger, decoder_pseudo_trigger,
  cpu_state, trap, do_waitirq, reg_sh, misaligned,
  reg_pc, reg_next_pc, reg_out, alu_out_q,
  latched_store, latched_branch, latched_stalu, latched_rd,
  irq_state, irq_active, irq_delay, irq_pending, irq_mask, timer,
  due           \* history: the pc of the next instruction in program order

inputs  == <<resetn, mem_ready, irq>>
bus     == <<mem_state, mem_valid, mem_addr, mem_write, mem_instr>>
decoder == <<mem_rdata_q, insn1, insn2>>
latches == <<latched_store, latched_branch, latched_stalu, latched_rd>>
pcs     == <<reg_pc, reg_next_pc, reg_out, alu_out_q>>
irqs    == <<irq_state, irq_active, irq_delay, irq_mask>>
vars == <<inputs, bus, mem_do, decoder, decoder_trigger, decoder_pseudo_trigger,
          cpu_state, trap, do_waitirq, reg_sh, misaligned, pcs, latches, irqs,
          irq_pending, timer, due>>

Pc == 0 .. PC_MOD - 1
WordOf(pc) == pc \div 2
Aligned(pc) == pc % 2 = 0

(* Definitions named Mut.. are mutants: a definition with a bug a careless *)
(* edit of the code could make, used only to see a property refuse it.     *)
MutAfterUnwrapped(pc) == pc + 2

After(pc) == (pc + 2) % PC_MOD    \* pc + 4 bytes

(* Where a data access goes is one place, apart from all instructions.     *)
Data == PC_MOD
Insn ==
  UNION {[at: {WordOf(pc) : pc \in Pc} \cup {Data}, kind: {k},
          target: IF k \in {"taken", "jal"} THEN Pc ELSE {0}] : k \in Kinds}
Garbage == [at |-> Data, kind |-> "illegal", target |-> 0]

-----------------------------------------------------------------------------
(* Wires.                                                                  *)

mem_xfer == mem_valid /\ mem_ready

mem_done ==
  resetn /\ (\/ mem_xfer /\ mem_state # 0
                /\ mem_do \cap {"rinst", "rdata", "wdata"} # {}
             \/ mem_state = 3 /\ "rinst" \in mem_do)

MutNextPcFallsThrough == reg_next_pc

next_pc == IF latched_store /\ latched_branch THEN reg_out ELSE reg_next_pc

(* The two cycles that enter an interrupt, after the one that decides to:  *)
(* q0 gets the return address, q1 the interrupts.                          *)
Vectors  == irq_state = 1 /\ ~latched_branch /\ ~latched_store
Delivers == irq_state = 2 /\ ~latched_branch /\ ~latched_store

(* The instruction address of a cycle in the fetch state.                  *)
current_pc ==
  IF latched_branch /\ latched_store
  THEN IF latched_stalu THEN alu_out_q ELSE reg_out
  ELSE IF Vectors THEN PROGADDR_IRQ
  ELSE reg_next_pc

MutEnterIrqMasked ==
  \/ decoder_trigger /\ ~irq_active /\ ~irq_delay /\ irq_pending # {}
  \/ irq_state # 0

EnterIrq ==
  \/ decoder_trigger /\ ~irq_active /\ ~irq_delay /\ irq_pending \ irq_mask # {}
  \/ irq_state # 0

WaitsIrq == (decoder_trigger \/ do_waitirq) /\ insn1.kind = "waitirq"

(* A misaligned access is seen in every clock in which it is being made.   *)
Misaligned ==
  \/ mem_do \cap {"rdata", "wdata"} # {} /\ misaligned
  \/ "rinst" \in mem_do /\ ~Aligned(reg_pc)

(* A fault whose interrupt can be taken is made pending, any other traps.  *)
Interrupts(i) == i \notin irq_mask /\ ~irq_active

MutDelaysAlways == TRUE

(* An interrupt may not come before the instruction after retirq.          *)
DelaysIrq == irq_active

(* What follows these two is fetched when they have jumped.                *)
Prefetches(kind) == kind \notin {"jalr", "retirq"}

MutMemTurnAtOnce == TRUE

(* Loads and stores begin when the fetch of the next instruction is over.  *)
MemTurn == "prefetch" \notin mem_do \/ mem_done
MemOver == "prefetch" \notin mem_do /\ mem_done

-----------------------------------------------------------------------------
(* The memory interface.                                                   *)

Request(s) ==
  /\ mem_state' = s
  /\ mem_valid' = TRUE
  /\ mem_addr' = IF mem_do \cap {"prefetch", "rinst"} # {}
                 THEN WordOf(next_pc) ELSE Data
  /\ mem_write' = (s = 2)
  /\ mem_instr' = (s = 1 /\ mem_do \cap {"prefetch", "rinst"} # {})

BeginRead ==
  /\ mem_state = 0
  /\ mem_do \cap {"prefetch", "rinst", "rdata"} # {} /\ "wdata" \notin mem_do
  /\ Request(1)

BeginWrite == mem_state = 0 /\ "wdata" \in mem_do /\ Request(2)

(* A fetch nobody waits for yet is kept until somebody does.               *)
EndRead ==
  /\ mem_state = 1 /\ mem_xfer
  /\ mem_valid' = FALSE
  /\ mem_state' = IF mem_do \cap {"rinst", "rdata"} # {} THEN 0 ELSE 3
  /\ UNCHANGED <<mem_addr, mem_write, mem_instr>>

MutEndWriteHolds ==
  /\ mem_state = 2 /\ mem_xfer
  /\ mem_state' = 0
  /\ UNCHANGED <<mem_valid, mem_addr, mem_write, mem_instr>>

EndWrite ==
  /\ mem_state = 2 /\ mem_xfer
  /\ mem_valid' = FALSE
  /\ mem_state' = 0
  /\ UNCHANGED <<mem_addr, mem_write, mem_instr>>

TakePrefetched ==
  /\ mem_state = 3 /\ "rinst" \in mem_do
  /\ mem_state' = 0
  /\ UNCHANGED <<mem_valid, mem_addr, mem_write, mem_instr>>

MemIdle ==
  /\ \/ mem_state = 0 /\ mem_do = {}
     \/ mem_state \in {1, 2} /\ ~mem_xfer
     \/ mem_state = 3 /\ "rinst" \notin mem_do
  /\ UNCHANGED bus

MemEdge ==
  \/ /\ ~resetn
     /\ mem_state' = 0 /\ mem_valid' = FALSE
     /\ UNCHANGED <<mem_addr, mem_write, mem_instr>>
  \/ /\ resetn /\ trap
     /\ mem_valid' = (mem_valid /\ ~mem_ready)
     /\ UNCHANGED <<mem_state, mem_addr, mem_write, mem_instr>>
  \/ /\ resetn /\ ~trap
     /\ \/ BeginRead \/ BeginWrite \/ EndRead \/ EndWrite
        \/ TakePrefetched \/ MemIdle

MutSecondStageAlways == decoder_trigger

(* A pseudo trigger finds the second stage done, and other data in         *)
(* mem_rdata_q.                                                            *)
SecondStage == decoder_trigger /\ ~decoder_pseudo_trigger

(* The first stage decodes what arrives or what was kept; the second uses  *)
(* both the first and the kept word, in the clock of the trigger.          *)
DecoderEdge ==
  /\ IF mem_xfer THEN mem_rdata_q' \in {i \in Insn : i.at = mem_addr}
     ELSE UNCHANGED mem_rdata_q
  /\ insn1' = IF "rinst" \in mem_do /\ mem_done THEN mem_rdata_q' ELSE insn1
  /\ insn2' = IF SecondStage
              THEN IF insn1 = mem_rdata_q THEN insn1 ELSE Garbage
              ELSE insn2

-----------------------------------------------------------------------------
(* The main state machine.  What follows its case statement in the always  *)
(* block is in Flags, Goto and Pend.                                       *)

Flags(set, f) == mem_do' = (IF mem_done THEN {} ELSE f) \cup set
Rinst(on) == (mem_do \ {"rinst"}) \cup (IF on THEN {"rinst"} ELSE {})

Goto(s) ==
  cpu_state' = IF Misaligned /\ ~Interrupts(irq_buserror) THEN "trap" ELSE s

MutPendUnlatched(pending) ==
  irq_pending' = irq \cup (IF timer = 1 THEN {irq_timer} ELSE {})
    \cup (IF Misaligned /\ Interrupts(irq_buserror) THEN {irq_buserror} ELSE {})

Pend(pending) ==
  irq_pending' = pending \cup irq
    \cup (IF timer = 1 THEN {irq_timer} ELSE {})
    \cup (IF Misaligned /\ Interrupts(irq_buserror) THEN {irq_buserror} ELSE {})

Trigger(on) == decoder_trigger' = on
FetchDone == "rinst" \in mem_do /\ mem_done
CountDown == timer' = IF timer = 0 THEN 0 ELSE timer - 1
NoPseudo == decoder_pseudo_trigger' = FALSE
NoWait == do_waitirq' = FALSE

(* What most states leave as it is; reg_out and alu_out_q are undefined    *)
(* unless a state says what they are.                                      *)
NoJump == reg_out' = 0 /\ alu_out_q' = 0 /\ UNCHANGED <<reg_pc, reg_next_pc>>
StoreLatched ==
  /\ latched_store' = TRUE
  /\ UNCHANGED <<latched_branch, latched_stalu, latched_rd>>

(* The part of the fetch state that every cycle in it has.                 *)
FetchCommon ==
  /\ cpu_state = "fetch"
  /\ Trigger(FetchDone) /\ NoPseudo /\ CountDown
  /\ reg_pc' = current_pc
  /\ reg_out' = 0 /\ alu_out_q' = 0
  /\ latched_stalu' = FALSE
  /\ misaligned' = FALSE /\ reg_sh' = 0
  /\ UNCHANGED <<trap, irq_mask>>

EnterInterrupt ==
  /\ FetchCommon /\ NoWait
  /\ EnterIrq
  /\ irq_state' = (irq_state + 1) % 3
  /\ irq_active' = (irq_active \/ Vectors)
  /\ UNCHANGED irq_delay
  /\ Pend(IF Delivers THEN irq_pending \cap irq_mask ELSE irq_pending)
  /\ Flags({}, Rinst(Vectors \/ (~decoder_trigger /\ ~do_waitirq)))
  /\ reg_next_pc' = current_pc
  /\ latched_store' = FALSE /\ latched_branch' = FALSE
  /\ latched_rd' = IF irq_state = 1 THEN "q1" ELSE "q0"
  /\ due' = IF Vectors THEN PROGADDR_IRQ ELSE due
  /\ Goto("fetch")

(* The wait looks for an interrupt when it begins and never again.         *)
MutWaitSleeps ==
  /\ FetchCommon
  /\ ~EnterIrq /\ WaitsIrq
  /\ LET over == decoder_trigger /\ irq_pending # {} IN
       /\ do_waitirq' = ~over
       /\ Flags({}, Rinst(over \/ (~decoder_trigger /\ ~do_waitirq)))
       /\ reg_next_pc' = IF over THEN After(current_pc) ELSE current_pc
       /\ due' = IF over THEN After(current_pc) ELSE due
       /\ latched_store' = over
  /\ latched_branch' = FALSE /\ latched_rd' = "rd"
  /\ UNCHANGED <<irq_state, irq_active, irq_delay>>
  /\ Pend(irq_pending)
  /\ Goto("fetch")

WaitForInterrupt ==
  /\ FetchCommon
  /\ ~EnterIrq /\ WaitsIrq
  /\ do_waitirq' = (irq_pending = {})
  /\ Flags({}, Rinst(irq_pending # {} \/ (~decoder_trigger /\ ~do_waitirq)))
  /\ reg_next_pc' = IF irq_pending = {} THEN current_pc ELSE After(current_pc)
  /\ due' = IF irq_pending = {} THEN due ELSE After(current_pc)
  /\ latched_store' = (irq_pending # {}) /\ latched_branch' = FALSE
  /\ latched_rd' = "rd"
  /\ UNCHANGED <<irq_state, irq_active, irq_delay>>
  /\ Pend(irq_pending)
  /\ Goto("fetch")

LaunchJal ==
  /\ FetchCommon /\ NoWait
  /\ ~EnterIrq /\ ~WaitsIrq /\ decoder_trigger /\ insn1.kind = "jal"
  /\ Flags({}, Rinst(TRUE))
  /\ reg_next_pc' = insn1.target
  /\ due' = insn1.target
  /\ latched_store' = FALSE /\ latched_branch' = TRUE /\ latched_rd' = "rd"
  /\ irq_delay' = DelaysIrq
  /\ UNCHANGED <<irq_state, irq_active>>
  /\ Pend(irq_pending)
  /\ Goto("fetch")

Launch ==
  /\ FetchCommon /\ NoWait
  /\ ~EnterIrq /\ ~WaitsIrq /\ decoder_trigger /\ insn1.kind # "jal"
  /\ Flags({}, (mem_do \ {"rinst", "prefetch"})
               \cup (IF Prefetches(insn1.kind) THEN {"prefetch"} ELSE {}))
  /\ reg_next_pc' = After(current_pc)
  /\ due' = After(current_pc)
  /\ latched_store' = FALSE /\ latched_branch' = FALSE /\ latched_rd' = "rd"
  /\ irq_delay' = DelaysIrq
  /\ UNCHANGED <<irq_state, irq_active>>
  /\ Pend(irq_pending)
  /\ Goto("ld_rs1")

AwaitInsn ==
  /\ FetchCommon /\ NoWait
  /\ ~EnterIrq /\ ~WaitsIrq /\ ~decoder_trigger
  /\ Flags({}, Rinst(~do_waitirq))
  /\ reg_next_pc' = current_pc
  /\ latched_store' = FALSE /\ latched_branch' = FALSE /\ latched_rd' = "rd"
  /\ UNCHANGED <<irq_state, irq_active, irq_delay, due>>
  /\ Pend(irq_pending)
  /\ Goto("fetch")

(* Decoded operands are read and the instruction is sent on its way.  The  *)
(* prefetch becomes the fetch of the next instruction where nothing comes  *)
(* in between.                                                             *)
LdRs1Common ==
  /\ cpu_state = "ld_rs1"
  /\ Trigger(FetchDone) /\ NoPseudo /\ NoWait
  /\ alu_out_q' = 0
  /\ misaligned' = FALSE
  /\ UNCHANGED <<trap, reg_pc, reg_next_pc, latched_stalu, irq_state, irq_delay>>

IllegalInsn ==
  /\ LdRs1Common /\ insn2.kind = "illegal"
  /\ Flags({}, mem_do)
  /\ Pend(irq_pending \cup
          (IF Interrupts(irq_ebreak) THEN {irq_ebreak} ELSE {}))
  /\ Goto(IF Interrupts(irq_ebreak) THEN "fetch" ELSE "trap")
  /\ CountDown /\ reg_sh' = 0 /\ reg_out' = 0
  /\ UNCHANGED <<latched_store, latched_branch, latched_rd, irq_active,
                 irq_mask, due>>

(* rdcycle, rdinstr, getq, setq, maskirq, timer: done at once.             *)
QuickInsn ==
  /\ LdRs1Common /\ insn2.kind \in {"quick", "maskirq", "timer"}
  /\ Flags({}, mem_do)
  /\ latched_store' = TRUE
  /\ irq_mask' \in IF insn2.kind = "maskirq"
                   THEN {Irq \ allowed : allowed \in SUBSET Irqs}
                   ELSE {irq_mask}
  /\ IF insn2.kind = "timer" THEN timer' \in 0 .. TIMER_MAX ELSE CountDown
  /\ Pend(irq_pending)
  /\ Goto("fetch")
  /\ reg_sh' = 0 /\ reg_out' = 0
  /\ UNCHANGED <<latched_branch, latched_rd, irq_active, due>>

RetIrq ==
  /\ LdRs1Common /\ insn2.kind = "retirq"
  /\ Flags({}, mem_do)
  /\ irq_active' = FALSE
  /\ latched_branch' = TRUE /\ latched_store' = TRUE
  /\ reg_out' \in Pc /\ due' = reg_out'
  /\ Pend(irq_pending)
  /\ Goto("fetch")
  /\ CountDown /\ reg_sh' = 0
  /\ UNCHANGED <<latched_rd, irq_mask>>

SendOn ==
  /\ LdRs1Common
  /\ insn2.kind \notin {"illegal", "quick", "maskirq", "timer", "retirq"}
  /\ CASE insn2.kind \in {"load", "badload"} ->
            Flags({}, Rinst(TRUE)) /\ Goto("ldmem") /\ reg_sh' = 0
       [] insn2.kind \in {"store", "badstore"} ->
            Flags({}, Rinst(TRUE)) /\ Goto("stmem") /\ reg_sh' = 0
       [] insn2.kind = "shift" ->
            Flags({}, mem_do) /\ Goto("shift") /\ reg_sh' \in 0 .. SHIFTS
       [] OTHER ->
            /\ Flags({}, Rinst("prefetch" \in mem_do))
            /\ Goto("exec") /\ reg_sh' = 0
  /\ Pend(irq_pending)
  /\ CountDown /\ reg_out' = 0
  /\ UNCHANGED <<latched_store, latched_branch, latched_rd, irq_active,
                 irq_mask, due>>

ExecCommon ==
  /\ cpu_state = "exec"
  /\ NoPseudo /\ NoWait /\ CountDown
  /\ reg_out' = insn2.target
  /\ Pend(irq_pending)
  /\ UNCHANGED <<trap, misaligned, reg_sh, reg_pc, reg_next_pc, irqs>>

(* A branch waits for the fetch behind it, and if it is taken throws away  *)
(* what that delivers.                                                     *)
Branch ==
  /\ ExecCommon /\ insn1.kind \in {"taken", "passed"}
  /\ LET alu_out_0 == insn2.kind = "taken" IN
       /\ latched_store' = alu_out_0 /\ latched_branch' = alu_out_0
       /\ Trigger(FetchDone /\ ~alu_out_0)
       /\ Flags(IF alu_out_0 THEN {"rinst"} ELSE {}, mem_do)
       /\ due' = IF alu_out_0 THEN insn2.target ELSE due
  /\ Goto(IF mem_done THEN "fetch" ELSE "exec")
  /\ alu_out_q' = 0
  /\ UNCHANGED <<latched_stalu, latched_rd>>

Execute ==
  /\ ExecCommon /\ insn1.kind \notin {"taken", "passed"}
  /\ latched_store' = TRUE /\ latched_stalu' = TRUE
  /\ latched_branch' = (insn1.kind = "jalr")
  /\ alu_out_q' \in IF insn1.kind = "jalr" THEN Pc ELSE {0}
  /\ due' = IF insn1.kind = "jalr" THEN alu_out_q' ELSE due
  /\ Trigger(FetchDone)
  /\ Flags({}, mem_do)
  /\ Goto("fetch")
  /\ UNCHANGED latched_rd

Shift ==
  /\ cpu_state = "shift"
  /\ Trigger(FetchDone) /\ NoPseudo /\ NoWait /\ CountDown /\ NoJump
  /\ StoreLatched
  /\ IF reg_sh = 0
     THEN Flags({}, Rinst("prefetch" \in mem_do)) /\ Goto("fetch") /\ reg_sh' = 0
     ELSE Flags({}, mem_do) /\ Goto("shift") /\ reg_sh' = reg_sh - 1
  /\ Pend(irq_pending)
  /\ UNCHANGED <<trap, misaligned, irqs, due>>

(* The next instruction has been decoded by the time the access is over;   *)
(* it is triggered then, without being decoded again.                      *)
AccessData(flag, bad) ==
  /\ NoWait /\ CountDown /\ NoJump
  /\ IF MemTurn /\ flag \notin mem_do
     THEN Flags({flag}, mem_do) /\ misaligned' = (insn2.kind = bad)
     ELSE Flags({}, mem_do) /\ UNCHANGED misaligned
  /\ Trigger(FetchDone \/ MemOver)
  /\ decoder_pseudo_trigger' = MemOver
  /\ Pend(irq_pending)
  /\ UNCHANGED <<trap, reg_sh, irqs, due>>

Store ==
  /\ cpu_state = "stmem"
  /\ AccessData("wdata", "badstore")
  /\ Goto(IF MemOver THEN "fetch" ELSE "stmem")
  /\ UNCHANGED latches

Load ==
  /\ cpu_state = "ldmem"
  /\ AccessData("rdata", "badload")
  /\ Goto(IF MemOver THEN "fetch" ELSE "ldmem")
  /\ StoreLatched

Trapped ==
  /\ cpu_state = "trap"
  /\ trap' = TRUE
  /\ Trigger(FetchDone) /\ NoPseudo /\ NoWait /\ CountDown /\ NoJump
  /\ Flags({}, mem_do)
  /\ Pend(irq_pending)
  /\ Goto("trap")
  /\ UNCHANGED <<latches, misaligned, reg_sh, irqs, due>>

ResetCore ==
  /\ cpu_state' = "fetch" /\ trap' = FALSE
  /\ mem_do' = {}
  /\ Trigger(FALSE) /\ NoPseudo /\ NoWait
  /\ reg_pc' = 0 /\ reg_next_pc' = 0 /\ reg_out' = 0 /\ alu_out_q' = 0
  /\ latched_store' = TRUE     \* of the stack address, to x2
  /\ latched_branch' = FALSE /\ latched_stalu' = FALSE /\ latched_rd' = "rd"
  /\ irq_state' = 0 /\ irq_active' = FALSE /\ irq_delay' = FALSE
  /\ irq_mask' = Irq
  /\ irq_pending' = irq \cup (IF timer = 1 THEN {irq_timer} ELSE {})
  /\ timer' = 0
  /\ misaligned' = FALSE /\ reg_sh' = 0
  /\ due' = 0

CoreEdge ==
  \/ ~resetn /\ ResetCore
  \/ /\ resetn
     /\ \/ EnterInterrupt \/ WaitForInterrupt \/ LaunchJal \/ Launch \/ AwaitInsn
        \/ IllegalInsn \/ QuickInsn \/ RetIrq \/ SendOn
        \/ Branch \/ Execute \/ Shift \/ Store \/ Load \/ Trapped

(* The next clock's inputs: a slave may answer in the clock of a request,  *)
(* and in none without one.                                                *)
Inputs ==
  /\ resetn' \in BOOLEAN
  /\ mem_ready' \in {FALSE, mem_valid'}
  /\ irq' \in SUBSET Sources

Init ==
  /\ resetn = FALSE /\ mem_ready = FALSE /\ irq = {}
  /\ mem_state = 0 /\ mem_valid = FALSE
  /\ mem_addr = Data /\ mem_write = FALSE /\ mem_instr = FALSE
  /\ mem_rdata_q = Garbage /\ insn1 = Garbage /\ insn2 = Garbage
  /\ cpu_state = "fetch" /\ trap = FALSE /\ mem_do = {}
  /\ decoder_trigger = FALSE /\ decoder_pseudo_trigger = FALSE
  /\ do_waitirq = FALSE
  /\ reg_pc = 0 /\ reg_next_pc = 0 /\ reg_out = 0 /\ alu_out_q = 0
  /\ latched_store = TRUE /\ latched_branch = FALSE /\ latched_stalu = FALSE
  /\ latched_rd = "rd"
  /\ irq_state = 0 /\ irq_active = FALSE /\ irq_delay = FALSE
  /\ irq_mask = Irq /\ irq_pending = {} /\ timer = 0
  /\ misaligned = FALSE /\ reg_sh = 0
  /\ due = 0

Next == MemEdge /\ DecoderEdge /\ CoreEdge /\ Inputs

(* The clock goes on, that a reset comes is never assumed, and the bus     *)
(* answers every request.                                                  *)
Clocked == Next /\ (resetn => resetn')

Spec == Init /\ [][Next]_vars
        /\ WF_vars(Clocked) /\ WF_vars(Clocked /\ mem_ready')

-----------------------------------------------------------------------------
(* The control registers stay in their ranges and every pc in the address  *)
(* space.                                                                  *)
TypeOK ==
  /\ mem_state \in 0 .. 3 /\ mem_valid \in BOOLEAN
  /\ mem_do \subseteq {"prefetch", "rinst", "rdata", "wdata"}
  /\ {mem_rdata_q, insn1, insn2} \subseteq Insn \cup {Garbage}
  /\ cpu_state \in {"trap", "fetch", "ld_rs1", "exec", "shift", "stmem", "ldmem"}
  /\ {reg_pc, reg_next_pc, reg_out, alu_out_q, due} \subseteq Pc
  /\ irq_state \in 0 .. 2
  /\ irq_pending \subseteq Irq /\ irq_mask \subseteq Irq
  /\ timer \in 0 .. TIMER_MAX

(* The assertions in picorv32.v: the flags exclude each other, and the     *)
(* memory interface is where the flags say it is.                          *)
Asserts ==
  resetn /\ ~trap =>
    /\ "wdata" \in mem_do => mem_do = {"wdata"}
    /\ "rdata" \in mem_do => mem_do = {"rdata"}
    /\ mem_state \in {2, 3} => mem_valid \/ "prefetch" \in mem_do
    /\ mem_state = 1 =>
         /\ ~mem_write /\ mem_valid
         /\ mem_do \cap {"prefetch", "rinst", "rdata"} # {}
         /\ mem_instr <=> mem_do \cap {"prefetch", "rinst"} # {}
    /\ mem_state = 2 => mem_write /\ "wdata" \in mem_do
    /\ mem_state = 3 => ~mem_write /\ "prefetch" \in mem_do

(* An instruction takes effect in this clock.                              *)
Executes ==
  resetn /\ cpu_state = "fetch" /\ ~EnterIrq /\ (decoder_trigger \/ WaitsIrq)

(* The core runs the instructions of memory in program order: each is      *)
(* decoded from the word at the address where the one before it said the   *)
(* program goes on, whatever was prefetched, thrown away or interrupted.   *)
InOrder ==
  Executes => current_pc = due /\ insn1.at = WordOf(due)

(* The two stages of the decoder speak of the instruction that executes,   *)
(* although the next word may have arrived already.                        *)
DecodedWhole ==
  resetn /\ cpu_state = "ld_rs1" => insn1 = insn2 /\ insn1.at = WordOf(reg_pc)

(* Nothing is lost or done twice when an interrupt comes between two       *)
(* instructions: the result of the first has been written, q0 gets the     *)
(* address of the second, and q1 at least one interrupt.                   *)
InterruptsBetween ==
  resetn =>
    /\ irq_state = 1 => Vectors /\ latched_rd = "q0" /\ reg_next_pc = due
    /\ irq_state = 2 => /\ Delivers /\ latched_rd = "q1"
                        /\ irq_pending \ irq_mask # {}

(* A pending interrupt goes only when the handler is given it, and one     *)
(* that arrives is pending from then on: also in the clock in which others *)
(* go, or an instruction makes a fault pending.                            *)
PendingStay ==
  resetn /\ resetn' =>
    /\ irq_pending \ irq_pending' \subseteq
         IF cpu_state = "fetch" /\ Delivers
         THEN (irq_pending \ irq_mask) \ irq ELSE {}
    /\ irq \subseteq irq_pending'
NoInterruptLost == [][PendingStay]_vars

(* The interrupt of a fault comes before the next instruction does, except *)
(* after retirq: one instruction always follows it, even when it returned  *)
(* to an address that is not aligned.                                      *)
FaultFirst ==
  Executes /\ ~irq_active
    /\ (irq_pending \ irq_mask) \cap {irq_ebreak, irq_buserror} # {} =>
    irq_delay /\ ~Aligned(due)

(* What SocBus takes for granted of the core: a request stays as it is     *)
(* until it is answered, and then the bus is let go for a clock.           *)
RequestHeld ==
  resetn =>
    /\ mem_valid /\ ~mem_ready => mem_valid' /\ UNCHANGED <<mem_addr, mem_write>>
    /\ mem_valid /\ mem_ready => ~mem_valid'
BusProtocol == [][RequestHeld]_vars

(* An instruction begins: once for each, however long a waitirq lasts.     *)
Begins == Executes /\ decoder_trigger

(* The core goes on: an instruction begins again and again, unless the     *)
(* core has trapped, is held in reset, or waits for an interrupt and none  *)
(* is pending.  A wait that a pending interrupt does not end, a missed     *)
(* wake-up, is no excuse.                                                  *)
GoesOn == []<>(Begins \/ (do_waitirq /\ irq_pending = {}) \/ trap \/ ~resetn)

(* An interrupt that software lets in is taken, also by a core that sits   *)
(* in waitirq.  The exception is a program that begins one waitirq after   *)
(* the other for ever and nothing else: waitirq does not end the delay     *)
(* that retirq begins.                                                     *)
RunsOn(others) == []<>(Begins /\ (insn1.kind = "waitirq") # others)
InterruptTaken ==
  (RunsOn(FALSE) => RunsOn(TRUE)) =>
    \A i \in Sources :
      (i \in irq_pending \ irq_mask) ~>
        (irq_state # 0 \/ irq_active \/ i \in irq_mask \/ trap \/ ~resetn)

=============================================================================
