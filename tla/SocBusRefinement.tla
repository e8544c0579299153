--------------------------- MODULE SocBusRefinement ---------------------------
(***************************************************************************)
(* The bus of top.v implements AtomicBus, step by step: a step of the bus  *)
(* asks, serves or answers a request of AtomicBus, or is no step of it.    *)
(* The hard step is the answer of the SRAM: it writes a word once more in  *)
(* the clock of the answer, which changes nothing because SramVouches says *)
(* that the word holds what was written, and what it returns is the word.  *)
(***************************************************************************)
EXTENDS SocBus_proofs

(* The refinement mapping of Abstract.                                     *)
phase == IF ~mem_valid THEN "idle" ELSE IF sram_ready THEN "done" ELSE "asked"
store == [c \in Cells |-> IF c = LED THEN leds_data_o ELSE mem[c]]

Performed == [store EXCEPT ![req.addr] = Written(req, @)]

-----------------------------------------------------------------------------
(* What is asked of a cell, and of none.                                   *)

LEMMA LedIsNoWord == LED \notin SramAddr
<1>1. SRAM_WORDS \in Nat /\ SRAM_WORDS <= REGS /\ REGS \in Nat
  BY SramAssumption, SMT DEF FLASH_FIRST, REGS
<1>2. Window.sram = 0 .. SRAM_WORDS - 1
  BY DEF Window
<1> QED  BY <1>1, <1>2 DEF SramAddr, LED

LEMMA SelCells ==
  ASSUME TypeOK, mem_valid
  PROVE  /\ Sel("sram") <=> req.addr \in SramAddr
         /\ Sel("leds") <=> req.addr = LED
         /\ req.addr \in Cells <=> Sel("sram") \/ Sel("leds")
         /\ ~(Sel("sram") /\ Sel("leds"))
<1>1. req.addr \in Addrs /\ {"sram", "leds"} \subseteq Slaves
  BY DEF TypeOK, Request, Slaves
<1>2. Window.leds = {LED}
  BY DEF Window
<1>3. /\ Sel("sram") <=> req.addr \in SramAddr
      /\ Sel("leds") <=> req.addr = LED
  BY <1>1, <1>2 DEF Sel, SramAddr
<1> QED  BY <1>1, <1>3, LedIsNoWord DEF Cells

LEMMA StoreType ==
  ASSUME TypeOK PROVE store \in [Cells -> Word] /\ DOMAIN store = Cells
BY WordFacts DEF TypeOK, store, Cells

(* A write of the SRAM, as often as it is made, performs the request.      *)
LEMMA StoreSram ==
  ASSUME TypeOK, Sel("sram"), SramEdge
  PROVE  \A c \in Cells \ {LED} : mem'[c] = Performed[c]
<1>1. mem_valid /\ req.addr \in SramAddr /\ req.addr \in Cells /\ req.addr # LED
  BY SelCells, LedIsNoWord DEF Sel
<1> SUFFICES ASSUME NEW c \in Cells \ {LED} PROVE mem'[c] = Performed[c]
  OBVIOUS
<1>2. c \in SramAddr /\ store[c] = mem[c]
  BY DEF Cells, store
<1>3. mem' = [mem EXCEPT ![req.addr] =
                [l \in Lane |-> IF l \in req.wstrb THEN req.wdata[l] ELSE @[l]]]
  BY DEF SramEdge
<1>4. CASE c = req.addr
  <2>1. Performed[c] = Written(req, mem[c])
    BY <1>1, <1>2, <1>4 DEF Performed, store
  <2>2. mem'[c] = [l \in Lane |-> IF l \in req.wstrb THEN req.wdata[l] ELSE mem[c][l]]
    BY <1>2, <1>3, <1>4 DEF TypeOK
  <2> QED  BY <1>1, <2>1, <2>2 DEF Written
<1>5. CASE c # req.addr
  BY <1>2, <1>3, <1>5 DEF Performed, store, TypeOK
<1> QED  BY <1>4, <1>5

LEMMA StoreLeds ==
  ASSUME TypeOK, Sel("leds"), LedsEdge, reset_n, reset_n'
  PROVE  leds_data_o' = Written(req, leds_data_o)
<1>1. req.addr = LED
  BY SelCells DEF Sel
<1>2. CASE 0 \in req.wstrb
  <2>1. leds' = req.wdata[0] % LED_MOD
    BY <1>2 DEF LedsEdge
  <2> QED  BY <1>1, <1>2, <2>1 DEF leds_data_o, Written
<1>3. CASE 0 \notin req.wstrb
  <2>1. leds' = leds
    BY <1>3 DEF LedsEdge
  <2> QED  BY <1>1, <1>3, <2>1 DEF leds_data_o, Written
<1> QED  BY <1>2, <1>3

(* What no request is about stays.                                         *)
LEMMA StoreRest ==
  ASSUME Next
  PROVE  /\ ~Sel("sram") => mem' = mem
         /\ ~Sel("leds") /\ reset_n /\ reset_n' => leds_data_o' = leds_data_o
BY DEF Next, SramEdge, LedsEdge, leds_data_o

LEMMA StoreAfter ==
  ASSUME TypeOK, Next, mem_valid, reset_n, reset_n'
  PROVE  store' = IF req.addr \in Cells THEN Performed ELSE store
<1> USE SelCells, StoreRest
<1>0. SramEdge /\ LedsEdge
  BY DEF Next
<1>1. CASE Sel("sram")
  <2>1. req.addr \in Cells /\ req.addr # LED /\ leds_data_o' = leds_data_o
    BY <1>1, LedIsNoWord
  <2>2. Performed[LED] = store[LED] \/ LED \notin Cells
    BY <2>1 DEF Performed, store
  <2>3. \A c \in Cells \ {LED} : mem'[c] = Performed[c]
    BY <1>0, <1>1, StoreSram
  <2> QED  BY <2>1, <2>2, <2>3 DEF store, Performed
<1>2. CASE Sel("leds")
  <2>1. req.addr = LED /\ LED \in Cells /\ mem' = mem
    BY <1>2
  <2>2. leds_data_o' = Written(req, leds_data_o)
    BY <1>0, <1>2, StoreLeds
  <2> QED  BY <2>1, <2>2 DEF store, Performed
<1>3. CASE ~Sel("sram") /\ ~Sel("leds")
  BY <1>3 DEF store
<1> QED  BY <1>1, <1>2, <1>3

-----------------------------------------------------------------------------
(* The steps out of a reset.                                               *)

(* No request is up: one may be asked.                                     *)
LEMMA StepIdle ==
  ASSUME IInv, Next, TypeOK', reset_n, reset_n', ~mem_valid
  PROVE  Abstract!Ask \/ UNCHANGED Abstract!vars
<1>1. ~Sel("sram") /\ ~Sel("leds") /\ ~mem_xfer
  BY DEF Sel, mem_xfer
<1>2. sram_ready' = FALSE /\ mem_rdata_q' = mem_rdata_q /\ CoreEdge
  BY <1>1 DEF Next, SramEdge, CoreEdge
<1>3. store' = store
  BY <1>1, StoreRest DEF store
<1>4. CASE CoreAsk
  BY <1>2, <1>3, <1>4 DEF CoreAsk, Abstract!Ask, store
<1>5. CASE CoreIdle
  BY <1>2, <1>3, <1>5 DEF CoreIdle, Abstract!vars, store
<1> QED  BY <1>2, <1>4, <1>5 DEF CoreEdge, CoreReset, CoreWait, CoreTake, mem_xfer

(* One is up and waits: the SRAM performs it in the clock before it says   *)
(* so, and no other cell keeps the core waiting.                           *)
LEMMA StepWait ==
  ASSUME IInv, Next, reset_n, reset_n', mem_valid, ~mem_ready
  PROVE  Abstract!Serve \/ UNCHANGED Abstract!vars
<1>1. TypeOK /\ {"sram", "leds"} \subseteq Slaves
  BY DEF IInv, Slaves
<1>2. mem_valid' = mem_valid /\ req' = req /\ mem_rdata_q' = mem_rdata_q
  BY CoreHolds DEF Next, CoreEdge, mem_xfer
<1>3. ~Sel("leds") /\ ~sram_ready
  BY <1>1 DEF mem_ready, Ready
<1>4. sram_ready' = Sel("sram")
  BY DEF Next, SramEdge
<1>5. CASE Sel("sram")
  <2>1. req.addr \in Cells /\ store' = Performed
    BY <1>1, <1>5, SelCells, StoreAfter
  <2> QED
    BY <1>2, <1>3, <1>4, <1>5, <2>1
    DEF Abstract!Serve, Abstract!Perform, Target, store, Performed
<1>6. CASE ~Sel("sram")
  <2>1. store' = store
    BY <1>1, <1>3, <1>6, SelCells, StoreAfter
  <2> QED  BY <1>2, <1>3, <1>4, <1>6, <2>1 DEF Abstract!vars, store
<1> QED  BY <1>5, <1>6

(* The SRAM vouches: writing again what was written changes nothing.       *)
LEMMA WrittenAlready ==
  ASSUME TypeOK, SramVouches PROVE Performed = store
<1>1. req.addr \in SramAddr /\ req.addr \in Cells /\ req.addr # LED
  BY SelCells, LedIsNoWord DEF SramVouches, Sel
<1>2. mem[req.addr] \in [Lane -> 0 .. BYTE - 1]
  BY <1>1 DEF TypeOK, Word
<1>3. Written(req, mem[req.addr]) = mem[req.addr]
  BY <1>1, <1>2 DEF Written, SramVouches
<1> QED  BY <1>1, <1>3 DEF Performed, store

(* The core takes an answer.                                               *)
LEMMA StepTake ==
  ASSUME IInv, Next, TypeOK', reset_n, reset_n', mem_valid, mem_ready
  PROVE  Abstract!Answer
<1>0. TypeOK /\ {"sram", "leds"} \subseteq Slaves
  BY DEF IInv, Slaves
<1>1. mem_valid' = FALSE /\ req' = req /\ mem_rdata_q' = mem_rdata
  BY DEF Next, CoreEdge, CoreReset, CoreAsk, CoreIdle, CoreWait, CoreTake, mem_xfer
<1>2. sram_ready => SramVouches
  BY DEF IInv, Settled
<1>3. sram_ready <=> Sel("sram")
  BY <1>0, <1>2, OnlyOwnReady DEF Ready, SramVouches
<1>4. store' = IF req.addr \in Cells THEN Performed ELSE store
  BY <1>0, StoreAfter
<1>5. store' = IF ~sram_ready /\ req.addr \in Cells THEN Performed ELSE store
  BY <1>0, <1>2, <1>4, WrittenAlready
<1>6. mem_rdata_q' \in IF req.addr \notin Cells THEN {Other}
                       ELSE IF IsRead(req) THEN {store[req.addr]} ELSE Word
  <2> USE <1>1
  <2>1. CASE Sel("sram")
    <3>1. req.addr \in Cells /\ req.addr # LED /\ mem_rdata = sram_data_o
      BY <1>0, <2>1, SelCells, LedIsNoWord DEF mem_rdata
    <3>2. sram_data_o \in Word
      BY <1>0 DEF TypeOK
    <3>3. ASSUME IsRead(req) PROVE sram_data_o = store[req.addr]
      <4>1. \A l \in Lane : sram_data_o[l] = mem[req.addr][l]
        BY <1>2, <1>3, <2>1, <3>3 DEF SramVouches, IsRead
      <4>2. mem[req.addr] \in Word
        BY <1>0, <2>1, SelCells DEF TypeOK
      <4> QED  BY <3>1, <3>2, <4>1, <4>2 DEF Word, store
    <3> QED  BY <3>1, <3>2, <3>3
  <2>2. CASE Sel("leds")
    <3>1. req.addr = LED /\ LED \in Cells /\ mem_rdata = leds_data_o
      BY <1>0, <2>2, SelCells DEF mem_rdata
    <3> QED  BY <1>0, <3>1, WordFacts DEF store
  <2>3. CASE ~Sel("sram") /\ ~Sel("leds")
    BY <1>0, <2>3, SelCells DEF mem_rdata
  <2> QED  BY <2>1, <2>2, <2>3
<1> QED
  BY <1>1, <1>5, <1>6
  DEF Abstract!Answer, Abstract!Perform, Target, store, Performed

-----------------------------------------------------------------------------
(* The steps of a reset.  What the core had asked is performed in the      *)
(* clock that cuts it off, or was performed, or never is.                  *)
LEMMA StepReset ==
  ASSUME IInv, Next, TypeOK', ~(reset_n /\ reset_n')
  PROVE  Abstract!Reset
<1>0. TypeOK /\ CoreEdge /\ SramEdge
  BY DEF IInv, Next
<1>1. reset_n' \in BOOLEAN /\ mem_rdata_q' \in Word \cup {Other}
      /\ req' \in Request
  BY DEF TypeOK, reset_n
<1>2. reset_n' => mem_valid' = FALSE
  BY <1>0 DEF CoreEdge, CoreReset, CoreAsk, CoreIdle, CoreWait, CoreTake
<1>3. mem_valid => req' = req
  BY <1>0 DEF CoreEdge, CoreReset, CoreAsk, CoreIdle, CoreWait, CoreTake
<1>4. leds_data_o' = ZeroWord
  BY DEF Next, LedsEdge, leds_data_o, ZeroWord
<1>5. \/ store' = Abstract!Cleared(store)
      \/ mem_valid /\ req.addr \in Cells /\ store' = Abstract!Cleared(Performed)
  <2>1. CASE Sel("sram")
    <3>1. mem_valid /\ req.addr \in Cells
      BY <1>0, <2>1, SelCells DEF Sel
    <3>2. \A c \in Cells \ {LED} : mem'[c] = Performed[c]
      BY <1>0, <2>1, StoreSram
    <3> QED  BY <1>4, <3>1, <3>2 DEF Abstract!Cleared, store
  <2>2. CASE ~Sel("sram")
    <3>1. mem' = mem
      BY <2>2, StoreRest
    <3> QED  BY <1>4, <3>1 DEF Abstract!Cleared, store
  <2> QED  BY <2>1, <2>2
<1> QED
  BY <1>1, <1>2, <1>3, <1>5
  DEF Abstract!Reset, Abstract!Perform, Target, store, Performed

-----------------------------------------------------------------------------
LEMMA InitRefines == Init => Abstract!Init
<1> SUFFICES ASSUME Init PROVE Abstract!Init
  OBVIOUS
<1>1. reset_n = FALSE
  BY BusAssumption DEF Init, reset_n
<1>2. mem_rdata_q \in Word \cup {Other} /\ req \in Request
  BY WordFacts DEF Init
<1>3. leds_data_o \in Word
  BY BusAssumption DEF Init, leds_data_o, Word
<1>4. store \in [Cells -> Word]
  BY <1>3 DEF Init, store, Cells
<1> QED  BY <1>1, <1>2, <1>4 DEF Abstract!Init, store

LEMMA StepRefines ==
  ASSUME IInv, TypeOK', [Next]_vars
  PROVE  [Abstract!Next]_(Abstract!vars)
<1>1. CASE UNCHANGED vars
  BY <1>1 DEF vars, core, sram, Abstract!vars, reset_n, leds_data_o
<1>2. CASE Next /\ ~(reset_n /\ reset_n')
  BY <1>2, StepReset DEF Abstract!Next
<1>3. CASE Next /\ reset_n /\ reset_n'
  <2>1. Abstract!Ask \/ Abstract!Serve \/ Abstract!Answer
        \/ UNCHANGED Abstract!vars
    BY <1>3, StepIdle, StepWait, StepTake
  <2> QED  BY <1>3, <2>1 DEF Abstract!Next, Abstract!Running
<1> QED  BY <1>1, <1>2, <1>3

(* The core may take the SRAM and the LEDs for an atomic memory: for every *)
(* set of addresses and width of the data, whenever a reset comes, each    *)
(* request happens whole or not at all, and a read is answered with what   *)
(* the cell holds.                                                         *)
THEOREM ImplementsAtomicBus == Spec => AtomicBusSpec
<1>1. TypeOK /\ TypeOK' /\ Settled /\ [Next]_vars => [Abstract!Next]_(Abstract!vars)
  BY StepRefines DEF IInv
<1> QED
  BY <1>1, InitRefines, TypeCorrect, SettledAlways, PTL
  DEF Spec, AtomicBusSpec, Abstract!Spec

===============================================================================
