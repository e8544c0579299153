---------------------------- MODULE SocBus_proofs ----------------------------
(* What holds of the bus for every set of addresses, every width of the    *)
(* data, every length of a reset and every speed of the devices.           *)
EXTENDS SocBus, TLAPS

-----------------------------------------------------------------------------
(* The memory map.                                                         *)

(* The select wires of top.v are exclusive: no address belongs to two      *)
(* slaves, on either board and with any SRAM that ends where the flash     *)
(* window begins.                                                          *)
THEOREM MapExclusive ==
  ASSUME NEW a \in Address, NEW s \in Slaves, NEW t \in Slaves,
         a \in Window[s], a \in Window[t]
  PROVE  s = t
<1>1. /\ REGS \in Nat /\ FLASH_FIRST \in Nat /\ FLASH_LAST \in Nat
      /\ FLASH_LAST < REGS
  BY SMT DEF REGS, FLASH_FIRST, FLASH_LAST
<1>2. a \in Nat
  BY DEF Address
<1>3. /\ a \in Window.sram    <=> a < SRAM_WORDS
      /\ a \in Window.uflash  <=> FLASH_FIRST <= a /\ a <= FLASH_LAST
      /\ a \in Window.leds    <=> a = REGS
      /\ a \in Window.uart    <=> REGS + 2 <= a /\ a <= REGS + 3
      /\ a \in Window.cdt     <=> a = REGS + 4
      /\ a \in Window.ws2812b <=> a = REGS + 8
      /\ a \in Window.sd_spi  <=> REGS + 12 <= a /\ a <= REGS + 15
  BY <1>1, <1>2, SramAssumption, SMT
  DEF Window, LED, UART_DIV, UART_DAT, CDT, WS2812B, SD_TX
<1>4. SRAM_WORDS \in Nat /\ SRAM_WORDS <= FLASH_FIRST /\ FLASH_FIRST <= FLASH_LAST
  BY SramAssumption, SMT DEF FLASH_FIRST, FLASH_LAST
<1>5. /\ s \in {"sram", "leds", "uart", "cdt", "sd_spi", "uflash", "ws2812b"}
      /\ t \in {"sram", "leds", "uart", "cdt", "sd_spi", "uflash", "ws2812b"}
  BY DEF Slaves
<1> QED  BY <1>1, <1>2, <1>3, <1>4, <1>5

-----------------------------------------------------------------------------
(* Types.                                                                  *)

LEMMA UfCap == Uf!HISTORY_CAP \in Nat
  BY FlashAssumption DEF Uf!HISTORY_CAP

LEMMA UfSequenceLines ==
  ASSUME lines \subseteq Uf!Lines, Uf!Sequence
  PROVE  lines' \subseteq Uf!Lines
<1> USE DEF Uf!Lines, Uf!Raise, Uf!Drop
<1>1. CASE Uf!Idle \/ Uf!BeginRead \/ Uf!BeginWrite \/ Uf!BeginErase
             \/ Uf!Unsupported
  BY <1>1 DEF Uf!Idle, Uf!BeginRead, Uf!BeginWrite, Uf!BeginErase,
              Uf!Unsupported, Uf!ufvars
<1>2. CASE Uf!Read1 \/ Uf!Read2 \/ Uf!Write1 \/ Uf!Write5 \/ Uf!Done \/ Uf!Wait
  BY <1>2 DEF Uf!Read1, Uf!Read2, Uf!Write1, Uf!Write5, Uf!Done, Uf!Wait
<1>3. CASE Uf!Erase1 \/ Uf!Erase2 \/ Uf!Erase3 \/ Uf!Erase4 \/ Uf!Erase5
  BY <1>3 DEF Uf!Erase1, Uf!Erase2, Uf!Erase3, Uf!Erase4, Uf!Erase5
<1>4. CASE Uf!Write2 \/ Uf!Write3 \/ Uf!Write4 \/ Uf!Write6 \/ Uf!Write7
  BY <1>4 DEF Uf!Write2, Uf!Write3, Uf!Write4, Uf!Write6, Uf!Write7
<1> QED  BY <1>1, <1>2, <1>3, <1>4 DEF Uf!Sequence

LEMMA UfSequenceState ==
  ASSUME uf_state \in Uf!UState, cycle_count \in 0 .. CYCLE_MOD - 1,
         Uf!Sequence
  PROVE  uf_state' \in Uf!UState /\ cycle_count' \in 0 .. CYCLE_MOD - 1
<1> CYCLE_MOD \in Nat \ {0}
  BY FlashAssumption
<1> USE DEF Uf!UState, Uf!TimedState
<1>1. CASE Uf!Idle \/ Uf!BeginRead \/ Uf!BeginWrite \/ Uf!BeginErase
             \/ Uf!Unsupported
  BY <1>1 DEF Uf!Idle, Uf!BeginRead, Uf!BeginWrite, Uf!BeginErase,
              Uf!Unsupported, Uf!Goto, Uf!ufvars
<1>2. CASE Uf!Read1 \/ Uf!Read2 \/ Uf!Write1 \/ Uf!Write5 \/ Uf!Done
  BY <1>2 DEF Uf!Read1, Uf!Read2, Uf!Write1, Uf!Write5, Uf!Done, Uf!Goto
<1>3. CASE Uf!Erase1 \/ Uf!Erase2 \/ Uf!Erase3 \/ Uf!Erase4 \/ Uf!Erase5
  BY <1>3 DEF Uf!Erase1, Uf!Erase2, Uf!Erase3, Uf!Erase4, Uf!Erase5, Uf!Leave
<1>4. CASE Uf!Write2 \/ Uf!Write3 \/ Uf!Write4 \/ Uf!Write6 \/ Uf!Write7
  BY <1>4 DEF Uf!Write2, Uf!Write3, Uf!Write4, Uf!Write6, Uf!Write7, Uf!Leave
<1>5. CASE Uf!Wait
  BY <1>5 DEF Uf!Wait
<1> QED  BY <1>1, <1>2, <1>3, <1>4, <1>5 DEF Uf!Sequence

LEMMA UfEdgeType ==
  ASSUME Uf!TypeOK, Uf!Edge
  PROVE  Uf!TypeOK'
<1>1. lines' \subseteq Uf!Lines
  BY UfSequenceLines DEF Uf!TypeOK, Uf!Edge, Uf!Clear
<1>2. uf_state' \in Uf!UState /\ cycle_count' \in 0 .. CYCLE_MOD - 1
  BY UfSequenceState, FlashAssumption
  DEF Uf!TypeOK, Uf!Edge, Uf!Clear, Uf!UState
<1>3. since' \in [Uf!Lines -> 0 .. Uf!HISTORY_CAP]
  BY UfCap DEF Uf!TypeOK, Uf!Edge, Uf!Remember
<1> QED  BY <1>1, <1>2, <1>3 DEF Uf!TypeOK

LEMMA WordFacts ==
  /\ ZeroWord \in Word
  /\ TypeOK => leds_data_o \in Word
BY BusAssumption DEF ZeroWord, Word, TypeOK, leds_data_o

LEMMA CoreType ==
  ASSUME TypeOK, CoreEdge
  PROVE  mem_valid' \in BOOLEAN /\ req' \in Request
         /\ mem_rdata_q' \in Word \cup {Other}
<1>1. mem_valid' \in BOOLEAN /\ req' \in Request
  BY DEF TypeOK, CoreEdge, CoreReset, CoreAsk, CoreIdle, CoreWait, CoreTake
<1>2. mem_rdata \in Word \cup {Other}
  BY WordFacts DEF TypeOK, mem_rdata
<1> QED  BY <1>1, <1>2 DEF CoreEdge, TypeOK

LEMMA SramType ==
  ASSUME TypeOK, SramEdge
  PROVE  sram_ready' \in BOOLEAN /\ sram_data_o' \in Word
         /\ mem' \in [SramAddr -> Word]
<1>1. Sel("sram") \in BOOLEAN /\ (Sel("sram") => req.addr \in SramAddr)
  BY DEF Sel, TypeOK, Request, SramAddr
<1>2. sram_data_o' \in Word
  <2>1. CASE ~(reset_n /\ reset_n')
    BY <2>1, WordFacts DEF SramEdge
  <2>2. CASE (reset_n /\ reset_n') /\ Sel("sram")
    <3>1. mem[req.addr] \in Word
      BY <2>2, <1>1 DEF TypeOK
    <3> QED  BY <3>1, <2>2 DEF SramEdge, TypeOK, Word
  <2>3. CASE (reset_n /\ reset_n') /\ ~Sel("sram")
    BY <2>3 DEF SramEdge, TypeOK, Word
  <2> QED  BY <2>1, <2>2, <2>3
<1>3. mem' \in [SramAddr -> Word]
  <2> DEFINE new(w) == [l \in Lane |-> IF l \in req.wstrb THEN req.wdata[l]
                                       ELSE w[l]]
  <2>1. CASE Sel("sram")
    <3>1. mem[req.addr] \in Word /\ req.wdata \in Word
      BY <2>1, <1>1 DEF TypeOK, Request
    <3>2. new(mem[req.addr]) \in Word
      BY <3>1 DEF Word
    <3>3. mem' = [mem EXCEPT ![req.addr] = new(mem[req.addr])]
      BY <2>1, <1>1 DEF SramEdge, TypeOK
    <3> HIDE DEF new
    <3> QED  BY <3>2, <3>3, <1>1, <2>1 DEF TypeOK
  <2>2. CASE ~Sel("sram")
    BY <2>2 DEF SramEdge, TypeOK
  <2> QED  BY <2>1, <2>2
<1> QED  BY <1>1, <1>2, <1>3 DEF SramEdge

LEMMA DeviceTypes ==
  ASSUME TypeOK, Next
  PROVE  /\ reset_count' \in 0 .. RESET_MAX
         /\ leds' \in 0 .. LED_MOD - 1
         /\ delay_state' \in 0 .. 3
         /\ default_ready' \in BOOLEAN
         /\ sd_left' \in 0 .. SD_CLKS
         /\ ws_left' \in 0 .. WS_CLKS
         /\ effects' \in Nat
<1> USE BusAssumption
<1>1. reset_count' \in 0 .. RESET_MAX
  BY DEF TypeOK, Next, ResetEdge, reset_n
<1>2. leds' \in 0 .. LED_MOD - 1
  <2>1. req.wdata[0] \in Nat
    BY DEF TypeOK, Request, Word
  <2>2. LED_MOD \in Nat \ {0}
    OBVIOUS
  <2>3. req.wdata[0] % LED_MOD \in 0 .. LED_MOD - 1
    BY <2>1, <2>2
  <2> QED  BY <2>2, <2>3 DEF TypeOK, Next, LedsEdge
<1>3. delay_state' \in 0 .. 3
  BY DEF TypeOK, Next, CdtEdge
<1>4. default_ready' \in BOOLEAN
  BY DEF Next, DefaultEdge
<1>5. sd_left' \in 0 .. SD_CLKS
  BY DEF TypeOK, Next, SdEdge
<1>6. ws_left' \in 0 .. WS_CLKS
  BY DEF TypeOK, Next, WsEdge
<1>7. effects' \in Nat
  BY DEF TypeOK, Next, CountEffects
<1> QED  BY <1>1, <1>2, <1>3, <1>4, <1>5, <1>6, <1>7

LEMMA UartType ==
  ASSUME TypeOK, UartEdge
  PROVE  /\ send_bitcnt' \in 0 .. FRAME_BITS + DUMMY_BITS
         /\ send_dummy' \in BOOLEAN
         /\ recv_buf_valid' \in BOOLEAN
<1>1. send_bitcnt' \in 0 .. FRAME_BITS + DUMMY_BITS
  <2>1. /\ send_bitcnt \in 0 .. FRAME_BITS + DUMMY_BITS
        /\ FRAME_BITS \in Nat /\ DUMMY_BITS \in Nat
    BY BusAssumption DEF TypeOK
  <2>2. \/ send_bitcnt' \in {0, DUMMY_BITS, FRAME_BITS, send_bitcnt}
        \/ send_bitcnt # 0 /\ send_bitcnt' = send_bitcnt - 1
    BY DEF UartEdge, UartReset, SendDummy, SendFrame, CharLoaded,
           SendBit, SendNothing
  <2> QED  BY <2>1, <2>2
<1>3. send_dummy' \in BOOLEAN
  <2>1. send_dummy \in BOOLEAN /\ (send_dummy \/ reg_div_we) \in BOOLEAN
    BY Zenon DEF TypeOK
  <2>2. send_dummy' \in {TRUE, FALSE, send_dummy, send_dummy \/ reg_div_we}
    BY Zenon DEF UartEdge, UartReset, SendDummy, SendFrame, CharLoaded,
           SendBit, SendNothing
  <2> QED  BY <2>1, <2>2, Zenon
<1>2. recv_buf_valid' \in BOOLEAN
  BY DEF TypeOK, UartEdge, UartReset, Receive, ReceiveNothing
<1> QED  BY <1>1, <1>2, <1>3

LEMMA TypeStep ==
  ASSUME TypeOK, [Next]_vars PROVE TypeOK'
<1>1. CASE Next
  <2>1. CoreEdge /\ SramEdge /\ UartEdge /\ Uf!Edge
    BY <1>1 DEF Next
  <2>2. Uf!TypeOK'
    BY <2>1, UfEdgeType DEF TypeOK
  <2> QED  BY <1>1, <2>1, <2>2, CoreType, SramType, DeviceTypes, UartType
           DEF TypeOK
<1>2. CASE UNCHANGED vars
  BY <1>2 DEF TypeOK, vars, core, sram, uart, ufvars, Uf!TypeOK
<1> QED  BY <1>1, <1>2

(* Every register of the SoC stays within its width.                       *)
THEOREM TypeCorrect == Spec => []TypeOK
<1>1. Init => TypeOK
  <2> SUFFICES ASSUME Init PROVE TypeOK
    OBVIOUS
  <2>1. Uf!TypeOK
    BY UfCap, FlashAssumption DEF Init, Uf!TypeOK, Uf!UState
  <2>2. /\ reset_count \in 0 .. RESET_MAX /\ leds \in 0 .. LED_MOD - 1
        /\ delay_state \in 0 .. 3
        /\ send_bitcnt \in 0 .. FRAME_BITS + DUMMY_BITS
        /\ sd_left \in 0 .. SD_CLKS /\ ws_left \in 0 .. WS_CLKS
        /\ effects \in Nat
    BY BusAssumption DEF Init
  <2>3. /\ mem_rdata_q \in Word \cup {Other} /\ sram_data_o \in Word
        /\ req \in Request /\ mem \in [SramAddr -> Word]
    BY WordFacts DEF Init
  <2>4. /\ mem_valid \in BOOLEAN /\ sram_ready \in BOOLEAN
        /\ send_dummy \in BOOLEAN /\ recv_buf_valid \in BOOLEAN
        /\ default_ready \in BOOLEAN
    BY DEF Init
  <2> QED  BY <2>1, <2>2, <2>3, <2>4 DEF TypeOK
<1> QED  BY <1>1, TypeStep, PTL DEF Spec

-----------------------------------------------------------------------------
(* One slave answers.                                                      *)

IInv == TypeOK /\ Settled

LEMMA SelOne ==
  ASSUME TypeOK
  PROVE  /\ \A s, t \in Slaves : Sel(s) /\ Sel(t) => s = t
         /\ \A s \in Slaves : Sel(s) => ~default_sel
<1>1. req.addr \in Address
  BY BusAssumption DEF TypeOK, Request
<1>2. \A s, t \in Slaves : Sel(s) /\ Sel(t) => s = t
  BY <1>1, MapExclusive DEF Sel
<1> QED  BY <1>2 DEF Sel, default_sel, Hits

LEMMA ReadyIsSel ==
  ASSUME Settled, reset_n, mem_valid
  PROVE  /\ \A s \in Ready : s \in Slaves /\ Sel(s)
         /\ default_ready => default_sel
<1>1. default_ready => default_sel
  BY DEF Settled
<1>2. sram_ready => Sel("sram")
  BY DEF Settled, SramVouches
<1>3. delay_state = 2 => Sel("cdt")
  BY DEF Settled
<1>4. uf_state = "DONE" => Sel("uflash")
  BY DEF Settled
<1>5. div_sel \/ dat_sel => Sel("uart")
  BY DEF div_sel, dat_sel
<1> QED  BY <1>1, <1>2, <1>3, <1>4, <1>5 DEF Ready

(* The core sees an answer exactly when the slave it addressed gives one.  *)
LEMMA OnlyOwnReady ==
  ASSUME IInv, reset_n, NEW s \in Slaves, Sel(s)
  PROVE  mem_ready <=> s \in Ready
<1>1. mem_valid
  BY DEF Sel
<1>2. \A t \in Ready : t = s
  BY <1>1, ReadyIsSel, SelOne DEF IInv
<1>3. ~default_ready
  BY <1>1, ReadyIsSel, SelOne DEF IInv
<1> QED  BY <1>1, <1>2, <1>3 DEF mem_ready

LEMMA CoreHolds ==
  ASSUME CoreEdge, reset_n, mem_valid
  PROVE  /\ mem_ready => mem_valid' = FALSE
         /\ ~mem_ready => mem_valid' = mem_valid /\ req' = req
BY DEF CoreEdge, CoreReset, CoreAsk, CoreIdle, CoreWait, CoreTake, mem_xfer

LEMMA SelHolds ==
  ASSUME CoreEdge, reset_n, NEW s, Sel(s), ~mem_ready
  PROVE  Sel(s)'
<1>1. mem_valid /\ mem_valid' = mem_valid /\ req' = req
  BY CoreHolds DEF Sel
<1> QED  BY <1>1 DEF Sel

LEMMA VouchStep ==
  ASSUME IInv, Next, reset_n, reset_n', mem_valid', sram_ready'
  PROVE  SramVouches'
<1>1. Sel("sram") /\ req.addr \in SramAddr
  BY DEF Next, SramEdge, IInv, TypeOK, Request, SramAddr, Sel
<1>2. CoreEdge /\ mem_valid
  BY <1>1 DEF Sel, Next
<1>3. ~mem_ready /\ req' = req
  BY <1>2, CoreHolds
<1>4. Sel("sram")'
  BY <1>1, <1>2, <1>3, SelHolds
<1>5. \A l \in Lane :
        sram_data_o'[l] = IF l \notin req.wstrb THEN mem[req.addr][l]
                          ELSE sram_data_o[l]
  BY <1>1 DEF Next, SramEdge
<1>6. \A l \in Lane :
        mem'[req.addr][l] = IF l \in req.wstrb THEN req.wdata[l]
                            ELSE mem[req.addr][l]
  BY <1>1 DEF Next, SramEdge, IInv, TypeOK
<1> QED  BY <1>3, <1>4, <1>5, <1>6 DEF SramVouches

LEMMA CdtStep ==
  ASSUME IInv, Next, reset_n, reset_n'
  PROVE  /\ delay_state' \in {1, 2} => Sel("cdt")'
         /\ delay_state' = 3 => mem_valid' = FALSE
<1>1. CASE ~Sel("cdt")
  BY <1>1 DEF Next, CdtEdge
<1>2. CASE Sel("cdt")
  <2>1. "cdt" \in Slaves /\ mem_valid /\ CoreEdge
    BY <1>2 DEF Slaves, Sel, Next
  <2>2. mem_ready <=> delay_state = 2
    BY <1>2, <2>1, OnlyOwnReady DEF Ready
  <2>3. delay_state \in 0 .. 3 /\ delay_state # 3
    BY <2>1 DEF IInv, TypeOK, Settled
  <2>4. delay_state' = delay_state + 1
    BY <1>2, <2>3 DEF Next, CdtEdge
  <2>5. CASE delay_state = 2
    BY <2>1, <2>2, <2>4, <2>5, CoreHolds
  <2>6. CASE delay_state # 2
    BY <1>2, <2>1, <2>2, <2>3, <2>4, <2>6, SelHolds
  <2> QED  BY <2>5, <2>6
<1> QED  BY <1>1, <1>2

LEMMA UfLeavesIdle ==
  ASSUME Uf!Sequence, uf_state' # "IDLE"
  PROVE  uf_state # "DONE" /\ (uf_state = "IDLE" => Sel("uflash"))
<1>1. uf_state # "DONE"
  <2> SUFFICES ASSUME uf_state = "DONE" PROVE FALSE
    OBVIOUS
  <2> QED
    BY DEF Uf!Sequence, Uf!Idle, Uf!BeginRead, Uf!BeginWrite, Uf!BeginErase,
           Uf!Unsupported, Uf!Read1, Uf!Read2, Uf!Erase1, Uf!Erase2, Uf!Erase3,
           Uf!Erase4, Uf!Erase5, Uf!Write1, Uf!Write2, Uf!Write3, Uf!Write4,
           Uf!Write5, Uf!Write6, Uf!Write7, Uf!Wait, Uf!Done, Uf!Leave,
           Uf!Goto, Uf!TimedState
<1>2. uf_state = "IDLE" => Sel("uflash")
  BY DEF Uf!Sequence, Uf!Idle, Uf!BeginRead, Uf!BeginWrite, Uf!BeginErase,
         Uf!Unsupported, Uf!Read1, Uf!Read2, Uf!Erase1, Uf!Erase2, Uf!Erase3,
         Uf!Erase4, Uf!Erase5, Uf!Write1, Uf!Write2, Uf!Write3, Uf!Write4,
         Uf!Write5, Uf!Write6, Uf!Write7, Uf!Wait, Uf!Done, Uf!Leave,
         Uf!TimedState, Uf!ufvars
<1> QED  BY <1>1, <1>2

LEMMA UfStep ==
  ASSUME IInv, Next, reset_n, reset_n', uf_state' # "IDLE"
  PROVE  Sel("uflash")'
<1>1. Uf!Sequence /\ CoreEdge
  BY DEF Next, Uf!Edge
<1>2. uf_state # "DONE" /\ Sel("uflash")
  BY <1>1, UfLeavesIdle DEF IInv, Settled
<1>3. "uflash" \in Slaves /\ "uflash" \notin Ready
  BY <1>2 DEF Ready, Sel
<1>4. ~mem_ready
  BY <1>2, <1>3, OnlyOwnReady
<1> QED  BY <1>1, <1>2, <1>4, SelHolds

LEMMA SettledStep ==
  ASSUME IInv, [Next]_vars PROVE Settled'
<1>1. CASE Next /\ reset_n' /\ ~reset_n
  <2>1. mem_valid' = FALSE
    BY <1>1 DEF Next, CoreEdge, CoreReset, CoreAsk, CoreIdle, CoreWait, CoreTake
  <2>2. delay_state' = 0 /\ uf_state' = "IDLE"
    BY <1>1 DEF Next, CdtEdge, Uf!Edge, Uf!Clear
  <2> QED  BY <2>1, <2>2 DEF Settled
<1>2. CASE Next /\ reset_n' /\ reset_n
  <2>1. mem_valid' /\ default_ready' => default_sel'
    <3> SUFFICES ASSUME mem_valid', default_ready' PROVE default_sel'
      OBVIOUS
    <3>1. default_sel /\ mem_valid /\ CoreEdge
      BY <1>2 DEF Next, DefaultEdge, default_sel
    <3>2. req' = req
      BY <1>2, <3>1, CoreHolds
    <3> QED  BY <3>1, <3>2 DEF default_sel, Hits
  <2>2. mem_valid' /\ sram_ready' => SramVouches'
    BY <1>2, VouchStep
  <2>3. /\ delay_state' \in {1, 2} => Sel("cdt")'
        /\ delay_state' = 3 => ~mem_valid'
    BY <1>2, CdtStep
  <2>4. uf_state' # "IDLE" => Sel("uflash")'
    BY <1>2, UfStep
  <2> QED  BY <2>1, <2>2, <2>3, <2>4 DEF Settled
<1>3. CASE UNCHANGED vars
  BY <1>3 DEF IInv, Settled, SramVouches, Sel, default_sel, Hits, reset_n, vars,
              core, sram, uart, ufvars
<1>4. CASE ~reset_n'
  BY <1>4 DEF Settled
<1> QED  BY <1>1, <1>2, <1>3, <1>4

(* The invariant the answers rest on.                                      *)
THEOREM SettledAlways == Spec => []Settled
<1>1. Init => Settled
  BY BusAssumption DEF Init, Settled, reset_n
<1> QED  BY <1>1, TypeCorrect, SettledStep, PTL DEF Spec, IInv

(* Only the slave an address belongs to answers for it, and it answers the *)
(* request that is up.                                                     *)
THEOREM AnswerIsOwnAlways == Spec => []AnswerIsOwn
<1>1. TypeOK /\ Settled => AnswerIsOwn
  <2> SUFFICES ASSUME TypeOK, Settled, reset_n, mem_valid
               PROVE  AnswerIsOwn
    BY DEF AnswerIsOwn
  <2>1. \A s, t \in Hits(req.addr) : s = t
    BY SelOne DEF Hits, Sel
  <2> QED  BY <2>1, ReadyIsSel DEF AnswerIsOwn
<1> QED  BY <1>1, TypeCorrect, SettledAlways, PTL

(* A read of SRAM returns the word, and a write is in it when the core     *)
(* goes on.                                                                *)
THEOREM SramAnswerAlways == Spec => []SramAnswer
<1>1. TypeOK /\ Settled => SramAnswer
  <2> SUFFICES ASSUME TypeOK, Settled, reset_n, mem_xfer, Sel("sram")
               PROVE  SramVouches
    BY DEF SramAnswer, SramVouches
  <2>1. "sram" \in Slaves
    BY DEF Slaves
  <2>2. sram_ready
    BY <2>1, OnlyOwnReady DEF IInv, mem_xfer, Ready
  <2> QED  BY <2>2 DEF Settled, mem_xfer
<1> QED  BY <1>1, TypeCorrect, SettledAlways, PTL

-----------------------------------------------------------------------------
(* Effects happen once.  Of the devices with an effect only the flash      *)
(* takes longer than the effect to answer, so while a request waits what   *)
(* has been counted is whether the flash has begun.                        *)

EffectsCounted ==
  reset_n /\ mem_valid => effects = IF uf_state # "IDLE" THEN 1 ELSE 0

EInv == IInv /\ EffectsCounted

FlashBegins == Sel("uflash") /\ uf_state = "IDLE"

(* Every other effect is in the clock of the answer.                       *)
LEMMA EffectWhileWaiting ==
  ASSUME reset_n, mem_valid, ~mem_ready
  PROVE  EffectNow <=> FlashBegins
<1>1. Ready = {}
  BY DEF mem_ready
<1>2. "uart" \in Slaves /\ "sd_spi" \in Slaves
  BY DEF Slaves
<1>3. ~CharLoaded
  BY <1>1, <1>2 DEF CharLoaded, Ready, reg_dat_we, reg_dat_wait
<1>4. ~reg_dat_re
  BY <1>1, <1>2 DEF reg_dat_re, Ready, reg_dat_wait, reg_dat_we
<1>5. ~SdStart
  BY <1>1, <1>2 DEF SdStart, Ready
<1>6. ~ena
  BY <1>1 DEF ena, Ready, Sel
<1> QED  BY <1>3, <1>4, <1>5, <1>6 DEF EffectNow, FlashBegins

LEMMA FlashStep ==
  ASSUME Uf!Sequence, uf_state # "DONE"
  PROVE  uf_state' # "IDLE" <=> uf_state # "IDLE" \/ Sel("uflash")
BY DEF Uf!Sequence, Uf!Idle, Uf!BeginRead, Uf!BeginWrite, Uf!BeginErase,
       Uf!Unsupported, Uf!Read1, Uf!Read2, Uf!Erase1, Uf!Erase2, Uf!Erase3,
       Uf!Erase4, Uf!Erase5, Uf!Write1, Uf!Write2, Uf!Write3, Uf!Write4,
       Uf!Write5, Uf!Write6, Uf!Write7, Uf!Wait, Uf!Done, Uf!Leave,
       Uf!Goto, Uf!TimedState, Uf!ufvars

LEMMA CountedStep ==
  ASSUME EInv, [Next]_vars PROVE EffectsCounted'
<1>1. CASE Next /\ reset_n' /\ mem_valid'
  <2>1. reset_n /\ CoreEdge
    BY <1>1 DEF Next, CoreEdge, CoreReset, CoreAsk, CoreIdle, CoreWait, CoreTake
  <2>2. Uf!Sequence /\ CountEffects
    BY <1>1, <2>1 DEF Next, Uf!Edge
  <2>3. CASE ~mem_valid
    <3>1. uf_state = "IDLE" /\ ~Sel("uflash")
      BY <2>1, <2>3 DEF EInv, IInv, Settled, Sel
    <3>2. uf_state' = "IDLE"
      BY <2>2, <3>1, FlashStep
    <3> QED  BY <2>2, <2>3, <3>2 DEF CountEffects, EffectsCounted
  <2>4. CASE mem_valid
    <3>1. ~mem_ready
      BY <1>1, <2>1, <2>4, CoreHolds
    <3>2. uf_state # "DONE"
      <4>1. uf_state = "DONE" => Sel("uflash")
        BY <2>1 DEF EInv, IInv, Settled
      <4>2. uf_state = "DONE" => "uflash" \in Ready
        BY <4>1 DEF Ready, Sel
      <4> QED  BY <2>4, <3>1, <4>2 DEF mem_ready
    <3>3. EffectNow <=> FlashBegins
      BY <2>1, <2>4, <3>1, EffectWhileWaiting
    <3>4. effects = IF uf_state # "IDLE" THEN 1 ELSE 0
      BY <2>1, <2>4 DEF EInv, EffectsCounted
    <3>5. effects' = IF FlashBegins THEN effects + 1 ELSE effects
      BY <2>2, <2>4, <3>3 DEF CountEffects
    <3>6. uf_state' # "IDLE" <=> uf_state # "IDLE" \/ Sel("uflash")
      BY <2>2, <3>2, FlashStep
    <3>7. effects' = IF uf_state' # "IDLE" THEN 1 ELSE 0
      BY <3>4, <3>5, <3>6 DEF FlashBegins
    <3> QED  BY <3>7 DEF EffectsCounted
  <2> QED  BY <2>3, <2>4
<1>2. CASE ~(reset_n' /\ mem_valid')
  BY <1>2 DEF EffectsCounted
<1>3. CASE UNCHANGED vars
  BY <1>3 DEF EInv, EffectsCounted, reset_n, vars, core, ufvars
<1> QED  BY <1>1, <1>2, <1>3

LEMMA EInvAlways == Spec => []EInv
<1>1. Init => EffectsCounted
  BY BusAssumption DEF Init, EffectsCounted, reset_n
<1>2. TypeOK /\ Settled /\ EffectsCounted /\ [Next]_vars => EffectsCounted'
  BY CountedStep DEF EInv, IInv
<1> QED  BY <1>1, <1>2, TypeCorrect, SettledAlways, PTL DEF Spec, EInv, IInv

(* What the core asked for has happened exactly once when it takes the     *)
(* answer: no character, colour or flash sequence is lost or doubled by    *)
(* the wait, for any length of a wait.                                     *)
THEOREM EffectOnceAlways == Spec => []EffectOnce
<1>1. EInv => EffectOnce
  <2> SUFFICES ASSUME EInv, reset_n, mem_xfer
               PROVE  effects + (IF EffectNow THEN 1 ELSE 0) = IF Due THEN 1 ELSE 0
    BY DEF EffectOnce
  <2>1. mem_valid /\ mem_ready /\ IInv
    BY DEF mem_xfer, EInv
  <2>2. effects = IF uf_state # "IDLE" THEN 1 ELSE 0
    BY <2>1 DEF EInv, EffectsCounted
  <2>3. uf_state # "IDLE" => Sel("uflash")
    BY DEF EInv, IInv, Settled
  <2>4. {"uart", "sd_spi"} \subseteq Slaves
    BY DEF Slaves
  <2>5. \A s, t \in Slaves : Sel(s) /\ Sel(t) => s = t
    BY <2>1, SelOne DEF IInv
  <2>6. Sel("uflash") => "uflash" \in Slaves
    BY DEF Sel
  <2>7. Sel("ws2812b") => "ws2812b" \in Slaves
    BY DEF Sel
  <2>8. CASE Sel("uflash")
    <3>1. uf_state = "DONE"
      BY <2>1, <2>6, <2>8, OnlyOwnReady DEF Ready
    <3>2. ~Sel("uart") /\ ~Sel("sd_spi") /\ ~Sel("ws2812b")
      BY <2>4, <2>5, <2>6, <2>7, <2>8
    <3>3. ~EffectNow
      BY <3>1, <3>2 DEF EffectNow, CharLoaded, reg_dat_we, reg_dat_re, dat_sel,
                        SdStart, ena
    <3>4. Due
      BY <2>8 DEF Due
    <3> QED  BY <2>2, <3>1, <3>3, <3>4
  <2>9. CASE ~Sel("uflash")
    <3>1. reg_dat_we => CharLoaded
      <4> SUFFICES ASSUME reg_dat_we PROVE CharLoaded
        OBVIOUS
      <4>1. Sel("uart") /\ dat_sel
        BY DEF reg_dat_we, dat_sel
      <4>2. "uart" \in Ready
        BY <2>1, <2>4, <4>1, OnlyOwnReady
      <4>3. ~div_sel
        BY <4>1, SMT DEF dat_sel, div_sel, UART_DAT, UART_DIV, REGS
      <4>4. ~reg_dat_wait
        BY <4>2, <4>3 DEF Ready
      <4> QED  BY <4>4 DEF reg_dat_wait, CharLoaded
    <3>2. Sel("ws2812b") /\ req.wstrb = Lane => ena
      BY <2>1, <2>7, OnlyOwnReady DEF Ready, ena
    <3>3. EffectNow <=> Due
      BY <2>9, <3>1, <3>2 DEF EffectNow, Due, CharLoaded, ena
    <3> QED  BY <2>2, <2>3, <2>9, <3>3
  <2> QED  BY <2>8, <2>9
<1> QED  BY <1>1, EInvAlways, PTL

=============================================================================
