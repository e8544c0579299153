------------------------------- MODULE SocBus -------------------------------
(***************************************************************************)
(* The bus of top.v: the core as the only master, the slaves of the memory *)
(* map, the wires that join them, and the reset line.                      *)
(*                                                                         *)
(* The design is synchronous: a step is a rising edge of the one clock, on *)
(* which every always block acts at once, from the values before the edge. *)
(* So each block is an action (..Edge) and a step is their conjunction.    *)
(* Wires are operators over the registers.  Registers cleared by negedge   *)
(* reset_n hold their reset value after an edge if the line is low on      *)
(* either side of it; registers reset synchronously, if it was low before. *)
(*                                                                         *)
(* Of the serial devices only what the bus sees is here: whether they are  *)
(* busy, and what makes them so.                                           *)
(***************************************************************************)
EXTENDS SocMap

CONSTANTS
  Addrs,        \* the word addresses software uses
  Lane, BYTE,   \* byte lanes of a word (0..3); values of a byte (256)
  LED_MOD,      \* 2^6: the LED register keeps the low 6 bits of lane 0
  RESET_MAX,    \* 63: reset_n is the AND of the six bits of reset_count
  FRAME_BITS, DUMMY_BITS,  \* 10 and 15: lengths of the UART's sends
  WS_CLKS,      \* clocks the LED string controller is busy with one colour
  SD_CLKS,      \* clocks the SPI helper is busy with one byte
  CLKS, CYCLE_MOD,         \* as in UFlash
  Other         \* data of a slave whose data another module is about

VARIABLES
  reset_count,                          \* reset.v
  mem_valid, req, mem_rdata_q,          \* the core's side of the bus
  sram_ready, sram_data_o, mem,         \* sram.v, sram8bit.v
  leds,                                 \* leds.v
  delay_state,                          \* countdown_timer.v
  send_bitcnt, send_dummy, recv_buf_valid,   \* simpleuart.v
  sd_left,                              \* sd_spi_helper.v
  ws_left,                              \* ws2812b.v
  uf_state, lines, cycle_count, since,  \* uflash_controller.v
  default_ready,                        \* top.v
  effects       \* history: side effects the current request has had

ASSUME BusAssumption ==
  /\ Addrs \subseteq Address
  /\ 0 \in Lane /\ Lane # {0}
  /\ BYTE \in Nat \ {0}
  /\ LED_MOD \in 1 .. BYTE
  /\ RESET_MAX \in Nat \ {0}
  /\ FRAME_BITS \in Nat \ {0} /\ DUMMY_BITS \in Nat \ {0}
  /\ WS_CLKS \in Nat /\ SD_CLKS \in Nat
  /\ Other \notin [Lane -> 0 .. BYTE - 1]

Word == [Lane -> 0 .. BYTE - 1]
ZeroWord == [l \in Lane |-> 0]

SramAddr == Addrs \cap Window.sram

Request == [addr: Addrs, wstrb: SUBSET Lane, wdata: Word]

core    == <<mem_valid, req, mem_rdata_q>>
sram    == <<sram_ready, sram_data_o, mem>>
uart    == <<send_bitcnt, send_dummy, recv_buf_valid>>
ufvars  == <<uf_state, lines, cycle_count, since>>
vars == <<reset_count, core, sram, leds, delay_state, uart, sd_left, ws_left,
          ufvars, default_ready, effects>>

-----------------------------------------------------------------------------
(* Wires.                                                                  *)

reset_n == reset_count = RESET_MAX

Sel(s) == mem_valid /\ s \in Slaves /\ req.addr \in Window[s]

(* Definitions named Mut.. are mutants: a definition with a bug a careless *)
(* edit of the code could make, used only to see a property refuse it.     *)
MutDefaultSelRegsOnly ==
  mem_valid /\ Hits(req.addr) = {} /\ req.addr >= REGS
default_sel == mem_valid /\ Hits(req.addr) = {}

(* The waits of the flash controller, as UFlash assumes them.             *)
ASSUME FlashAssumption ==
  /\ CYCLE_MOD \in Nat
  /\ CLKS \in [{"ERASE2", "ERASE3", "ERASE4", "ERASE5", "WRITE2", "WRITE3",
               "WRITE4", "WRITE6", "WRITE7"} -> 1 .. CYCLE_MOD - 1]

Uf == INSTANCE UFlash WITH sel <- Sel("uflash"), wstrb <- req.wstrb

div_sel == Sel("uart") /\ req.addr = UART_DIV
dat_sel == Sel("uart") /\ req.addr = UART_DAT
reg_div_we == div_sel /\ req.wstrb # {}
reg_dat_we == dat_sel /\ 0 \in req.wstrb
reg_dat_re == dat_sel /\ req.wstrb = {}
MutWaitNotDummy == reg_dat_we /\ send_bitcnt # 0
reg_dat_wait == reg_dat_we /\ (send_bitcnt # 0 \/ send_dummy)

can_accept == ws_left = 0

(* The slaves whose ready wire is high, whether they are selected or not.  *)
(* top.v takes the select of sd_spi in the place of its ready.             *)
Ready ==
  {s \in Slaves :
     \/ s = "sram"    /\ sram_ready
     \/ s = "leds"    /\ Sel("leds")
     \/ s = "uart"    /\ (div_sel \/ (dat_sel /\ ~reg_dat_wait))
     \/ s = "cdt"     /\ delay_state = 2
     \/ s = "uflash"  /\ uf_state = "DONE"
     \/ s = "ws2812b" /\ Sel("ws2812b") /\ can_accept
     \/ s = "sd_spi"  /\ Sel("sd_spi")}

mem_ready == mem_valid /\ (Ready # {} \/ default_ready)

leds_data_o == [l \in Lane |-> IF l = 0 THEN leds ELSE 0]

(* What the priority of the multiplexer selects.                           *)
mem_rdata ==
  IF Sel("sram") THEN sram_data_o
  ELSE IF Sel("leds") THEN leds_data_o
  ELSE Other

mem_xfer == mem_valid /\ mem_ready

-----------------------------------------------------------------------------
MutResetUnstopped(reset_in) ==
  reset_count' = IF reset_in THEN 0 ELSE reset_count + 1

(* reset.v: the count starts over while the button is pressed.             *)
ResetEdge(reset_in) ==
  reset_count' = IF reset_in THEN 0
                 ELSE IF reset_n THEN reset_count ELSE reset_count + 1

(* The memory interface of the core: it asks when it has nothing asked,    *)
(* keeps the request until it is answered, and then lets mem_valid fall    *)
(* for at least one clock.                                                 *)
CoreReset ==
  /\ ~reset_n
  /\ mem_valid' = FALSE
  /\ UNCHANGED req

CoreAsk ==
  /\ reset_n /\ ~mem_valid
  /\ mem_valid' = TRUE
  /\ req' \in Request

CoreIdle ==
  /\ reset_n /\ ~mem_valid
  /\ UNCHANGED <<mem_valid, req>>

MutCoreWithdraws ==
  /\ reset_n /\ mem_valid /\ ~mem_ready
  /\ mem_valid' \in BOOLEAN
  /\ UNCHANGED req

CoreWait ==
  /\ reset_n /\ mem_valid /\ ~mem_ready
  /\ UNCHANGED <<mem_valid, req>>

CoreTake ==
  /\ reset_n /\ mem_xfer
  /\ mem_valid' = FALSE
  /\ UNCHANGED req

CoreEdge ==
  /\ CoreReset \/ CoreAsk \/ CoreIdle \/ CoreWait \/ CoreTake
  /\ mem_rdata_q' = IF mem_xfer THEN mem_rdata ELSE mem_rdata_q

MutSramWritesLate ==
  /\ sram_ready' = Sel("sram")
  /\ sram_data_o' =
       IF ~(reset_n /\ reset_n') THEN ZeroWord
       ELSE [l \in Lane |-> IF Sel("sram") /\ l \notin req.wstrb
                            THEN mem[req.addr][l] ELSE sram_data_o[l]]
  /\ mem' = IF Sel("sram") /\ sram_ready
            THEN [mem EXCEPT ![req.addr] =
                    [l \in Lane |-> IF l \in req.wstrb THEN req.wdata[l]
                                    ELSE @[l]]]
            ELSE mem

(* Four byte-wide memories side by side.  ready follows the select by one  *)
(* clock, and neither it nor a write looks at the reset line.              *)
SramEdge ==
  /\ sram_ready' = Sel("sram")
  /\ sram_data_o' =
       IF ~(reset_n /\ reset_n') THEN ZeroWord
       ELSE [l \in Lane |-> IF Sel("sram") /\ l \notin req.wstrb
                            THEN mem[req.addr][l] ELSE sram_data_o[l]]
  /\ mem' = IF Sel("sram")
            THEN [mem EXCEPT ![req.addr] =
                    [l \in Lane |-> IF l \in req.wstrb THEN req.wdata[l]
                                    ELSE @[l]]]
            ELSE mem

MutLedsAnyLane ==
  leds' = IF ~(reset_n /\ reset_n') THEN 0
          ELSE IF Sel("leds") /\ req.wstrb # {} THEN req.wdata[0] % LED_MOD
          ELSE leds

LedsEdge ==
  leds' = IF ~(reset_n /\ reset_n') THEN 0
          ELSE IF Sel("leds") /\ 0 \in req.wstrb THEN req.wdata[0] % LED_MOD
          ELSE leds

(* The timer answers in its third clock, then waits for the select to go.  *)
CdtEdge ==
  delay_state' = IF reset_n /\ reset_n' /\ Sel("cdt")
                 THEN IF delay_state < 3 THEN delay_state + 1 ELSE 3
                 ELSE 0

MutDefaultSticky ==
  default_ready' = (reset_n /\ reset_n' /\ (default_ready \/ default_sel))
DefaultEdge == default_ready' = (reset_n /\ reset_n' /\ default_sel)

(* simpleuart.v, as far as reg_dat_wait and recv_buf_valid depend on it.   *)
SendDummy ==
  /\ send_dummy /\ send_bitcnt = 0
  /\ send_bitcnt' = DUMMY_BITS
  /\ send_dummy' = FALSE

CharLoaded == ~send_dummy /\ send_bitcnt = 0 /\ reg_dat_we

SendFrame ==
  /\ CharLoaded
  /\ send_bitcnt' = FRAME_BITS
  /\ UNCHANGED send_dummy

(* The divider of the sender runs out (send_divcnt > cfg_divider).         *)
SendBit ==
  /\ send_bitcnt # 0
  /\ send_bitcnt' = send_bitcnt - 1
  /\ send_dummy' = (send_dummy \/ reg_div_we)

SendNothing ==
  /\ send_bitcnt # 0 \/ (~send_dummy /\ ~reg_dat_we)
  /\ UNCHANGED send_bitcnt
  /\ send_dummy' = (send_dummy \/ reg_div_we)

(* A byte that arrives in the clock of a read stays in the buffer.         *)
Receive == recv_buf_valid' = TRUE
ReceiveNothing == recv_buf_valid' = (recv_buf_valid /\ ~reg_dat_re)

UartReset ==
  /\ send_bitcnt' = 0
  /\ send_dummy' = TRUE
  /\ recv_buf_valid' = FALSE

UartEdge ==
  \/ ~reset_n /\ UartReset
  \/ /\ reset_n
     /\ SendDummy \/ SendFrame \/ SendBit \/ SendNothing
     /\ Receive \/ ReceiveNothing

(* A byte is sent when sd_tx is written and none is on its way; a write    *)
(* while one is on its way is lost.                                        *)
SdStart == Sel("sd_spi") /\ req.addr = SD_TX /\ 0 \in req.wstrb /\ sd_left = 0

SdEdge ==
  sd_left' = IF ~(reset_n /\ reset_n') THEN 0
             ELSE IF sd_left > 0 THEN sd_left - 1
             ELSE IF SdStart THEN SD_CLKS ELSE 0

ena == Sel("ws2812b") /\ can_accept /\ req.wstrb = Lane

WsEdge ==
  ws_left' = IF ~(reset_n /\ reset_n') THEN 0
             ELSE IF ws_left > 0 THEN ws_left - 1
             ELSE IF ena THEN WS_CLKS ELSE 0

-----------------------------------------------------------------------------
(* The side effects an edge has that must not happen twice: a character is *)
(* loaded for sending or taken from the receiver, a colour or an SPI byte  *)
(* is sent, the flash begins a sequence.                                   *)
EffectNow ==
  reset_n /\ (\/ CharLoaded
              \/ reg_dat_re
              \/ SdStart
              \/ ena
              \/ Sel("uflash") /\ uf_state = "IDLE")

CountEffects ==
  effects' = IF ~mem_valid THEN 0
             ELSE IF EffectNow THEN effects + 1 ELSE effects

Init ==
  /\ reset_count = 0
  /\ mem_valid \in BOOLEAN
  /\ req \in Request
  /\ mem_rdata_q = ZeroWord
  /\ sram_ready \in BOOLEAN
  /\ sram_data_o = ZeroWord
  /\ mem \in [SramAddr -> Word]
  /\ leds = 0
  /\ delay_state = 0
  /\ send_bitcnt = 0 /\ send_dummy = TRUE /\ recv_buf_valid = FALSE
  /\ sd_left = 0
  /\ ws_left = 0
  /\ uf_state = "IDLE" /\ lines = {} /\ cycle_count = 0
  /\ since = [l \in Uf!Lines |-> Uf!HISTORY_CAP]
  /\ default_ready = FALSE
  /\ effects = 0

Next ==
  /\ \E reset_in \in BOOLEAN : ResetEdge(reset_in)
  /\ SramEdge
  /\ LedsEdge
  /\ CdtEdge
  /\ SdEdge
  /\ WsEdge
  /\ Uf!Edge
  /\ DefaultEdge
  /\ CountEffects
  /\ UartEdge
  /\ CoreEdge

(* The clock goes on, whether the line is low or stays released; that a    *)
(* reset comes is never assumed.  While the UART has bits to send its      *)
(* divider runs out again and again.                                       *)
Clocked == Next /\ (reset_n => reset_n')

Spec == Init /\ [][Next]_vars
        /\ WF_vars(Clocked) /\ WF_vars(Clocked /\ reset_n /\ SendBit)

-----------------------------------------------------------------------------
(* Every register of the SoC stays within its width, and the counts stop   *)
(* where the code stops them.                                              *)
TypeOK ==
  /\ reset_count \in 0 .. RESET_MAX
  /\ mem_valid \in BOOLEAN
  /\ req \in Request
  /\ mem_rdata_q \in Word \cup {Other}
  /\ sram_ready \in BOOLEAN
  /\ sram_data_o \in Word
  /\ mem \in [SramAddr -> Word]
  /\ leds \in 0 .. LED_MOD - 1
  /\ delay_state \in 0 .. 3
  /\ send_bitcnt \in 0 .. FRAME_BITS + DUMMY_BITS
  /\ send_dummy \in BOOLEAN
  /\ recv_buf_valid \in BOOLEAN
  /\ sd_left \in 0 .. SD_CLKS
  /\ ws_left \in 0 .. WS_CLKS
  /\ Uf!TypeOK
  /\ default_ready \in BOOLEAN
  /\ effects \in Nat

(* An address selects one slave, and none answers for another: in every    *)
(* clock in which the core sees mem_ready, the one ready wire that is high *)
(* is the one of the slave it addressed, answering this request and not    *)
(* the last.  The ready of the SRAM and of the default device stays high a *)
(* clock longer than the request; only because mem_valid falls in that     *)
(* clock is it not taken for an answer to the next.                        *)
AnswerIsOwn ==
  reset_n /\ mem_valid =>
    /\ \A s, t \in Hits(req.addr) : s = t
    /\ \A s \in Ready : Sel(s)
    /\ default_ready => default_sel

(* Where each slave stands while a request is up: what makes AnswerIsOwn   *)
(* and SramAnswer inductive.  A slave that has left its first state does   *)
(* so for the request that is up, and the registered ready of the SRAM     *)
(* vouches for the data beside it.                                         *)
SramVouches ==
  /\ Sel("sram")
  /\ \A l \in Lane :
       IF l \in req.wstrb THEN mem[req.addr][l] = req.wdata[l]
       ELSE sram_data_o[l] = mem[req.addr][l]

Settled ==
  reset_n =>
    /\ mem_valid /\ sram_ready => SramVouches
    /\ mem_valid /\ default_ready => default_sel
    /\ delay_state \in {1, 2} => Sel("cdt")
    /\ delay_state = 3 => ~mem_valid
    /\ uf_state # "IDLE" => Sel("uflash")

(* When the core takes an answer, what it asked for has happened exactly   *)
(* once, however long it waited.  (A byte written to a busy SPI helper is  *)
(* dropped, so there it is at most once.)                                  *)
Due ==
  \/ reg_dat_we \/ reg_dat_re
  \/ Sel("ws2812b") /\ req.wstrb = Lane
  \/ Sel("uflash")
  \/ SdStart

EffectOnce ==
  reset_n /\ mem_xfer =>
    effects + (IF EffectNow THEN 1 ELSE 0) = IF Due THEN 1 ELSE 0

(* What the core takes from the SRAM is what the word holds, and what it   *)
(* wrote is there when it goes on.                                         *)
SramAnswer ==
  reset_n /\ mem_xfer /\ Sel("sram") =>
    \A l \in Lane :
      IF l \in req.wstrb THEN mem[req.addr][l] = req.wdata[l]
      ELSE sram_data_o[l] = mem[req.addr][l]

(* No request hangs the bus.                                               *)
EveryRequestAnswered == mem_valid ~> ~mem_valid

-----------------------------------------------------------------------------
(* The bus implements AtomicBus over the words of SRAM and the LEDs.       *)
Cells == SramAddr \cup (Addrs \cap {LED})

Target(r) == r.addr
IsRead(r) == r.wstrb = {}

Written(r, w) ==
  IF r.addr = LED
  THEN [l \in Lane |-> IF l = 0 /\ 0 \in r.wstrb THEN r.wdata[0] % LED_MOD
                       ELSE w[l]]
  ELSE [l \in Lane |-> IF l \in r.wstrb THEN r.wdata[l] ELSE w[l]]

Abstract == INSTANCE AtomicBus WITH
  Cell     <- Cells,
  Volatile <- {LED},
  Zero     <- ZeroWord,
  up       <- reset_n,
  phase    <- IF ~mem_valid THEN "idle"
              ELSE IF sram_ready THEN "done" ELSE "asked",
  store    <- [c \in Cells |-> IF c = LED THEN leds_data_o ELSE mem[c]],
  answer   <- mem_rdata_q

AtomicBusSpec == Abstract!Spec

=============================================================================
