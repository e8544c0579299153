------------------------------- MODULE SocMap -------------------------------
(***************************************************************************)
(* The memory map that top.v decodes.  The core drives word aligned        *)
(* addresses only (mem_la_addr ends in 2'b00), so an address here is the   *)
(* number of a 32-bit word: byte address 4*w is word w.                    *)
(***************************************************************************)
EXTENDS Integers

CONSTANTS
  BOARD,       \* "9K" or "20K": which of the two `defines of global_defs.v
  SRAM_WORDS   \* MEMBYTES / 4 = 2^SRAM_ADDR_WIDTH

ASSUME BoardAssumption == BOARD \in {"9K", "20K"}

(* The user flash of the 9K: bytes 0x20000 to 0x32fff.                     *)
FLASH_FIRST == 32768
FLASH_LAST  == 52223

(* SRAM must end where the user flash begins.                              *)
ASSUME SramAssumption == SRAM_WORDS \in Nat /\ 0 < SRAM_WORDS
                         /\ SRAM_WORDS <= FLASH_FIRST

(* Byte address 0x80000000, where the device registers are.                *)
REGS == 536870912

Address == {a \in Nat : a < 2 * REGS}

LED      == REGS
UART_DIV == REGS + 2
UART_DAT == REGS + 3
CDT      == REGS + 4
WS2812B  == REGS + 8
SD_TX    == REGS + 12
SD_RX    == REGS + 13
SD_CMD   == REGS + 14

(***************************************************************************)
(* The addresses each select wire of top.v answers to.  A comparison under *)
(* a mask (0xfffffff8, 0xfffffff0) is the aligned block it describes.      *)
(***************************************************************************)
Window ==
  [ sram    |-> 0 .. SRAM_WORDS - 1,
    uflash  |-> FLASH_FIRST .. FLASH_LAST,
    leds    |-> {LED},
    uart    |-> UART_DIV .. UART_DAT,
    cdt     |-> {CDT},
    ws2812b |-> {WS2812B},
    sd_spi  |-> SD_TX .. SD_TX + 3 ]

(* The slaves that are present on the board the `define selects.           *)
Slaves ==
  {"sram", "leds", "uart", "cdt", "sd_spi"}
    \cup (IF BOARD = "9K" THEN {"uflash"} ELSE {"ws2812b"})

(* The slaves an address selects; none means the default device answers.   *)
Hits(addr) == {s \in Slaves : addr \in Window[s]}

=============================================================================
