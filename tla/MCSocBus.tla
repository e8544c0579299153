------------------------------ MODULE MCSocBus ------------------------------
(* SocBus on small instances.  Every instance reaches both ends of a       *)
(* window and an address that no slave answers for.                        *)
EXTENDS SocBus

CONSTANT Peripheral  \* Other, a model value

(* The last word of a 32 KB SRAM, the word after it, and the LEDs.         *)
MemoryAddrs  == {8191, 8192, LED}
SerialAddrs  == {CDT, UART_DIV, UART_DAT, WS2812B, SD_TX, SD_CMD, 8192}
FlashAddrs   == {8191, 32768, 52223, 52224, WS2812B, UART_DAT}

MCClks ==
  [ERASE2 |-> 1, ERASE3 |-> 2, ERASE4 |-> 1, ERASE5 |-> 1,
   WRITE2 |-> 1, WRITE3 |-> 1, WRITE4 |-> 1, WRITE6 |-> 1, WRITE7 |-> 1]

=============================================================================
