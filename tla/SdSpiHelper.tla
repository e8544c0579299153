---------------------------- MODULE SdSpiHelper ----------------------------
(***************************************************************************)
(* The SPI helper of the SD card (sd_spi_helper.v): three registers, and a *)
(* shift register that sends one byte and takes one in, or leaves the pins *)
(* to software.  A byte is a name; what is on a wire is one bit of it, the *)
(* k-th of byte b being <<b, k>>, so that bits out of place never make a   *)
(* byte.  All bits of FF, and all of 00, look alike, as they do on a wire. *)
(* The clocks between two edges (time_cnt, CLK_FACTOR) are left out: an    *)
(* edge comes at any time.                                                 *)
(***************************************************************************)
EXTENDS Naturals, Sequences

CONSTANT BITS   \* 8

ASSUME BitsAssumption == BITS \in Nat \ {0}

VARIABLES
  sd_tx, sd_rx,              \* the shift registers, the most significant bit first
  sd_mosi, sd_clk, sd_cs,    \* the output pins; cs is active low
  bit_cnt                    \* edges left of a transaction
helper == <<sd_tx, sd_rx, sd_mosi, sd_clk, sd_cs, bit_cnt>>

Bit(b, k) == IF b \in {"FF", "00"} THEN <<b, 0>> ELSE <<b, k>>
Bits(b) == [k \in 1 .. BITS |-> Bit(b, k)]
Zero == Bit("00", 0)
One  == Bit("FF", 0)

(* The byte that a row of bits is, "??" when it is parts of several.       *)
ByteOf(bits) == IF bits = Bits(bits[1][1]) THEN bits[1][1] ELSE "??"

busy == bit_cnt > 0

HelperStart ==
  /\ sd_tx = Bits("00") /\ sd_rx = Bits("00")
  /\ sd_mosi = Zero /\ sd_clk = FALSE /\ sd_cs = TRUE
  /\ bit_cnt = 0

HelperReset ==
  /\ sd_tx' = Bits("00") /\ sd_rx' = Bits("00")
  /\ sd_mosi' = Zero /\ sd_clk' = FALSE /\ sd_cs' = TRUE
  /\ bit_cnt' = 0

(* A write while a transaction runs is dropped.                            *)
WriteTx(b) ==
  IF busy THEN UNCHANGED helper
  ELSE /\ sd_mosi' = Bits(b)[1]
       /\ sd_tx' = Append(Tail(Bits(b)), Zero)
       /\ bit_cnt' = 2 * BITS
       /\ UNCHANGED <<sd_rx, sd_clk, sd_cs>>

WriteCmd(cs, mosi, clk) ==
  IF busy THEN UNCHANGED helper
  ELSE /\ sd_cs' = cs /\ sd_mosi' = mosi /\ sd_clk' = clk
       /\ UNCHANGED <<sd_tx, sd_rx, bit_cnt>>

(* miso is sampled with the rising edge, mosi moves on with the falling.   *)
HelperEdge(miso) ==
  /\ busy
  /\ IF sd_clk
     THEN /\ sd_mosi' = Head(sd_tx)
          /\ sd_tx' = Append(Tail(sd_tx), Zero)
          /\ UNCHANGED sd_rx
     ELSE /\ sd_rx' = Append(Tail(sd_rx), miso)
          /\ UNCHANGED <<sd_mosi, sd_tx>>
  /\ sd_clk' = ~sd_clk
  /\ bit_cnt' = bit_cnt - 1
  /\ UNCHANGED sd_cs

=============================================================================
