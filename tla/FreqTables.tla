----------------------------- MODULE FreqTables -----------------------------
(***************************************************************************)
(* The tables of freq_search.c.  A row is <<output in Hz, idiv_sel,        *)
(* fbdiv_sel, odiv_sel>>.  The table for both boards has frequencies       *)
(* rounded to 100 Hz.  The tables for one board have the same dividers     *)
(* with frequencies to the Hz, and two rows more: the 20K at the end, the  *)
(* 9K, whose output divider also follows another rule, at the beginning.   *)
(***************************************************************************)
EXTENDS Integers, Sequences, FiniteSetsExt

Boards == {"BOARD_9K", "BOARD_20K", "BOARD_BOTH"}

REF_HZ == 27000000   \* the crystal

(* What the PLL makes of the dividers, to the nearest Hz.                  *)
PllOut(idiv, fbdiv) == (REF_HZ * (fbdiv + 1) + (idiv + 1) \div 2) \div (idiv + 1)

(* The output dividers, and the smallest that keeps the oscillator at or   *)
(* above a frequency.  Counted in units of 100 Hz, to stay in 31 bits.     *)
ODIVS == {2, 4, 8, 16, 32, 48, 64, 80, 96, 112, 128}
Oscillator(hz, odiv) == (hz \div 100) * odiv
LeastOdiv(hz, low) == Min({o \in ODIVS : Oscillator(hz, o) >= low})

freqs_both == <<
  <<4500000, 5, 0, 112>>, <<5400000, 4, 0, 96>>, <<6000000, 8, 1, 96>>, <<6750000, 3, 0, 80>>, <<7714300, 6, 1, 80>>, <<9000000, 2, 0, 64>>,
  <<10125000, 7, 2, 64>>, <<10800000, 4, 1, 48>>, <<11571400, 6, 2, 48>>, <<12000000, 8, 3, 48>>, <<13500000, 1, 0, 48>>, <<15000000, 8, 4, 48>>,
  <<15428600, 6, 3, 48>>, <<16200000, 4, 2, 32>>, <<16875000, 7, 4, 32>>, <<18000000, 2, 1, 32>>, <<19285700, 6, 4, 32>>, <<20250000, 3, 2, 32>>,
  <<21000000, 8, 6, 32>>, <<21600000, 4, 3, 32>>, <<22500000, 5, 4, 32>>, <<23142900, 6, 5, 32>>, <<23625000, 7, 6, 32>>, <<24000000, 8, 7, 32>>,
  <<27000000, 0, 0, 32>>, <<30000000, 8, 9, 32>>, <<30375000, 7, 8, 32>>, <<30857100, 6, 7, 32>>, <<31500000, 5, 6, 16>>, <<32400000, 4, 5, 16>>,
  <<33000000, 8, 10, 16>>, <<33750000, 3, 4, 16>>, <<34714300, 6, 8, 16>>, <<36000000, 2, 3, 16>>, <<37125000, 7, 10, 16>>, <<37800000, 4, 6, 16>>,
  <<38571400, 6, 9, 16>>, <<39000000, 8, 12, 16>>, <<40500000, 1, 2, 16>>, <<42000000, 8, 13, 16>>, <<42428600, 6, 10, 16>>, <<43200000, 4, 7, 16>>,
  <<43875000, 7, 12, 16>>, <<45000000, 2, 4, 16>>, <<46285700, 6, 11, 16>>, <<47250000, 3, 6, 16>>, <<48000000, 8, 15, 16>>, <<48600000, 4, 8, 16>>,
  <<49500000, 5, 10, 16>>, <<50142900, 6, 12, 16>>, <<50625000, 7, 14, 16>>, <<51000000, 8, 16, 16>>, <<54000000, 0, 1, 16>>, <<57000000, 8, 18, 16>>,
  <<57375000, 7, 16, 16>>, <<57857100, 6, 14, 16>>, <<58500000, 5, 12, 16>>, <<59400000, 4, 10, 16>>, <<60000000, 8, 19, 16>>, <<60750000, 3, 8, 16>>,
  <<61714300, 6, 15, 16>>, <<63000000, 2, 6, 8>>, <<64125000, 7, 18, 8>>, <<64800000, 4, 11, 8>>, <<65571400, 6, 16, 8>>, <<66000000, 8, 21, 8>>,
  <<67500000, 1, 4, 8>>, <<69000000, 8, 22, 8>>, <<69428600, 6, 17, 8>>, <<70200000, 4, 12, 8>>, <<70875000, 7, 20, 8>>, <<72000000, 2, 7, 8>>,
  <<73285700, 6, 18, 8>>, <<74250000, 3, 10, 8>>, <<75000000, 8, 24, 8>>, <<75600000, 4, 13, 8>>, <<76500000, 5, 16, 8>>, <<77142900, 6, 19, 8>>,
  <<77625000, 7, 22, 8>>, <<78000000, 8, 25, 8>>, <<81000000, 0, 2, 8>>, <<84000000, 8, 27, 8>>, <<84375000, 7, 24, 8>>, <<84857100, 6, 21, 8>>,
  <<85500000, 5, 18, 8>>, <<86400000, 4, 15, 8>>, <<87000000, 8, 28, 8>>, <<87750000, 3, 12, 8>>, <<88714300, 6, 22, 8>>, <<90000000, 2, 9, 8>>,
  <<91125000, 7, 26, 8>>, <<91800000, 4, 16, 8>>, <<92571400, 6, 23, 8>>, <<93000000, 8, 30, 8>>, <<94500000, 1, 6, 8>>, <<96000000, 8, 31, 8>>,
  <<96428600, 6, 24, 8>>, <<97200000, 4, 17, 8>>, <<97875000, 7, 28, 8>>, <<99000000, 2, 10, 8>>, <<100285700, 6, 25, 8>>, <<101250000, 3, 14, 8>>,
  <<102000000, 8, 33, 8>>, <<102600000, 4, 18, 8>>, <<103500000, 5, 22, 8>>, <<104142900, 6, 26, 8>>, <<104625000, 7, 30, 8>>, <<105000000, 8, 34, 8>>,
  <<108000000, 0, 3, 8>>, <<111000000, 8, 36, 8>>, <<111375000, 7, 32, 8>>, <<111857100, 6, 28, 8>>, <<112500000, 5, 24, 8>>, <<113400000, 4, 20, 8>>,
  <<114000000, 8, 37, 8>>, <<114750000, 3, 16, 8>>, <<115714300, 6, 29, 8>>, <<117000000, 2, 12, 8>>, <<118125000, 7, 34, 8>>, <<118800000, 4, 21, 8>>,
  <<119571400, 6, 30, 8>>, <<120000000, 8, 39, 8>>, <<121500000, 1, 8, 8>>, <<123000000, 8, 40, 8>>, <<123428600, 6, 31, 8>>, <<124200000, 4, 22, 8>>,
  <<124875000, 7, 36, 8>>, <<126000000, 2, 13, 4>>, <<127285700, 6, 32, 4>>, <<128250000, 3, 18, 4>>, <<129000000, 8, 42, 4>>, <<129600000, 4, 23, 4>>,
  <<130500000, 5, 28, 4>>, <<131142900, 6, 33, 4>>, <<131625000, 7, 38, 4>>, <<132000000, 8, 43, 4>>, <<135000000, 0, 4, 4>>, <<138000000, 8, 45, 4>>,
  <<138375000, 7, 40, 4>>, <<138857100, 6, 35, 4>>, <<139500000, 5, 30, 4>>, <<140400000, 4, 25, 4>>, <<141000000, 8, 46, 4>>, <<141750000, 3, 20, 4>>,
  <<142714300, 6, 36, 4>>, <<144000000, 2, 15, 4>>, <<145125000, 7, 42, 4>>, <<145800000, 4, 26, 4>>, <<146571400, 6, 37, 4>>, <<147000000, 8, 48, 4>>,
  <<148500000, 1, 10, 4>>, <<150000000, 8, 49, 4>>, <<150428600, 6, 38, 4>>, <<151200000, 4, 27, 4>>, <<151875000, 7, 44, 4>>, <<153000000, 2, 16, 4>>,
  <<154285700, 6, 39, 4>>, <<155250000, 3, 22, 4>>, <<156000000, 8, 51, 4>>, <<156600000, 4, 28, 4>>, <<157500000, 5, 34, 4>>, <<158142900, 6, 40, 4>>,
  <<158625000, 7, 46, 4>>, <<159000000, 8, 52, 4>>, <<162000000, 0, 5, 4>>, <<165000000, 8, 54, 4>>, <<165375000, 7, 48, 4>>, <<165857100, 6, 42, 4>>,
  <<166500000, 5, 36, 4>>, <<167400000, 4, 30, 4>>, <<168000000, 8, 55, 4>>, <<168750000, 3, 24, 4>>, <<169714300, 6, 43, 4>>, <<171000000, 2, 18, 4>>,
  <<172125000, 7, 50, 4>>, <<172800000, 4, 31, 4>>, <<173571400, 6, 44, 4>>, <<174000000, 8, 57, 4>>, <<175500000, 1, 12, 4>>, <<177000000, 8, 58, 4>>,
  <<177428600, 6, 45, 4>>, <<178200000, 4, 32, 4>>, <<178875000, 7, 52, 4>>, <<180000000, 2, 19, 4>>, <<181285700, 6, 46, 4>>, <<182250000, 3, 26, 4>>,
  <<183000000, 8, 60, 4>>, <<183600000, 4, 33, 4>>, <<184500000, 5, 40, 4>>, <<185142900, 6, 47, 4>>, <<185625000, 7, 54, 4>>, <<186000000, 8, 61, 4>>,
  <<189000000, 0, 6, 4>>, <<192375000, 7, 56, 4>>, <<192857100, 6, 49, 4>>, <<193500000, 5, 42, 4>>, <<194400000, 4, 35, 4>>, <<195750000, 3, 28, 4>>,
  <<196714300, 6, 50, 4>>, <<198000000, 2, 21, 4>>, <<199125000, 7, 58, 4>>, <<199800000, 4, 36, 4>>, <<200571400, 6, 51, 4>>, <<202500000, 1, 14, 4>>,
  <<204428600, 6, 52, 4>>, <<205200000, 4, 37, 4>>, <<205875000, 7, 60, 4>>, <<207000000, 2, 22, 4>>, <<208285700, 6, 53, 4>>, <<209250000, 3, 30, 4>>,
  <<210600000, 4, 38, 4>>, <<211500000, 5, 46, 4>>, <<212142900, 6, 54, 4>>, <<212625000, 7, 62, 4>>, <<216000000, 0, 7, 4>>, <<219857100, 6, 56, 4>>,
  <<220500000, 5, 48, 4>>, <<221400000, 4, 40, 4>>, <<222750000, 3, 32, 4>>, <<223714300, 6, 57, 4>>, <<225000000, 2, 24, 4>>, <<226800000, 4, 41, 4>>,
  <<227571400, 6, 58, 4>>, <<229500000, 1, 16, 4>>, <<231428600, 6, 59, 4>>, <<232200000, 4, 42, 4>>, <<234000000, 2, 25, 4>>, <<235285700, 6, 60, 4>>,
  <<236250000, 3, 34, 4>>, <<237600000, 4, 43, 4>>, <<238500000, 5, 52, 4>>, <<239142900, 6, 61, 4>>, <<243000000, 0, 8, 4>>, <<247500000, 5, 54, 4>>,
  <<248400000, 4, 45, 4>>, <<249750000, 3, 36, 4>>, <<252000000, 2, 27, 2>>, <<253800000, 4, 46, 2>>, <<256500000, 1, 18, 2>>, <<259200000, 4, 47, 2>>,
  <<261000000, 2, 28, 2>>, <<263250000, 3, 38, 2>>, <<264600000, 4, 48, 2>>, <<265500000, 5, 58, 2>>, <<270000000, 0, 9, 2>>, <<274500000, 5, 60, 2>>,
  <<275400000, 4, 50, 2>>, <<276750000, 3, 40, 2>>, <<279000000, 2, 30, 2>>, <<280800000, 4, 51, 2>>, <<283500000, 1, 20, 2>>, <<286200000, 4, 52, 2>>,
  <<288000000, 2, 31, 2>>, <<290250000, 3, 42, 2>>, <<291600000, 4, 53, 2>>, <<297000000, 0, 10, 2>>, <<302400000, 4, 55, 2>>, <<303750000, 3, 44, 2>>,
  <<306000000, 2, 33, 2>>, <<307800000, 4, 56, 2>>, <<310500000, 1, 22, 2>>, <<313200000, 4, 57, 2>>, <<315000000, 2, 34, 2>>, <<317250000, 3, 46, 2>>,
  <<318600000, 4, 58, 2>>, <<324000000, 0, 11, 2>>, <<329400000, 4, 60, 2>>, <<330750000, 3, 48, 2>>, <<333000000, 2, 36, 2>>, <<334800000, 4, 61, 2>>,
  <<337500000, 1, 24, 2>>, <<340200000, 4, 62, 2>>, <<342000000, 2, 37, 2>>, <<344250000, 3, 50, 2>>, <<351000000, 0, 12, 2>>, <<357750000, 3, 52, 2>>,
  <<360000000, 2, 39, 2>>, <<364500000, 1, 26, 2>>, <<369000000, 2, 40, 2>>, <<371250000, 3, 54, 2>>, <<378000000, 0, 13, 2>>, <<384750000, 3, 56, 2>>,
  <<387000000, 2, 42, 2>>, <<391500000, 1, 28, 2>>, <<396000000, 2, 43, 2>>, <<398250000, 3, 58, 2>>, <<405000000, 0, 14, 2>>, <<411750000, 3, 60, 2>>,
  <<414000000, 2, 45, 2>>, <<418500000, 1, 30, 2>>, <<423000000, 2, 46, 2>>, <<425250000, 3, 62, 2>>, <<432000000, 0, 15, 2>>, <<441000000, 2, 48, 2>>,
  <<445500000, 1, 32, 2>>, <<450000000, 2, 49, 2>>, <<459000000, 0, 16, 2>>, <<468000000, 2, 51, 2>>, <<472500000, 1, 34, 2>>, <<477000000, 2, 52, 2>>,
  <<486000000, 0, 17, 2>>, <<495000000, 2, 54, 2>>, <<499500000, 1, 36, 2>>, <<504000000, 2, 55, 2>>, <<513000000, 0, 18, 2>>, <<522000000, 2, 57, 2>>,
  <<526500000, 1, 38, 2>>, <<531000000, 2, 58, 2>>, <<540000000, 0, 19, 2>>, <<549000000, 2, 60, 2>>, <<553500000, 1, 40, 2>>, <<558000000, 2, 61, 2>>,
  <<567000000, 0, 20, 2>>, <<580500000, 1, 42, 2>>, <<594000000, 0, 21, 2>>>>

ToTheHz(row) == [row EXCEPT ![1] = PllOut(row[2], row[3])]

freqs_20k ==
  [k \in DOMAIN freqs_both |-> ToTheHz(freqs_both[k])]
    \o <<<<607500000, 1, 44, 2>>, <<621000000, 0, 22, 2>>>>

For9k(row) == [row EXCEPT ![4] = LeastOdiv(row[1], 4000000)]

freqs_9k ==
  <<<<3375000, 7, 0, 128>>, <<3857143, 6, 0, 112>>>>
    \o [k \in DOMAIN freqs_both |-> For9k(ToTheHz(freqs_both[k]))]

freqs == [b \in Boards |-> CASE b = "BOARD_9K" -> freqs_9k
                             [] b = "BOARD_20K" -> freqs_20k
                             [] b = "BOARD_BOTH" -> freqs_both]

-----------------------------------------------------------------------------
(* What the Verilog and main.c compute from CLK_FREQ, in integers.         *)

Round(n, d) == (n + d \div 2) \div d

(* ws2812b.v: a bit, high for a 0, high for a 1, and the pause.            *)
CLKS_PER_BIT(hz) == Round(5 * hz, 4000000)
T0H_CLKS(hz) == Round(2 * hz, 5000000)
T1H_CLKS(hz) == Round(4 * hz, 5000000)
RES_CLKS(hz) == Round(151 * (hz \div 100), 5000)

(* The counter of 15 bits is loaded with none of them negative or too big. *)
WaveformFits(hz) ==
  /\ RES_CLKS(hz) < 2^15
  /\ \A high \in {T0H_CLKS(hz), T1H_CLKS(hz)} : high >= 1 /\ CLKS_PER_BIT(hz) - high >= 2

(* uflash_controller.v: the longest wait, against a counter of 24 bits.    *)
E3_CLKS(hz) == (3 * hz) \div 25 + 1

(* main.c sets the divider; simpleuart.v takes two clocks more for a bit.  *)
BAUD == 115200
UartBit(hz) == Round(hz, BAUD) + 2

(* The middle of the last of ten bits is still found in that bit.          *)
UartInStep(hz) ==
  LET late == BAUD * UartBit(hz) - hz IN 19 * (IF late < 0 THEN -late ELSE late) < hz

=============================================================================
