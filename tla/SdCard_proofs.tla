--------------------------- MODULE SdCard_proofs ---------------------------
(***************************************************************************)
(* The driver and the card agree where a byte begins, whichever way a byte *)
(* is moved, and on what the bytes mean, for every number of bits in a     *)
(* byte, bytes in a block and every wait of the driver and of the card.    *)
(* The first part is about bits: IInv says where a byte stands.  The       *)
(* second is about bytes: BInv says what the card is going to put out and  *)
(* what the driver expects at each place of its functions.                 *)
(***************************************************************************)
EXTENDS SdCard, SequenceTheorems, TLAPS

(* The bytes there are: those the driver and the card have names for, and  *)
(* those in the blocks.                                                    *)
Named == {"FF", "00", "01", "02", "AA", "FE", "04", "05", "08", "20", "0D", "40", "87", "95",
          "busy", "CMD0", "CMD8", "CMD55", "CMD41", "CMD16", "CMD17", "CMD24"}
Names == Named \cup Contents
Wires == Names \X (0 .. BITS)

(* The first n bits of byte b.                                             *)
Begins(bits, b, n) == Len(bits) = n /\ \A k \in 1 .. n : bits[k] = Bit(b, k)

(* What the wire from the card brings with the k-th clock of a byte.       *)
Seen(k) == IF sd_cs THEN One ELSE Bit(out, k)

(* The card has seen n clocks of the byte that is being moved; with the    *)
(* falling edge of the last it has taken it in.                            *)
Hears(n) ==
  IF inserted /\ ~sd_cs /\ (n < BITS \/ sd_clk) THEN Begins(heard, Head(todo), n)
  ELSE heard = <<>>

(* Where sd_cmd returns to.                                                *)
Returns == {"init_reset", "init_check", "init_app", "init_opcond", "init_length",
            "read_r1", "write_r1", "none"}

(* The pins and shift registers of the helper at rest.                     *)
AtRest == moving = "no" => heard = <<>> /\ ~sd_clk /\ bit_cnt = 0 /\ reply = <<>>

(* n bits of the byte have been clocked by the helper, and f have gone.    *)
Shifting(n) ==
  LET b == Head(todo)
      f == IF sd_clk THEN n - 1 ELSE n
  IN  /\ sd_clk => n > 0
      /\ bit_cnt = 2 * (BITS - n) + (IF sd_clk THEN 1 ELSE 0)
      /\ f < BITS => sd_mosi = Bit(b, f + 1)
      /\ \A j \in 1 .. BITS : j + f < BITS => sd_tx[j] = Bit(b, j + f + 1)
      /\ Hears(n)
      /\ inserted =>
           IF n < BITS \/ sd_clk
           THEN \A k \in 1 .. n : sd_rx[BITS - n + k] = Seen(k)
           ELSE ByteOf(sd_rx) # "??"
HelperMoves ==
  moving = "helper" => todo # <<>> /\ reply = <<>> /\ \E n \in 0 .. BITS : Shifting(n)

(* So with the pins: reply has the bits that came with the clocks gone by. *)
PinsMove ==
  moving \in {"high", "low"} =>
    /\ todo # <<>> /\ bit_cnt = 0 /\ (sd_clk <=> moving = "high")
    /\ Len(reply) < BITS /\ (moving = "low" => reply # <<>>)
    /\ Hears(Len(reply) + (IF sd_clk THEN 1 ELSE 0))
    /\ inserted => \A k \in 1 .. Len(reply) : reply[k] = Seen(k)

HelperOK == /\ sd_tx \in Seq(Wires) /\ Len(sd_tx) = BITS
            /\ sd_rx \in Seq(Wires) /\ Len(sd_rx) = BITS
            /\ sd_mosi \in Wires /\ sd_clk \in BOOLEAN /\ sd_cs \in BOOLEAN
            /\ bit_cnt \in 0 .. 2 * BITS
CardOK == /\ inserted \in BOOLEAN
          /\ out \in Names /\ queue \in Seq(Names) /\ got \in Seq(Names)
          /\ store \in [Block -> Seq(Names)]
WireOK == /\ heard \in Seq(Wires) /\ reply \in Seq(Wires)
          /\ moving \in {"no", "helper", "high", "low"}
          /\ sd_cs => heard = <<>>
RepliesOK == /\ replies \in Seq(Names \cup {"??"})
             /\ inserted => \A k \in 1 .. Len(replies) : replies[k] # "??"
TodoOK == /\ todo \in Seq(Names)
          /\ cmd \in [frame : Seq(Names), trail : Seq(Names), next : Returns]
          /\ pc = "write_r1" => buf \in Seq(Names)
          /\ pc \in {"cmd_busy", "cmd_r1"} =>
               /\ cmd.next # "none"
               /\ cmd.next = "write_r1" => buf \in Seq(Names)
PlaceOK == /\ pc = "none" => todo = <<>> /\ moving = "no" /\ (result = "0" => sd_cs)
           /\ pc = "end" => sd_cs
IInv == HelperOK /\ CardOK /\ WireOK /\ RepliesOK /\ TodoOK /\ PlaceOK
        /\ AtRest /\ HelperMoves /\ PinsMove

-----------------------------------------------------------------------------
(* Bytes and their bits.                                                   *)

LEMMA NamedNames == Named \subseteq Names /\ Contents \subseteq Names /\ "??" \notin Names
  BY MediumAssumption DEF Named, Names

LEMMA BitWire ==
  ASSUME NEW b \in Names, NEW k \in 0 .. BITS
  PROVE  Bit(b, k) \in Wires
  BY BitsAssumption DEF Bit, Wires

LEMMA BitsWires ==
  ASSUME NEW b \in Names
  PROVE  /\ Bits(b) \in Seq(Wires) /\ Len(Bits(b)) = BITS
         /\ \A k \in 1 .. BITS : Bits(b)[k] = Bit(b, k)
<1>1. \A k \in 1 .. BITS : Bit(b, k) \in Wires
  BY BitWire
<1>2. Bits(b) \in [1 .. BITS -> Wires]
  BY <1>1 DEF Bits
<1> QED  BY <1>2, BitsAssumption DEF Bits

LEMMA ZeroOneWires == Zero \in Wires /\ One \in Wires /\ \A k : One = Bit("FF", k)
<1>1. "00" \in Names /\ "FF" \in Names /\ 0 \in 0 .. BITS
  BY NamedNames, BitsAssumption DEF Named
<1>2. Bit("00", 0) \in Wires /\ Bit("FF", 0) \in Wires
  BY <1>1, BitWire
<1> QED  BY <1>2 DEF Zero, One, Bit

LEMMA WholeByte ==
  ASSUME NEW b \in Names, NEW bits \in Seq(Wires), Begins(bits, b, BITS)
  PROVE  ByteOf(bits) = b
<1>1. bits = Bits(b)
  BY BitsAssumption DEF Begins, Bits
<1>2. bits[1] = Bit(b, 1)
  BY BitsAssumption DEF Begins
<1>3. bits[1][1] = b
  BY <1>2 DEF Bit
<1> QED  BY <1>1, <1>3 DEF ByteOf

LEMMA ByteNames ==
  ASSUME NEW bits \in Seq(Wires), Len(bits) = BITS
  PROVE  ByteOf(bits) \in Names \cup {"??"}
<1>1. bits[1] \in Wires
  BY BitsAssumption
<1>2. bits[1][1] \in Names
  BY <1>1 DEF Wires
<1> QED  BY <1>2 DEF ByteOf

LEMMA RepeatNames ==
  ASSUME NEW b \in Names, NEW n \in Nat
  PROVE  Repeat(n, b) \in Seq(Names) /\ Len(Repeat(n, b)) = n
<1>1. Repeat(n, b) \in [1 .. n -> Names]
  BY DEF Repeat
<1> QED  BY <1>1 DEF Repeat

-----------------------------------------------------------------------------
(* What the card puts out are bytes.                                       *)

LEMMA PutOutOK ==
  ASSUME NEW row \in Seq(Names), PutOut(row)
  PROVE  out' \in Names /\ queue' \in Seq(Names)
<1>1. {"FF", "00"} \subseteq Names
  BY NamedNames DEF Named
<1>2. CASE row = <<>>
  BY <1>1, <1>2 DEF PutOut
<1>3. CASE row # <<>>
  <2>1. Head(row) \in Names /\ Tail(row) \in Seq(Names)
    BY <1>3
  <2> QED  BY <1>1, <1>3, <2>1 DEF PutOut
<1> QED  BY <1>2, <1>3

LEMMA AnswerOK ==
  ASSUME NEW bytes \in Seq(Names), Answer(bytes)
  PROVE  out' \in Names /\ queue' \in Seq(Names)
<1>1. PICK n \in 0 .. NCR : PutOut(Repeat(n, "FF") \o bytes)
  BY DEF Answer
<1>2. n \in Nat /\ "FF" \in Names
  BY MediumAssumption, NamedNames DEF Named
<1>3. Repeat(n, "FF") \o bytes \in Seq(Names)
  BY <1>2, RepeatNames
<1> QED  BY <1>1, <1>3, PutOutOK

LEMMA CommandOK ==
  ASSUME CardOK, NEW frame \in Seq(Names), Len(frame) = 6, Command(frame)
  PROVE  out' \in Names /\ queue' \in Seq(Names)
<1> USE DEF Named
<1>1. R1 \in Names
  BY NamedNames DEF R1
<1>2. CASE Resets(frame) \/ Confirms(frame) \/ Initialises(frame)
  <2>1. <<"01">> \in Seq(Names) /\ <<R1>> \in Seq(Names)
    BY <1>1, NamedNames
  <2> QED  BY <1>2, <2>1, AnswerOK DEF Resets, Confirms, Initialises
<1>3. CASE Checks(frame)
  <2>1. frame[4] \in Names /\ frame[5] \in Names
    OBVIOUS
  <2>2. <<R1, "00", "00", frame[4], frame[5]>> \in Seq(Names)
    BY <1>1, <2>1, NamedNames
  <2> QED  BY <1>3, <2>2, AnswerOK DEF Checks
<1>4. CASE Reads(frame)
  <2>1. CASE Answer(<<"20">>)
    <3>1. <<"20">> \in Seq(Names)
      BY NamedNames
    <3> QED  BY <2>1, <3>1, AnswerOK
  <2>2. ASSUME NEW b \in Located(Number(frame[5])), NEW m \in 1 .. NAC,
               Answer(<<"00">> \o Repeat(m, "FF") \o <<"FE">> \o store[b] \o <<"AA", "AA">>)
        PROVE  out' \in Names /\ queue' \in Seq(Names)
    <3>1. store[b] \in Seq(Names)
      BY DEF Located, CardOK
    <3>2. Repeat(m, "FF") \in Seq(Names)
      BY NamedNames, MediumAssumption, RepeatNames
    <3>3. <<"00">> \in Seq(Names) /\ <<"FE">> \in Seq(Names) /\ <<"AA", "AA">> \in Seq(Names)
      BY NamedNames
    <3>4. <<"00">> \o Repeat(m, "FF") \o <<"FE">> \o store[b] \o <<"AA", "AA">> \in Seq(Names)
      BY <3>1, <3>2, <3>3
    <3> QED  BY <2>2, <3>4, AnswerOK
  <2>3. ASSUME NEW m \in 1 .. NAC, Answer(<<"00">> \o Repeat(m, "FF") \o <<"08">>)
        PROVE  out' \in Names /\ queue' \in Seq(Names)
    <3>1. Repeat(m, "FF") \in Seq(Names)
      BY NamedNames, MediumAssumption, RepeatNames
    <3>2. <<"00">> \in Seq(Names) /\ <<"08">> \in Seq(Names)
      BY NamedNames
    <3>3. <<"00">> \o Repeat(m, "FF") \o <<"08">> \in Seq(Names)
      BY <3>1, <3>2
    <3> QED  BY <2>3, <3>3, AnswerOK
  <2> QED  BY <1>4, <2>1, <2>2, <2>3 DEF Reads
<1>5. CASE Writes(frame)
  <2>1. <<"20">> \in Seq(Names) /\ <<"00">> \in Seq(Names)
    BY NamedNames
  <2> QED  BY <1>5, <2>1, AnswerOK DEF Writes
<1>6. CASE Refuses
  <2>1. CASE state = "power"
    <3>1. <<>> \in Seq(Names)
      OBVIOUS
    <3> QED  BY <1>6, <2>1, <3>1, PutOutOK DEF Refuses
  <2>2. CASE state # "power"
    <3>1. <<IF state = "idle" THEN "05" ELSE "04">> \in Seq(Names)
      BY NamedNames
    <3> QED  BY <1>6, <2>2, <3>1, AnswerOK DEF Refuses
  <2> QED  BY <2>1, <2>2
<1> QED  BY <1>2, <1>3, <1>4, <1>5, <1>6 DEF Command

LEMMA TakeByteOK ==
  ASSUME CardOK, NEW b \in Names, TakeByte(b), inserted' = inserted
  PROVE  CardOK'
<1>1. CASE Ignores(b)
  BY <1>1, PutOutOK DEF Ignores, CardOK
<1>2. CASE Collects(b)
  <2>1. Append(got, b) \in Seq(Names)
    BY DEF CardOK
  <2> QED  BY <1>2, <2>1, PutOutOK DEF Collects, CardOK
<1>3. CASE Obeys(b)
  <2>1. Append(got, b) \in Seq(Names) /\ Len(Append(got, b)) = 6
    <3>1. Len(got) = 5 /\ got \in Seq(Names)
      BY <1>3 DEF Obeys, CardOK
    <3>2. Len(Append(got, b)) = Len(got) + 1
      BY <3>1, AppendProperties
    <3> QED  BY <3>1, <3>2
  <2>2. out' \in Names /\ queue' \in Seq(Names)
    BY <1>3, <2>1, CommandOK DEF Obeys
  <2> QED  BY <1>3, <2>2 DEF Obeys, CardOK
<1>4. CASE Opens(b)
  BY <1>4, PutOutOK DEF Opens, CardOK
<1>5. CASE Stores(b)
  <2>1. <<"05", "busy">> \in Seq(Names) /\ <<"0D">> \in Seq(Names)
    BY NamedNames DEF Named
  <2>2. out' \in Names /\ queue' \in Seq(Names)
    BY <1>5, <2>1, PutOutOK DEF Stores
  <2>3. SubSeq(got, 1, BLOCK) \in Seq(Names)
    BY <1>5, MediumAssumption DEF Stores, CardOK
  <2>4. store' \in [Block -> Seq(Names)]
    BY <1>5, <2>3 DEF Stores, CardOK
  <2> QED  BY <1>5, <2>2, <2>4 DEF Stores, CardOK
<1> QED  BY <1>1, <1>2, <1>3, <1>4, <1>5 DEF TakeByte

-----------------------------------------------------------------------------
(* Between two bytes, the pins of a helper at rest may be set.             *)

Resting == HelperOK /\ CardOK /\ WireOK /\ AtRest /\ moving = "no"

LEMMA DeselectOK ==
  ASSUME CardOK, Deselect
  PROVE  CardOK' /\ heard' = <<>>
<1>1. {"FF", "busy"} \subseteq Names
  BY NamedNames DEF Named
<1>2. <<>> \in Seq(Names) /\ <<"busy">> \in Seq(Names)
  BY <1>1
<1> QED  BY <1>1, <1>2 DEF Deselect, CardOK

LEMMA PinsRest ==
  ASSUME Resting, NEW c \in BOOLEAN, NEW m \in Wires, WriteCmd(c, m, FALSE), CardSeesPins
  PROVE  /\ HelperOK' /\ CardOK' /\ heard' = <<>> /\ inserted' = inserted
         /\ sd_cs' = c /\ ~sd_clk' /\ bit_cnt' = 0
<1>1. ~busy /\ heard = <<>> /\ ~sd_clk /\ bit_cnt = 0
  BY DEF Resting, AtRest, busy
<1>2. /\ sd_cs' = c /\ sd_mosi' = m /\ sd_clk' = FALSE /\ UNCHANGED <<sd_tx, sd_rx, bit_cnt>>
  BY <1>1 DEF WriteCmd
<1>3. HelperOK'
  BY <1>2 DEF Resting, HelperOK
<1>4. CASE UNCHANGED medium
  BY <1>1, <1>2, <1>3, <1>4 DEF medium, Resting, CardOK
<1>5. CASE Deselect
  BY <1>1, <1>2, <1>3, <1>5, DeselectOK DEF Deselect, Resting
<1>6. CASE Select
  <2>1. out' \in Names /\ queue' \in Seq(Names)
    BY <1>6, PutOutOK DEF Select, Resting, CardOK
  <2> QED  BY <1>1, <1>2, <1>3, <1>6, <2>1 DEF Select, Resting, CardOK
<1>7. UNCHANGED medium \/ Deselect \/ Select
  <2>1. sd_clk' = sd_clk
    BY <1>1, <1>2 DEF Resting, HelperOK
  <2> QED  BY <2>1 DEF CardSeesPins
<1> QED  BY <1>4, <1>5, <1>6, <1>7

(* What a step of a function, or a caller, leaves of the pins.             *)
LEMMA RestedOK ==
  ASSUME IInv, moving = "no", moving' = moving, reply' = reply, NEW c \in BOOLEAN,
         NEW m \in Wires,
         (WriteCmd(c, m, FALSE) /\ CardSeesPins) \/ (KeepPins /\ sd_cs = c)
  PROVE  /\ HelperOK' /\ CardOK' /\ WireOK' /\ AtRest' /\ HelperMoves' /\ PinsMove'
         /\ inserted' = inserted /\ sd_cs' = c
<1>1. Resting
  BY DEF Resting, IInv
<1>2. heard = <<>> /\ ~sd_clk /\ bit_cnt = 0 /\ reply = <<>>
  BY <1>1 DEF Resting, AtRest
<1>3. /\ HelperOK' /\ CardOK' /\ heard' = <<>> /\ inserted' = inserted
      /\ sd_cs' = c /\ ~sd_clk' /\ bit_cnt' = 0
  <2>1. CASE KeepPins /\ sd_cs = c
    BY <1>1, <1>2, <2>1 DEF KeepPins, helper, medium, Resting, HelperOK, CardOK
  <2> QED  BY <1>1, <2>1, PinsRest
<1>4. WireOK'
  BY <1>1, <1>2, <1>3 DEF Resting, WireOK
<1>5. AtRest'
  BY <1>2, <1>3 DEF AtRest
<1>6. HelperMoves' /\ PinsMove'
  BY DEF HelperMoves, PinsMove
<1> QED  BY <1>3, <1>4, <1>5, <1>6

-----------------------------------------------------------------------------
(* A step of a function: it sets the pins or not, and goes on with other   *)
(* bytes to transfer, lets go of the card before it returns 0 and calls    *)
(* sd_cmd with bytes.                                                      *)
CmdTyped(c) == c \in [frame : Seq(Names), trail : Seq(Names), next : Returns]
Places(c) ==
  /\ pc' = "none" => todo' = <<>> /\ (result' = "0" => c)
  /\ pc' = "end" => c
Proceeds ==
  /\ moving = "no" /\ moving' = moving /\ reply' = reply /\ replies' = <<>>
  /\ TodoOK'
  /\ \E c \in BOOLEAN : (Pins(c) \/ (KeepPins /\ sd_cs = c)) /\ Places(c)

LEMMA ProceedsOK ==
  ASSUME IInv, Proceeds
  PROVE  IInv'
<1>1. PICK c \in BOOLEAN : (Pins(c) \/ (KeepPins /\ sd_cs = c)) /\ Places(c)
  BY DEF Proceeds
<1>2. moving = "no" /\ moving' = moving /\ reply' = reply /\ replies' = <<>> /\ TodoOK'
  BY DEF Proceeds
<1>3. sd_mosi \in Wires /\ sd_clk = FALSE
  BY <1>2 DEF IInv, HelperOK, AtRest
<1>4. /\ HelperOK' /\ CardOK' /\ WireOK' /\ AtRest' /\ HelperMoves' /\ PinsMove'
      /\ sd_cs' = c
  BY <1>1, <1>2, <1>3, RestedOK DEF Pins
<1>5. PlaceOK'
  BY <1>1, <1>2, <1>4 DEF Places, PlaceOK
<1>6. RepliesOK'
  BY <1>2 DEF RepliesOK
<1> QED  BY <1>2, <1>4, <1>5, <1>6 DEF IInv

LEMMA Proceed ==
  ASSUME IInv, moving = "no", moving' = moving, reply' = reply, replies' = <<>>, TodoOK',
         \/ KeepPins /\ Places(sd_cs)
         \/ Pins(TRUE) /\ Places(TRUE)
         \/ Pins(FALSE) /\ Places(FALSE)
  PROVE  Proceeds
<1>1. sd_cs \in BOOLEAN
  BY DEF IInv, HelperOK
<1>2. CASE KeepPins /\ Places(sd_cs)
  BY <1>1, <1>2 DEF Proceeds
<1>3. CASE Pins(TRUE) /\ Places(TRUE)
  <2>1. TRUE \in BOOLEAN
    OBVIOUS
  <2>2. (Pins(TRUE) \/ (KeepPins /\ sd_cs = TRUE)) /\ Places(TRUE)
    BY <1>3
  <2>3. \E c \in BOOLEAN : (Pins(c) \/ (KeepPins /\ sd_cs = c)) /\ Places(c)
    BY <2>1, <2>2, Zenon
  <2> QED  BY <2>3 DEF Proceeds
<1>4. CASE Pins(FALSE) /\ Places(FALSE)
  <2>1. FALSE \in BOOLEAN
    OBVIOUS
  <2>2. (Pins(FALSE) \/ (KeepPins /\ sd_cs = FALSE)) /\ Places(FALSE)
    BY <1>4
  <2>3. \E c \in BOOLEAN : (Pins(c) \/ (KeepPins /\ sd_cs = c)) /\ Places(c)
    BY <2>1, <2>2, Zenon
  <2> QED  BY <2>3 DEF Proceeds
<1> QED  BY <1>2, <1>3, <1>4

LEMMA CallOK ==
  ASSUME NEW c \in Names, NEW arg \in Seq(Names), NEW crc \in Names,
         NEW trail \in Seq(Names), NEW next \in Returns \ {"none"},
         next = "write_r1" => buf' \in Seq(Names),
         Call(c, arg, crc, trail, next)
  PROVE  /\ replies' = <<>> /\ TodoOK' /\ pc' = "cmd_busy"
         /\ Pins(FALSE) /\ Places(FALSE)
<1>1. Frame(c, arg, crc) \in Seq(Names)
  BY DEF Frame
<1>2. <<"FF", "FF">> \in Seq(Names)
  BY NamedNames DEF Named
<1>3. /\ cmd' = [frame |-> Frame(c, arg, crc), trail |-> trail, next |-> next]
      /\ todo' = <<"FF", "FF">> /\ pc' = "cmd_busy" /\ replies' = <<>> /\ Pins(FALSE)
  BY DEF Call, Go
<1>4. CmdTyped(cmd')
  BY <1>1, <1>3 DEF CmdTyped
<1>5. TodoOK'
  BY <1>2, <1>3, <1>4 DEF TodoOK, CmdTyped
<1> QED  BY <1>3, <1>5 DEF Places

LEMMA CmdProceeds ==
  ASSUME IInv, CmdBusy \/ CmdR1
  PROVE  Proceeds
<1>1. {"FF"} \subseteq Names /\ {"00", "01", "04", "05", "08", "20"} \subseteq Names
  BY NamedNames DEF Named
<1>2. CmdTyped(cmd) /\ cmd.frame \in Seq(Names) /\ cmd.trail \in Seq(Names)
  BY DEF IInv, TodoOK, CmdTyped
<1>3. CASE CmdBusy
  <2>1. /\ pc = "cmd_busy" /\ moving = "no" /\ moving' = moving /\ reply' = reply
        /\ replies' = <<>> /\ pc' \in {"cmd_busy", "cmd_r1"} /\ KeepPins
        /\ UNCHANGED <<cmd, buf>>
        /\ (todo' = <<"FF">> \/ todo' = Append(cmd.frame, "FF"))
    <3>1. /\ pc = "cmd_busy" /\ moving = "no" /\ KeepPins /\ UNCHANGED <<moving, reply, cmd, buf>>
          /\ Go("cmd_busy", <<"FF">>) \/ Go("cmd_r1", Append(cmd.frame, "FF"))
      BY <1>3 DEF CmdBusy, At, Kept
    <3>2. CASE Go("cmd_busy", <<"FF">>)
      BY <3>1, <3>2 DEF Go
    <3>3. CASE Go("cmd_r1", Append(cmd.frame, "FF"))
      BY <3>1, <3>3 DEF Go
    <3> QED  BY <3>1, <3>2, <3>3
  <2>2. todo' \in Seq(Names)
    <3>1. "FF" \in Names /\ <<"FF">> \in Seq(Names)
      BY <1>1
    <3>2. Append(cmd.frame, "FF") \in Seq(Names)
      BY <1>2, <3>1, AppendProperties
    <3> QED  BY <2>1, <3>1, <3>2
  <2>3. TodoOK'
    BY <1>2, <2>1, <2>2 DEF IInv, TodoOK, CmdTyped
  <2>4. Places(sd_cs)
    BY <2>1 DEF Places
  <2> QED  BY <2>1, <2>3, <2>4, Proceed
<1>4. CASE CmdR1
  <2>1. /\ pc = "cmd_r1" /\ moving = "no" /\ moving' = moving /\ reply' = reply
        /\ replies' = <<>> /\ KeepPins /\ UNCHANGED buf
    BY <1>4 DEF CmdR1, At, Go, Kept
  <2>2. CASE pc' = "cmd_r1" /\ todo' = <<"FF">> /\ UNCHANGED cmd
    <3>1. TodoOK'
      BY <1>1, <1>2, <2>1, <2>2 DEF IInv, TodoOK, CmdTyped
    <3>2. Places(sd_cs)
      BY <2>2 DEF Places
    <3> QED  BY <2>1, <3>1, <3>2, Proceed
  <2> DEFINE answer == IF IsR1(Last(replies)) THEN Last(replies) ELSE "FF"
  <2>3. CASE /\ pc' = cmd.next /\ todo' = cmd.trail
             /\ cmd' = [cmd EXCEPT !.frame = <<answer>>]
    <3>1. answer \in Names
      BY <1>1 DEF IsR1
    <3> HIDE DEF answer
    <3>2. CmdTyped(cmd') /\ cmd'.next = cmd.next
      <4>1. <<answer>> \in Seq(Names)
        BY <3>1
      <4>2. cmd' = [frame |-> <<answer>>, trail |-> cmd.trail, next |-> cmd.next]
        BY <1>2, <2>3 DEF CmdTyped
      <4>3. cmd.trail \in Seq(Names) /\ cmd.next \in Returns
        BY <1>2 DEF CmdTyped
      <4> QED  BY <4>1, <4>2, <4>3 DEF CmdTyped
    <3>3. cmd.next \in Returns \ {"none"} /\ (cmd.next = "write_r1" => buf \in Seq(Names))
      BY <1>2, <2>1 DEF IInv, TodoOK, CmdTyped
    <3>4. TodoOK'
      BY <1>2, <2>1, <2>3, <3>2, <3>3 DEF TodoOK, CmdTyped, Returns
    <3>5. Places(sd_cs)
      BY <2>3, <3>3 DEF Places, Returns
    <3> QED  BY <2>1, <3>4, <3>5, Proceed
  <2> QED  BY <1>4, <2>2, <2>3 DEF CmdR1, Go
<1> QED  BY <1>3, <1>4

LEMMA InitProceeds ==
  ASSUME IInv,
         InitWake \/ InitReset \/ InitCheck \/ InitEcho \/ InitApp \/ InitOpCond \/ InitLength
  PROVE  Proceeds
<1>1. /\ moving = "no" /\ pc \notin {"none", "end", "cmd_busy", "cmd_r1"}
      /\ moving' = moving /\ reply' = reply /\ UNCHANGED buf
  BY DEF InitWake, InitReset, InitCheck, InitEcho, InitApp, InitOpCond, InitLength, At, Kept
<1>2. CmdTyped(cmd)
  BY DEF IInv, TodoOK, CmdTyped
<1>3. ASSUME NEW c \in Names, NEW arg \in Seq(Names), NEW crc \in Names, NEW trail \in Seq(Names),
             NEW next \in Returns \ {"none", "write_r1"}, Call(c, arg, crc, trail, next)
      PROVE  Proceeds
  <2>1. TodoOK' /\ replies' = <<>> /\ Pins(FALSE) /\ Places(FALSE)
    BY <1>3, CallOK
  <2> QED  BY <1>1, <2>1, Proceed
<1>4. ASSUME NEW v, Return(v), \/ KeepPins /\ v # "0"
                               \/ Pins(TRUE)
      PROVE  Proceeds
  <2>1. pc' = "none" /\ todo' = <<>> /\ replies' = <<>> /\ result' = v /\ UNCHANGED cmd
    BY <1>4 DEF Return
  <2>2. TodoOK'
    BY <1>2, <2>1 DEF TodoOK, CmdTyped
  <2>3. Places(TRUE) /\ (v # "0" => Places(sd_cs))
    BY <2>1 DEF Places
  <2> QED  BY <1>1, <1>4, <2>1, <2>2, <2>3, Proceed
<1>5. /\ NoArg \in Seq(Names) /\ <<"FF">> \in Seq(Names) /\ <<>> \in Seq(Names)
      /\ <<"00", "00", "01", "AA">> \in Seq(Names) /\ <<"40", "00", "00", "00">> \in Seq(Names)
      /\ <<"00", "00", "02", "00">> \in Seq(Names) /\ Repeat(4, "FF") \in Seq(Names)
  <2>1. {"00", "FF", "01", "AA", "40", "02"} \subseteq Names
    BY NamedNames DEF Named
  <2> QED  BY <2>1, RepeatNames DEF NoArg
<1>6. {"CMD0", "CMD8", "CMD55", "CMD41", "CMD16", "95", "87", "01"} \subseteq Names
  BY NamedNames DEF Named
<1>7. {"init_reset", "init_check", "init_app", "init_opcond", "init_length"}
        \subseteq Returns \ {"none", "write_r1"}
  BY DEF Returns
<1>8. AppCommand => Proceeds
  BY <1>3, <1>5, <1>6, <1>7 DEF AppCommand
<1>9. CASE InitWake
  BY <1>9, <1>3, <1>5, <1>6, <1>7 DEF InitWake
<1>10. CASE InitReset
  BY <1>10, <1>3, <1>4, <1>5, <1>6, <1>7 DEF InitReset
<1>11. CASE InitCheck
  <2>1. CASE r # "01"
    BY <1>11, <2>1, <1>4 DEF InitCheck
  <2>2. CASE r = "01"
    <3>1. /\ pc' = "init_echo" /\ todo' = Repeat(4, "FF") /\ replies' = <<>> /\ UNCHANGED cmd
          /\ KeepPins
      BY <1>11, <2>2 DEF InitCheck, Go
    <3>2. TodoOK' /\ Places(sd_cs)
      BY <1>2, <1>5, <3>1 DEF TodoOK, CmdTyped, Places
    <3> QED  BY <1>1, <3>1, <3>2, Proceed
  <2> QED  BY <2>1, <2>2
<1>12. CASE InitEcho
  BY <1>12, <1>4, <1>8 DEF InitEcho
<1>13. CASE InitApp
  BY <1>13, <1>3, <1>5, <1>6, <1>7 DEF InitApp
<1>14. CASE InitOpCond
  BY <1>14, <1>3, <1>5, <1>6, <1>7, <1>8 DEF InitOpCond
<1>15. CASE InitLength
  BY <1>15, <1>4 DEF InitLength
<1> QED  BY <1>9, <1>10, <1>11, <1>12, <1>13, <1>14, <1>15

LEMMA BlockProceeds ==
  ASSUME IInv, ReadR1 \/ ReadToken \/ ReadData \/ End \/ WriteR1 \/ WriteResp \/ WriteBusy
  PROVE  Proceeds
<1>1. /\ moving = "no" /\ pc \notin {"none", "cmd_busy", "cmd_r1"}
      /\ moving' = moving /\ reply' = reply
  BY DEF ReadR1, ReadToken, ReadData, End, WriteR1, WriteResp, WriteBusy, At, Kept
<1>2. CmdTyped(cmd)
  BY DEF IInv, TodoOK, CmdTyped
<1>3. "FF" \in Names /\ <<"FF">> \in Seq(Names) /\ Repeat(BLOCK + 2, "FF") \in Seq(Names)
  <2>1. "FF" \in Names /\ BLOCK + 2 \in Nat
    BY NamedNames, MediumAssumption DEF Named
  <2> QED  BY <2>1, RepeatNames
<1>4. ASSUME NEW v, Return(v), Pins(TRUE)
      PROVE  Proceeds
  <2>1. pc' = "none" /\ todo' = <<>> /\ replies' = <<>> /\ result' = v /\ UNCHANGED cmd
    BY <1>4 DEF Return
  <2>2. TodoOK' /\ Places(TRUE)
    BY <1>2, <2>1 DEF TodoOK, CmdTyped, Places
  <2> QED  BY <1>1, <1>4, <2>1, <2>2, Proceed
<1>5. ASSUME NEW label \in {"read_token", "read_data", "write_resp", "write_busy", "end"},
             NEW bytes \in Seq(Names), Go(label, bytes), UNCHANGED cmd,
             Pins(TRUE) \/ (KeepPins /\ label # "end")
      PROVE  Proceeds
  <2>1. pc' = label /\ todo' = bytes /\ replies' = <<>>
    BY <1>5 DEF Go
  <2>2. TodoOK' /\ Places(TRUE) /\ (label # "end" => Places(sd_cs))
    BY <1>2, <1>5, <2>1 DEF TodoOK, CmdTyped, Places
  <2> QED  BY <1>1, <1>5, <2>1, <2>2, Proceed
<1>6. CASE ReadR1
  BY <1>6, <1>3, <1>4, <1>5 DEF ReadR1
<1>7. CASE ReadToken
  <2>1. CASE Last(replies) = "FE"
    BY <1>7, <2>1, <1>3, <1>5 DEF ReadToken
  <2>2. CASE Last(replies) # "FE" /\ i < TOKEN_LIMIT
    BY <1>7, <2>2, <1>3, <1>5 DEF ReadToken
  <2>3. CASE Last(replies) # "FE" /\ ~(i < TOKEN_LIMIT)
    BY <1>7, <2>3, <1>4 DEF ReadToken
  <2> QED  BY <2>1, <2>2, <2>3
<1>8. CASE ReadData
  BY <1>8, <1>3, <1>5 DEF ReadData
<1>9. CASE End
  <2>1. /\ pc = "end" /\ KeepPins /\ pc' = "none" /\ todo' = <<>> /\ replies' = <<>>
        /\ UNCHANGED cmd
    BY <1>9 DEF End, At, Return
  <2>2. sd_cs
    BY <2>1 DEF IInv, PlaceOK
  <2>3. TodoOK' /\ Places(sd_cs)
    BY <1>2, <2>1, <2>2 DEF TodoOK, CmdTyped, Places
  <2> QED  BY <1>1, <2>1, <2>3, Proceed
<1>10. CASE WriteR1
  <2>1. buf \in Seq(Names)
    BY <1>10 DEF WriteR1, At, IInv, TodoOK
  <2>2. <<"FF", "FE">> \o buf \o <<"FF", "FF", "FF">> \in Seq(Names)
    <3>1. <<"FF", "FE">> \in Seq(Names) /\ <<"FF", "FF", "FF">> \in Seq(Names)
      BY NamedNames DEF Named
    <3> QED  BY <2>1, <3>1
  <2> QED  BY <1>10, <2>2, <1>4, <1>5 DEF WriteR1
<1>11. CASE WriteResp
  BY <1>11, <1>3, <1>4, <1>5 DEF WriteResp
<1>12. CASE WriteBusy
  <2>1. CASE Last(replies) = "00"
    BY <1>12, <2>1, <1>3, <1>5 DEF WriteBusy
  <2>2. CASE Last(replies) # "00"
    BY <1>12, <2>2, <1>3, <1>5 DEF WriteBusy
  <2> QED  BY <2>1, <2>2
<1> QED  BY <1>6, <1>7, <1>8, <1>9, <1>10, <1>11, <1>12

-----------------------------------------------------------------------------
(* The clock of a byte, whoever makes it.                                  *)

Selected == inserted /\ ~sd_cs

(* Before a rising edge miso shows the bit that comes with it; before the  *)
(* falling edge it still does.                                             *)
LEMMA MisoSeen ==
  ASSUME HelperOK, CardOK, WireOK, inserted, NEW n \in 0 .. BITS, Hears(n),
         NEW k \in 1 .. BITS, (sd_clk = FALSE /\ k = n + 1) \/ (sd_clk = TRUE /\ k = n)
  PROVE  miso = Seen(k)
<1>1. CASE sd_cs
  BY <1>1 DEF miso, Seen
<1>2. CASE ~sd_cs
  <2>1. Len(heard) = n /\ (n > 0 => heard # <<>>)
    BY <1>2, BitsAssumption DEF Hears, Begins, WireOK
  <2>2. miso = Bits(out)[k]
    BY <1>2, <2>1 DEF miso
  <2>3. Bits(out)[k] = Bit(out, k)
    BY BitsWires DEF CardOK
  <2> QED  BY <1>2, <2>2, <2>3 DEF Seen
<1> QED  BY <1>1, <1>2

LEMMA MisoWire ==
  ASSUME HelperOK, CardOK, WireOK, NEW n \in 0 .. BITS, Hears(n),
         (sd_clk = FALSE /\ n < BITS) \/ (sd_clk = TRUE /\ n > 0)
  PROVE  miso \in Wires
<1>1. CASE Selected
  <2>1. PICK k \in 1 .. BITS : (sd_clk = FALSE /\ k = n + 1) \/ (sd_clk = TRUE /\ k = n)
    BY BitsAssumption
  <2>2. miso = Bit(out, k)
    BY <1>1, <2>1, MisoSeen DEF Seen, Selected
  <2> QED  BY <2>2, BitWire DEF CardOK
<1>2. CASE ~Selected
  BY <1>2, ZeroOneWires DEF miso, Selected
<1> QED  BY <1>1, <1>2

LEMMA RiseOK ==
  ASSUME HelperOK, CardOK, WireOK, NEW n \in 0 .. BITS - 1, Hears(n), todo' = todo,
         Head(todo) \in Names,
         sd_clk = FALSE, sd_clk' = TRUE, sd_cs' = sd_cs, sd_mosi' = Bit(Head(todo), n + 1),
         CardSeesPins
  PROVE  /\ Hears(n + 1)' /\ CardOK' /\ heard' \in Seq(Wires) /\ (sd_cs' => heard' = <<>>)
         /\ out' = out /\ inserted' = inserted
<1>1. sd_mosi' \in Wires
  BY BitWire, BitsAssumption
<1>2. CASE ~Selected
  <2>1. heard = <<>> /\ heard' = heard /\ UNCHANGED <<inserted, out, queue, got, store>>
    BY <1>2 DEF Hears, Selected, CardSeesPins, Rise, medium
  <2> QED  BY <1>2, <2>1 DEF Hears, Selected, CardOK, WireOK
<1>3. CASE Selected
  <2>1. heard' = Append(heard, sd_mosi') /\ UNCHANGED <<inserted, out, queue, got, store>>
    BY <1>3 DEF Selected, CardSeesPins, Rise
  <2>2. Begins(heard, Head(todo), n)
    BY <1>3, BitsAssumption DEF Hears, Selected
  <2>3. /\ heard' \in Seq(Wires) /\ Len(heard') = n + 1
        /\ heard'[n + 1] = sd_mosi' /\ \A k \in 1 .. n : heard'[k] = heard[k]
    BY <1>1, <2>1, <2>2, AppendProperties DEF Begins, WireOK
  <2>4. Begins(heard', Head(todo), n + 1)
    BY <2>2, <2>3 DEF Begins
  <2> QED  BY <1>3, <2>1, <2>3, <2>4 DEF Hears, Selected, CardOK
<1> QED  BY <1>2, <1>3

LEMMA FallOK ==
  ASSUME HelperOK, CardOK, WireOK, NEW n \in 1 .. BITS, Hears(n),
         Head(todo) \in Names,
         sd_clk = TRUE, sd_clk' = FALSE, sd_cs' = sd_cs, CardSeesPins
  PROVE  /\ CardOK' /\ heard' \in Seq(Wires) /\ (sd_cs' => heard' = <<>>)
         /\ inserted' = inserted
         /\ (n < BITS => out' = out /\ heard' = heard)
         /\ (n = BITS => heard' = <<>>)
<1>1. CASE ~Selected
  <2>1. UNCHANGED medium /\ heard = <<>>
    BY <1>1 DEF Hears, Selected, CardSeesPins, Fall
  <2> QED  BY <2>1 DEF medium, CardOK, WireOK
<1>2. CASE Selected
  <2>1. Begins(heard, Head(todo), n) /\ Len(heard) = n
    BY <1>2 DEF Hears, Selected, Begins
  <2>2. Fall
    BY <1>2 DEF Selected, CardSeesPins
  <2>3. CASE n < BITS
    <3>1. UNCHANGED medium
      BY <2>1, <2>2, <2>3 DEF Fall
    <3> QED  BY <1>2, <2>3, <3>1 DEF medium, CardOK, WireOK, Selected
  <2>4. CASE n = BITS
    <3>1. TakeByte(ByteOf(heard)) /\ heard' = <<>> /\ UNCHANGED inserted
      BY <1>2, <2>1, <2>2, <2>4 DEF Fall, Selected
    <3>2. ByteOf(heard) = Head(todo)
      BY <2>1, <2>4, WholeByte DEF WireOK
    <3>3. CardOK'
      BY <3>1, <3>2, TakeByteOK
    <3> QED  BY <2>4, <3>1, <3>3, BitsAssumption
  <2> QED  BY <2>3, <2>4, BitsAssumption
<1> QED  BY <1>1, <1>2

(* The bits that came with the clocks of a byte are a byte.                *)
LEMMA SeenByte ==
  ASSUME CardOK, NEW bits \in Seq(Wires), Len(bits) = BITS,
         \A k \in 1 .. BITS : bits[k] = Seen(k)
  PROVE  ByteOf(bits) = (IF sd_cs THEN "FF" ELSE out) /\ ByteOf(bits) # "??"
<1> DEFINE x == IF sd_cs THEN "FF" ELSE out
<1>1. x \in Names
  BY NamedNames DEF CardOK, Named
<1>2. \A k \in 1 .. BITS : bits[k] = Bit(x, k)
  BY ZeroOneWires DEF Seen
<1> HIDE DEF x
<1>3. ByteOf(bits) = x
  BY <1>1, <1>2, WholeByte DEF Begins
<1> QED  BY <1>1, <1>3, NamedNames DEF x

-----------------------------------------------------------------------------
(* Transfers.                                                              *)

LEMMA HeadTodo ==
  ASSUME IInv, todo # <<>>
  PROVE  Head(todo) \in Names /\ Tail(todo) \in Seq(Names) /\ pc # "none"
  BY DEF IInv, TodoOK, PlaceOK

(* The byte is through: its reply is a byte if the card stayed in.         *)
LEMMA TransferredOK ==
  ASSUME IInv, todo # <<>>, NEW b \in Names \cup {"??"}, inserted => b # "??", Transferred(b),
         UNCHANGED <<pc, cmd, buf, result, sd_cs>>, inserted' = inserted
  PROVE  RepliesOK' /\ TodoOK' /\ PlaceOK' /\ moving' = "no" /\ reply' = <<>>
<1>1. /\ replies' = Append(replies, b) /\ todo' = Tail(todo)
      /\ moving' = "no" /\ reply' = <<>>
  BY DEF Transferred
<1>2. todo' \in Seq(Names) /\ pc # "none"
  BY <1>1, HeadTodo
<1>3. /\ replies' \in Seq(Names \cup {"??"}) /\ Len(replies') = Len(replies) + 1
      /\ replies'[Len(replies) + 1] = b /\ \A k \in 1 .. Len(replies) : replies'[k] = replies[k]
  BY <1>1, AppendProperties DEF IInv, RepliesOK
<1>4. RepliesOK'
  BY <1>3 DEF IInv, RepliesOK
<1>5. TodoOK' /\ PlaceOK'
  BY <1>1, <1>2 DEF IInv, TodoOK, PlaceOK
<1> QED  BY <1>1, <1>4, <1>5

LEMMA StartOK ==
  ASSUME IInv, StartTransfer
  PROVE  IInv'
<1> DEFINE b == Head(todo)
<1>1. /\ todo # <<>> /\ moving = "no" /\ moving' = "helper" /\ WriteTx(b)
      /\ UNCHANGED medium
      /\ UNCHANGED <<pc, todo, replies, reply, cmd, buf, result>>
  BY DEF StartTransfer
<1>2. b \in Names /\ pc # "none"
  BY <1>1, HeadTodo
<1>3. heard = <<>> /\ sd_clk = FALSE /\ bit_cnt = 0 /\ reply = <<>> /\ ~busy
  BY <1>1 DEF IInv, AtRest, HelperOK, busy
<1>4. /\ sd_mosi' = Bits(b)[1] /\ sd_tx' = Append(Tail(Bits(b)), Zero)
      /\ bit_cnt' = 2 * BITS /\ UNCHANGED <<sd_rx, sd_clk, sd_cs>>
  BY <1>1, <1>3 DEF WriteTx
<1>5. /\ sd_mosi' = Bit(b, 1) /\ Bit(b, 1) \in Wires
  BY <1>2, <1>4, BitsWires, BitWire, BitsAssumption
<1>6. /\ sd_tx' \in Seq(Wires) /\ Len(sd_tx') = BITS
      /\ \A j \in 1 .. BITS : j < BITS => sd_tx'[j] = Bit(b, j + 1)
  <2>1. /\ Bits(b) \in Seq(Wires) /\ Len(Bits(b)) = BITS
        /\ \A k \in 1 .. BITS : Bits(b)[k] = Bit(b, k)
    BY <1>2, BitsWires
  <2> DEFINE s == Bits(b)
  <2>2. s # <<>>
    BY <2>1, BitsAssumption
  <2> HIDE DEF s
  <2>3. /\ Tail(s) \in Seq(Wires) /\ Len(Tail(s)) = BITS - 1
        /\ \A k \in 1 .. BITS - 1 : Tail(s)[k] = s[k + 1]
    BY <2>1, <2>2, HeadTailProperties DEF s
  <2>4. /\ Append(Tail(s), Zero) \in Seq(Wires) /\ Len(Append(Tail(s), Zero)) = BITS
        /\ \A k \in 1 .. BITS - 1 : Append(Tail(s), Zero)[k] = Tail(s)[k]
    BY <2>3, ZeroOneWires, AppendProperties, BitsAssumption
  <2>5. \A k \in 1 .. BITS - 1 : Append(Tail(s), Zero)[k] = Bit(b, k + 1)
    BY <2>1, <2>3, <2>4, BitsAssumption DEF s
  <2>6. /\ sd_tx' \in Seq(Wires) /\ Len(sd_tx') = BITS
        /\ \A k \in 1 .. BITS - 1 : sd_tx'[k] = Bit(b, k + 1)
    BY <1>4, <2>4, <2>5 DEF s
  <2>7. \A j \in 1 .. BITS : j < BITS => j \in 1 .. BITS - 1
    BY BitsAssumption
  <2> QED  BY <2>6, <2>7
<1>7. HelperOK'
  BY <1>4, <1>5, <1>6, BitsAssumption DEF IInv, HelperOK
<1>8. CardOK' /\ RepliesOK'
  BY <1>1 DEF IInv, CardOK, RepliesOK, medium
<1>9. WireOK' /\ TodoOK' /\ PlaceOK' /\ AtRest' /\ PinsMove'
  BY <1>1, <1>2, <1>4 DEF IInv, WireOK, TodoOK, PlaceOK, AtRest, PinsMove, medium
<1>10. Shifting(0)'
  <2>1. heard' = <<>> /\ sd_clk' = FALSE /\ Hears(0)'
    BY <1>1, <1>3, <1>4 DEF medium, Hears, Begins
  <2>2. ~sd_clk' /\ bit_cnt' = 2 * (BITS - 0)
    BY <1>3, <1>4, BitsAssumption
  <2>3. todo' = todo
    BY <1>1
  <2> QED  BY <1>5, <1>6, <2>1, <2>2, <2>3, BitsAssumption DEF Shifting
<1>11. HelperMoves'
  <2>1. 0 \in 0 .. BITS
    BY BitsAssumption
  <2> QED  BY <1>1, <1>3, <1>10, <2>1 DEF HelperMoves
<1> QED  BY <1>7, <1>8, <1>9, <1>11 DEF IInv

LEMMA EndOK ==
  ASSUME IInv, EndTransfer
  PROVE  IInv'
<1>1. /\ moving = "helper" /\ bit_cnt = 0 /\ Transferred(ByteOf(sd_rx))
      /\ UNCHANGED <<helper, medium, pc, cmd, buf, result>>
  BY DEF EndTransfer, HelperDone, busy, IInv, HelperOK
<1>2. PICK n \in 0 .. BITS : Shifting(n)
  BY <1>1 DEF IInv, HelperMoves
<1>3. n = BITS /\ sd_clk = FALSE /\ todo # <<>>
  BY <1>1, <1>2, BitsAssumption DEF Shifting, IInv, HelperOK, HelperMoves
<1>4. heard = <<>> /\ (inserted => ByteOf(sd_rx) # "??")
  BY <1>2, <1>3, BitsAssumption DEF Shifting, Hears
<1>5. ByteOf(sd_rx) \in Names \cup {"??"}
  BY ByteNames DEF IInv, HelperOK
<1>6. RepliesOK' /\ TodoOK' /\ PlaceOK' /\ moving' = "no" /\ reply' = <<>>
  BY <1>1, <1>3, <1>4, <1>5, TransferredOK DEF helper, medium
<1>7. HelperOK' /\ CardOK'
  BY <1>1 DEF IInv, HelperOK, CardOK, helper, medium
<1>8. WireOK' /\ AtRest' /\ HelperMoves' /\ PinsMove'
  BY <1>1, <1>3, <1>4, <1>6 DEF WireOK, AtRest, HelperMoves, PinsMove, helper, medium
<1> QED  BY <1>6, <1>7, <1>8 DEF IInv

(* What the helper does on a rising edge, ...                              *)
LEMMA EdgeRises ==
  ASSUME IInv, NEW n \in 0 .. BITS, Shifting(n), moving = "helper", ~sd_clk, Edge
  PROVE  IInv'
<1>1. /\ busy /\ sd_clk = FALSE /\ bit_cnt > 0 /\ bit_cnt \in 0 .. 2 * BITS
  BY DEF Edge, HelperEdge, IInv, HelperOK, busy
<1>2. n < BITS
  BY <1>1, BitsAssumption DEF Shifting
<1>3. /\ sd_rx' = Append(Tail(sd_rx), miso) /\ UNCHANGED <<sd_mosi, sd_tx, sd_cs, driver>>
      /\ sd_clk' = TRUE /\ bit_cnt' = bit_cnt - 1 /\ CardSeesPins
  BY <1>1 DEF Edge, HelperEdge
<1>4. /\ todo' = todo /\ moving' = moving /\ reply' = reply
      /\ UNCHANGED <<pc, cmd, buf, result, replies>>
  BY <1>3 DEF driver
<1>5. todo # <<>> /\ reply = <<>> /\ Head(todo) \in Names
  BY HeadTodo DEF IInv, HelperMoves
<1>6. /\ Hears(n) /\ sd_mosi = Bit(Head(todo), n + 1)
      /\ \A j \in 1 .. BITS : j + n < BITS => sd_tx[j] = Bit(Head(todo), j + n + 1)
      /\ inserted => \A k \in 1 .. n : sd_rx[BITS - n + k] = Seen(k)
      /\ bit_cnt = 2 * (BITS - n)
  BY <1>1, <1>2, BitsAssumption DEF Shifting
<1>7. HelperOK /\ CardOK /\ WireOK
  BY DEF IInv
<1>8. /\ Hears(n + 1)' /\ CardOK' /\ heard' \in Seq(Wires) /\ (sd_cs' => heard' = <<>>)
      /\ out' = out /\ inserted' = inserted
  <2>1. n \in 0 .. BITS - 1
    BY <1>2, BitsAssumption
  <2>2. sd_mosi' = Bit(Head(todo), n + 1) /\ sd_cs' = sd_cs
    BY <1>3, <1>6
  <2> QED  BY <1>1, <1>3, <1>4, <1>5, <1>6, <1>7, <2>1, <2>2, RiseOK
<1>9. miso \in Wires
  BY <1>1, <1>2, <1>6, <1>7, MisoWire
<1>10. /\ sd_rx' \in Seq(Wires) /\ Len(sd_rx') = BITS /\ sd_rx'[BITS] = miso
       /\ \A k \in 1 .. BITS - 1 : sd_rx'[k] = sd_rx[k + 1]
  <2>1. sd_rx \in Seq(Wires) /\ Len(sd_rx) = BITS /\ sd_rx # <<>>
    BY <1>7, BitsAssumption DEF HelperOK
  <2>2. /\ Tail(sd_rx) \in Seq(Wires) /\ Len(Tail(sd_rx)) = BITS - 1
        /\ \A k \in 1 .. BITS - 1 : Tail(sd_rx)[k] = sd_rx[k + 1]
    BY <2>1, HeadTailProperties
  <2> QED  BY <1>3, <1>9, <2>2, AppendProperties, BitsAssumption
<1>11. inserted' => \A k \in 1 .. n + 1 : sd_rx'[BITS - (n + 1) + k] = Seen(k)'
  <2> SUFFICES ASSUME inserted', NEW k \in 1 .. n + 1
               PROVE  sd_rx'[BITS - (n + 1) + k] = Seen(k)'
    OBVIOUS
  <2>1. inserted
    BY <1>8
  <2>2. Seen(k)' = Seen(k)
    BY <1>3, <1>8 DEF Seen
  <2>3. CASE k = n + 1
    <3>1. BITS - (n + 1) + k = BITS /\ k \in 1 .. BITS
      BY <1>2, <2>3, BitsAssumption
    <3>2. miso = Seen(k)
      BY <1>1, <1>6, <1>7, <2>1, <2>3, <3>1, MisoSeen
    <3> QED  BY <1>10, <2>2, <3>1, <3>2
  <2>4. CASE k # n + 1
    <3>1. k \in 1 .. n /\ BITS - (n + 1) + k \in 1 .. BITS - 1
          /\ (BITS - (n + 1) + k) + 1 = BITS - n + k
      BY <1>2, <2>4, BitsAssumption
    <3>2. sd_rx'[BITS - (n + 1) + k] = sd_rx[BITS - n + k]
      BY <1>10, <3>1
    <3> QED  BY <1>6, <2>1, <2>2, <3>1, <3>2
  <2> QED  BY <2>3, <2>4
<1>12. HelperOK'
  BY <1>1, <1>3, <1>7, <1>10, BitsAssumption DEF HelperOK
<1>13. Shifting(n + 1)'
  <2>1. bit_cnt' = 2 * (BITS - (n + 1)) + 1 /\ (n + 1) - 1 = n /\ n + 1 > 0
    BY <1>3, <1>6, BitsAssumption
  <2>2. sd_mosi' = sd_mosi /\ sd_tx' = sd_tx
    BY <1>3
  <2> QED  BY <1>3, <1>4, <1>6, <1>8, <1>11, <2>1, <2>2 DEF Shifting
<1>14. HelperMoves'
  <2>1. n + 1 \in 0 .. BITS
    BY <1>2, BitsAssumption
  <2> QED  BY <1>4, <1>5, <1>13, <2>1 DEF HelperMoves
<1>15. RepliesOK' /\ TodoOK' /\ PlaceOK' /\ AtRest' /\ PinsMove' /\ WireOK'
  BY <1>3, <1>4, <1>5, <1>7, <1>8
  DEF IInv, RepliesOK, TodoOK, PlaceOK, AtRest, PinsMove, WireOK
<1> QED  BY <1>8, <1>12, <1>14, <1>15 DEF IInv

(* ... and on a falling one, the last of which ends the byte.              *)
LEMMA EdgeFalls ==
  ASSUME IInv, NEW n \in 0 .. BITS, Shifting(n), moving = "helper", sd_clk, Edge
  PROVE  IInv'
<1>1. /\ busy /\ sd_clk = TRUE /\ bit_cnt > 0 /\ bit_cnt \in 0 .. 2 * BITS
  BY DEF Edge, HelperEdge, IInv, HelperOK, busy
<1>2. n \in 1 .. BITS
  BY <1>1, BitsAssumption DEF Shifting
<1>3. /\ sd_mosi' = Head(sd_tx) /\ sd_tx' = Append(Tail(sd_tx), Zero)
      /\ UNCHANGED <<sd_rx, sd_cs, driver>>
      /\ sd_clk' = FALSE /\ bit_cnt' = bit_cnt - 1 /\ CardSeesPins
  BY <1>1 DEF Edge, HelperEdge
<1>4. /\ todo' = todo /\ moving' = moving /\ reply' = reply
      /\ UNCHANGED <<pc, cmd, buf, result, replies>>
  BY <1>3 DEF driver
<1>5. todo # <<>> /\ reply = <<>> /\ Head(todo) \in Names
  BY HeadTodo DEF IInv, HelperMoves
<1>6. /\ Hears(n)
      /\ \A j \in 1 .. BITS : j + (n - 1) < BITS => sd_tx[j] = Bit(Head(todo), j + (n - 1) + 1)
      /\ inserted => \A k \in 1 .. n : sd_rx[BITS - n + k] = Seen(k)
      /\ bit_cnt = 2 * (BITS - n) + 1
  BY <1>1, <1>2, BitsAssumption DEF Shifting
<1>7. HelperOK /\ CardOK /\ WireOK
  BY DEF IInv
<1>8. /\ CardOK' /\ heard' \in Seq(Wires) /\ (sd_cs' => heard' = <<>>)
      /\ inserted' = inserted
      /\ (n < BITS => out' = out /\ heard' = heard)
      /\ (n = BITS => heard' = <<>>)
  <2>1. sd_cs' = sd_cs
    BY <1>3
  <2> QED  BY <1>1, <1>2, <1>3, <1>5, <1>6, <1>7, <2>1, FallOK
<1>9. /\ sd_tx' \in Seq(Wires) /\ Len(sd_tx') = BITS /\ sd_mosi' = sd_tx[1]
      /\ \A k \in 1 .. BITS - 1 : sd_tx'[k] = sd_tx[k + 1]
  <2>1. sd_tx \in Seq(Wires) /\ Len(sd_tx) = BITS /\ sd_tx # <<>>
    BY <1>7, BitsAssumption DEF HelperOK
  <2>2. /\ Tail(sd_tx) \in Seq(Wires) /\ Len(Tail(sd_tx)) = BITS - 1
        /\ \A k \in 1 .. BITS - 1 : Tail(sd_tx)[k] = sd_tx[k + 1]
    BY <2>1, HeadTailProperties
  <2>3. Head(sd_tx) = sd_tx[1]
    BY <2>1
  <2> QED  BY <1>3, <2>2, <2>3, ZeroOneWires, AppendProperties, BitsAssumption
<1>10. sd_mosi' \in Wires /\ (n < BITS => sd_mosi' = Bit(Head(todo), n + 1))
  <2>1. sd_tx[1] \in Wires
    BY <1>7, BitsAssumption DEF HelperOK
  <2>2. 1 \in 1 .. BITS /\ 1 + (n - 1) = n
    BY <1>2, BitsAssumption
  <2> QED  BY <1>6, <1>9, <2>1, <2>2
<1>11. \A j \in 1 .. BITS : j + n < BITS => sd_tx'[j] = Bit(Head(todo), j + n + 1)
  <2> SUFFICES ASSUME NEW j \in 1 .. BITS, j + n < BITS
               PROVE  sd_tx'[j] = Bit(Head(todo), j + n + 1)
    OBVIOUS
  <2>1. /\ j \in 1 .. BITS - 1 /\ j + 1 \in 1 .. BITS /\ (j + 1) + (n - 1) < BITS
        /\ (j + 1) + (n - 1) + 1 = j + n + 1
    BY <1>2, BitsAssumption
  <2> QED  BY <1>6, <1>9, <2>1
<1>12. HelperOK'
  <2>1. bit_cnt' \in 0 .. 2 * BITS
    BY <1>1, <1>3, BitsAssumption
  <2>2. sd_clk' \in BOOLEAN /\ sd_rx' = sd_rx /\ sd_cs' = sd_cs
    BY <1>3
  <2> QED  BY <1>7, <1>9, <1>10, <2>1, <2>2 DEF HelperOK
<1>13. Hears(n)'
  BY <1>3, <1>4, <1>6, <1>8, <1>2, BitsAssumption DEF Hears, Begins
<1>14. inserted' => IF n < BITS \/ sd_clk'
                    THEN \A k \in 1 .. n : sd_rx'[BITS - n + k] = Seen(k)'
                    ELSE ByteOf(sd_rx') # "??"
  <2> SUFFICES ASSUME inserted
               PROVE  IF n < BITS \/ sd_clk'
                      THEN \A k \in 1 .. n : sd_rx'[BITS - n + k] = Seen(k)'
                      ELSE ByteOf(sd_rx') # "??"
    BY <1>8
  <2>1. sd_rx' = sd_rx
    BY <1>3
  <2>2. CASE n < BITS
    <3>1. \A k : Seen(k)' = Seen(k)
      BY <1>3, <1>8, <2>2 DEF Seen
    <3> QED  BY <1>6, <2>1, <2>2, <3>1
  <2>3. CASE n = BITS
    <3>1. \A k \in 1 .. BITS : sd_rx[k] = Seen(k)
      BY <1>6, <2>3, BitsAssumption
    <3>2. ByteOf(sd_rx) # "??"
      BY <1>7, <3>1, SeenByte DEF HelperOK
    <3> QED  BY <1>3, <2>1, <2>3, <3>2, BitsAssumption
  <2> QED  BY <1>2, <2>2, <2>3, BitsAssumption
<1>15. Shifting(n)'
  <2>1. bit_cnt' = 2 * (BITS - n)
    BY <1>3, <1>6, BitsAssumption
  <2>2. ~sd_clk'
    BY <1>3
  <2> QED  BY <1>4, <1>10, <1>11, <1>13, <1>14, <2>1, <2>2 DEF Shifting
<1>16. HelperMoves'
  BY <1>4, <1>5, <1>15 DEF HelperMoves
<1>17. RepliesOK' /\ TodoOK' /\ PlaceOK' /\ AtRest' /\ PinsMove' /\ WireOK'
  BY <1>3, <1>4, <1>5, <1>7, <1>8
  DEF IInv, RepliesOK, TodoOK, PlaceOK, AtRest, PinsMove, WireOK
<1> QED  BY <1>8, <1>12, <1>16, <1>17 DEF IInv

LEMMA EdgeOK ==
  ASSUME IInv, Edge
  PROVE  IInv'
<1>1. moving = "helper"
  BY DEF Edge, HelperEdge, busy, IInv, WireOK, AtRest, PinsMove
<1>2. PICK n \in 0 .. BITS : Shifting(n)
  BY <1>1 DEF IInv, HelperMoves
<1> QED  BY <1>1, <1>2, EdgeRises, EdgeFalls

(* With the pins, software makes the same clock.                           *)
LEMMA BitHighOK ==
  ASSUME IInv, BitHigh
  PROVE  IInv'
<1>0. PICK n \in Nat : n = Len(reply)
  BY DEF IInv, WireOK
<1>1. /\ todo # <<>> /\ moving \in {"no", "low"} /\ moving' = "high"
      /\ WriteCmd(sd_cs, Bits(Head(todo))[n + 1], TRUE) /\ CardSeesPins
      /\ UNCHANGED <<pc, todo, replies, reply, cmd, buf, result>>
  BY <1>0 DEF BitHigh
<1>2. HelperOK /\ CardOK /\ WireOK /\ Head(todo) \in Names /\ pc # "none"
  BY <1>1, HeadTodo DEF IInv
<1>3. /\ bit_cnt = 0 /\ ~busy /\ sd_clk = FALSE /\ n \in 0 .. BITS - 1 /\ Hears(n)
      /\ inserted => \A k \in 1 .. n : reply[k] = Seen(k)
  <2>1. CASE moving = "no"
    <3>1. heard = <<>> /\ reply = <<>> /\ bit_cnt = 0 /\ sd_clk = FALSE
      BY <1>2, <2>1 DEF IInv, AtRest, HelperOK
    <3>2. n = 0 /\ 0 < BITS
      BY <1>0, <3>1, BitsAssumption
    <3>3. Hears(0)
      BY <3>1 DEF Hears, Begins
    <3> QED  BY <3>1, <3>2, <3>3, BitsAssumption DEF busy
  <2>2. CASE moving = "low"
    <3>1. /\ bit_cnt = 0 /\ ~sd_clk /\ n < BITS
          /\ Hears(Len(reply) + (IF sd_clk THEN 1 ELSE 0))
          /\ inserted => \A k \in 1 .. n : reply[k] = Seen(k)
      BY <1>0, <2>2 DEF IInv, PinsMove
    <3>2. n \in Nat /\ sd_clk = FALSE
      BY <1>2, <3>1 DEF WireOK, HelperOK
    <3>3. Len(reply) + (IF sd_clk THEN 1 ELSE 0) = n
      BY <1>0, <3>1, <3>2
    <3> QED  BY <3>1, <3>2, <3>3, BitsAssumption DEF busy
  <2> QED  BY <1>1, <2>1, <2>2
<1>4. n + 1 \in 1 .. BITS /\ n + 1 \in 0 .. BITS
  BY <1>3, BitsAssumption
<1>5. /\ sd_cs' = sd_cs /\ sd_mosi' = Bits(Head(todo))[n + 1] /\ sd_clk' = TRUE
      /\ UNCHANGED <<sd_tx, sd_rx, bit_cnt>>
  BY <1>1, <1>3 DEF WriteCmd
<1>6. sd_mosi' = Bit(Head(todo), n + 1) /\ sd_mosi' \in Wires
  BY <1>2, <1>4, <1>5, BitsWires, BitWire
<1>7. /\ Hears(n + 1)' /\ CardOK' /\ heard' \in Seq(Wires) /\ (sd_cs' => heard' = <<>>)
      /\ out' = out /\ inserted' = inserted
  <2>1. todo' = todo
    BY <1>1
  <2> QED  BY <1>1, <1>2, <1>3, <1>5, <1>6, <2>1, RiseOK
<1>8. HelperOK'
  BY <1>2, <1>5, <1>6 DEF HelperOK
<1>9. PinsMove'
  <2>1. \A k : Seen(k)' = Seen(k)
    BY <1>5, <1>7 DEF Seen
  <2>2. Len(reply') + (IF sd_clk' THEN 1 ELSE 0) = n + 1 /\ Len(reply') < BITS
    BY <1>0, <1>1, <1>3, <1>5, BitsAssumption
  <2> QED  BY <1>0, <1>1, <1>3, <1>5, <1>7, <2>1, <2>2 DEF PinsMove
<1>10. RepliesOK' /\ TodoOK' /\ PlaceOK' /\ AtRest' /\ HelperMoves' /\ WireOK'
  BY <1>1, <1>2, <1>5, <1>7
  DEF IInv, RepliesOK, TodoOK, PlaceOK, AtRest, HelperMoves, WireOK
<1> QED  BY <1>7, <1>8, <1>9, <1>10 DEF IInv

LEMMA BitLowOK ==
  ASSUME IInv, BitLow
  PROVE  IInv'
<1>0. PICK n \in Nat : n = Len(reply) + 1
  BY DEF IInv, WireOK
<1>1. /\ moving = "high" /\ WriteCmd(sd_cs, sd_mosi, FALSE) /\ CardSeesPins
      /\ UNCHANGED <<pc, cmd, buf, result>>
  BY DEF BitLow
<1>2. HelperOK /\ CardOK /\ WireOK /\ todo # <<>> /\ Head(todo) \in Names /\ pc # "none"
  BY <1>1, HeadTodo DEF IInv, PinsMove
<1>3. /\ bit_cnt = 0 /\ sd_clk = TRUE /\ n \in 1 .. BITS /\ Hears(n)
      /\ inserted => \A k \in 1 .. Len(reply) : reply[k] = Seen(k)
  <2>1. /\ bit_cnt = 0 /\ sd_clk /\ Len(reply) < BITS
        /\ Hears(Len(reply) + (IF sd_clk THEN 1 ELSE 0))
        /\ inserted => \A k \in 1 .. Len(reply) : reply[k] = Seen(k)
    BY <1>1 DEF IInv, PinsMove
  <2>2. Len(reply) + (IF sd_clk THEN 1 ELSE 0) = n
    BY <1>0, <2>1
  <2>3. sd_clk = TRUE
    BY <1>2, <2>1 DEF HelperOK
  <2>4. n \in 1 .. BITS
    BY <1>0, <1>2, <2>1, BitsAssumption DEF WireOK
  <2> QED  BY <2>1, <2>2, <2>3, <2>4
<1>4. sd_cs' = sd_cs /\ sd_mosi' = sd_mosi /\ sd_clk' = FALSE /\ UNCHANGED <<sd_tx, sd_rx, bit_cnt>>
  BY <1>1, <1>3 DEF WriteCmd, busy
<1>5. /\ CardOK' /\ heard' \in Seq(Wires) /\ (sd_cs' => heard' = <<>>)
      /\ inserted' = inserted
      /\ (n < BITS => out' = out /\ heard' = heard)
      /\ (n = BITS => heard' = <<>>)
  <2>1. sd_cs' = sd_cs
    BY <1>4
  <2> QED  BY <1>1, <1>2, <1>3, <1>4, <2>1, FallOK
<1>6. HelperOK'
  BY <1>2, <1>4 DEF HelperOK
<1>7. n \in 0 .. BITS /\ n > 0 /\ n \in 1 .. BITS
  BY <1>3, BitsAssumption
<1>8. miso \in Wires /\ (inserted => miso = Seen(n))
  BY <1>2, <1>3, <1>7, MisoWire, MisoSeen
<1> DEFINE bits == Append(reply, miso)
<1>9. /\ bits \in Seq(Wires) /\ Len(bits) = n
      /\ inserted => \A k \in 1 .. n : bits[k] = Seen(k)
  <2>1. /\ bits \in Seq(Wires) /\ Len(bits) = n /\ bits[n] = miso
        /\ \A k \in 1 .. Len(reply) : bits[k] = reply[k]
    BY <1>0, <1>2, <1>8, AppendProperties DEF WireOK
  <2>2. \A k \in 1 .. n : k = n \/ k \in 1 .. Len(reply)
    BY <1>0, <1>2 DEF WireOK
  <2> HIDE DEF bits
  <2> QED  BY <1>3, <1>8, <2>1, <2>2
<1>10. CASE n = BITS
  <2>1. Transferred(ByteOf(bits))
    BY <1>9, <1>10 DEF BitLow
  <2> HIDE DEF bits
  <2>2. ByteOf(bits) \in Names \cup {"??"} /\ (inserted => ByteOf(bits) # "??")
    BY <1>2, <1>9, <1>10, ByteNames, SeenByte
  <2>3. RepliesOK' /\ TodoOK' /\ PlaceOK' /\ moving' = "no" /\ reply' = <<>>
    BY <1>1, <1>2, <1>4, <1>5, <2>1, <2>2, TransferredOK
  <2>4. WireOK' /\ AtRest' /\ HelperMoves' /\ PinsMove'
    BY <1>3, <1>4, <1>5, <1>10, <2>3 DEF WireOK, AtRest, HelperMoves, PinsMove
  <2> QED  BY <1>5, <1>6, <2>3, <2>4 DEF IInv
<1>11. CASE n # BITS
  <2>1. reply' = bits /\ moving' = "low" /\ UNCHANGED <<todo, replies>>
    BY <1>9, <1>11 DEF BitLow
  <2>2. n < BITS /\ n > 0
    BY <1>3, <1>11, BitsAssumption
  <2>3. Hears(n)'
    BY <1>3, <1>4, <1>5, <2>1, <2>2 DEF Hears, Begins
  <2>4. \A k : Seen(k)' = Seen(k)
    BY <1>4, <1>5, <2>2 DEF Seen
  <2> HIDE DEF bits
  <2>5. PinsMove'
    <3>1. /\ Len(reply') = n /\ reply' # <<>> /\ ~sd_clk' /\ bit_cnt' = 0
          /\ todo' # <<>>
      BY <1>2, <1>3, <1>4, <1>9, <2>1, <2>2
    <3>2. Len(reply') + (IF sd_clk' THEN 1 ELSE 0) = n
      BY <1>7, <3>1
    <3>3. inserted' => \A k \in 1 .. Len(reply') : reply'[k] = Seen(k)'
      BY <1>5, <1>9, <2>1, <2>4, <3>1
    <3> QED  BY <2>1, <2>2, <2>3, <3>1, <3>2, <3>3 DEF PinsMove
  <2>6. RepliesOK' /\ TodoOK' /\ PlaceOK' /\ AtRest' /\ HelperMoves' /\ WireOK'
    BY <1>1, <1>2, <1>4, <1>5, <1>9, <2>1
    DEF IInv, RepliesOK, TodoOK, PlaceOK, AtRest, HelperMoves, WireOK
  <2> QED  BY <1>5, <1>6, <2>5, <2>6 DEF IInv
<1> QED  BY <1>10, <1>11

-----------------------------------------------------------------------------
(* The callers, a reset, and the card by itself.                           *)

LEMMA CallersOK ==
  ASSUME IInv, SdInit \/ SdReadBlock \/ SdWriteBlock
  PROVE  IInv'
<1>1. /\ pc = "none" /\ moving = "no" /\ moving' = moving /\ reply' = reply
      /\ CmdTyped(cmd)
  BY DEF SdInit, SdReadBlock, SdWriteBlock, Enter, IInv, PlaceOK, TodoOK, CmdTyped
<1>2. \A a \in Addresses : AddressArg(a) \in Seq(Names)
  <2>1. \A a \in Addresses : NumberByte[a] \in Names /\ "00" \in Names
    BY MediumAssumption, NamedNames DEF Named
  <2> QED  BY <2>1 DEF AddressArg
<1>3. /\ {"CMD17", "CMD24", "01", "FF"} \subseteq Names /\ <<"FF">> \in Seq(Names)
      /\ Repeat(INIT_BYTES, "FF") \in Seq(Names)
  BY NamedNames, RepeatNames, CardAssumption DEF Named
<1>4. CASE SdInit
  <2>1. /\ WriteCmd(TRUE, Zero, FALSE) /\ CardSeesPins /\ pc' = "init_wake" /\ replies' = <<>>
        /\ todo' = Repeat(INIT_BYTES, "FF") /\ UNCHANGED <<buf, cmd>>
    BY <1>4 DEF SdInit, Enter, Go
  <2>2. /\ HelperOK' /\ CardOK' /\ WireOK' /\ AtRest' /\ HelperMoves' /\ PinsMove'
    BY <1>1, <2>1, ZeroOneWires, RestedOK
  <2>3. TodoOK' /\ PlaceOK' /\ RepliesOK'
    BY <1>1, <1>3, <2>1 DEF TodoOK, CmdTyped, PlaceOK, RepliesOK
  <2> QED  BY <2>2, <2>3 DEF IInv
<1>5. CASE SdReadBlock
  <2>1. PICK a \in Addresses : Call("CMD17", AddressArg(a), "01", <<"FF">>, "read_r1")
    BY <1>5 DEF SdReadBlock
  <2>2. TodoOK' /\ replies' = <<>> /\ Pins(FALSE) /\ Places(FALSE)
    <3>1. "read_r1" \in Returns \ {"none"} /\ "read_r1" # "write_r1"
      BY DEF Returns
    <3>2. "CMD17" \in Names /\ "01" \in Names /\ AddressArg(a) \in Seq(Names)
      BY <1>2, <1>3
    <3> QED  BY <1>3, <2>1, <3>1, <3>2, CallOK
  <2> QED  BY <1>1, <2>2, Proceed, ProceedsOK
<1>6. CASE SdWriteBlock
  <2>1. PICK a \in Addresses, b \in Buffers :
          buf' = b /\ Call("CMD24", AddressArg(a), "01", <<"FF">>, "write_r1")
    BY <1>6 DEF SdWriteBlock, Enter
  <2>2. buf' \in Seq(Names)
    <3>1. b \in Seq(Contents)
      BY CardAssumption
    <3> QED  BY <2>1, <3>1, NamedNames
  <2>3. TodoOK' /\ replies' = <<>> /\ Pins(FALSE) /\ Places(FALSE)
    BY <1>2, <1>3, <2>1, <2>2, CallOK DEF Returns
  <2> QED  BY <1>1, <2>3, Proceed, ProceedsOK
<1> QED  BY <1>4, <1>5, <1>6

LEMMA Unheard ==
  ASSUME IInv, ~Selected
  PROVE  heard = <<>>
<1>1. CASE moving = "no"
  BY <1>1 DEF IInv, AtRest
<1>2. CASE moving = "helper"
  BY <1>2 DEF IInv, HelperMoves, Shifting, Hears, Selected
<1>3. CASE moving \in {"high", "low"}
  BY <1>3 DEF IInv, PinsMove, Hears, Selected
<1> QED  BY <1>1, <1>2, <1>3 DEF IInv, WireOK

LEMMA ResetOK ==
  ASSUME IInv, Reset
  PROVE  IInv'
<1>1. /\ HelperReset /\ CardSeesPins /\ pc' = "none" /\ todo' = <<>> /\ replies' = <<>>
      /\ result' = "reset" /\ moving' = "no" /\ reply' = <<>> /\ buf' = <<>> /\ cmd' = NoCmd
  BY DEF Reset
<1>2. HelperOK' /\ sd_cs' = TRUE /\ sd_clk' = FALSE /\ bit_cnt' = 0
  <2>1. Bits("00") \in Seq(Wires) /\ Len(Bits("00")) = BITS
    BY BitsWires, NamedNames DEF Named
  <2>2. 0 \in 0 .. 2 * BITS
    BY BitsAssumption
  <2> QED  BY <1>1, <2>1, <2>2, ZeroOneWires DEF HelperReset, HelperOK
<1>3. CardOK' /\ heard' = <<>>
  <2>1. CASE ~Selected
    <3>1. UNCHANGED medium
      BY <1>1, <1>2, <2>1 DEF IInv, HelperOK, Selected, CardSeesPins, Fall
    <3> QED  BY <2>1, <3>1, Unheard DEF IInv, CardOK, medium
  <2>2. CASE Selected
    BY <1>1, <1>2, <2>2, DeselectOK DEF IInv, Selected, CardSeesPins, Deselect
  <2> QED  BY <2>1, <2>2
<1>4. TodoOK'
  BY <1>1 DEF TodoOK, NoCmd, Returns
<1>5. PlaceOK' /\ RepliesOK' /\ WireOK' /\ AtRest' /\ HelperMoves' /\ PinsMove'
  BY <1>1, <1>2, <1>3 DEF PlaceOK, RepliesOK, WireOK, AtRest, HelperMoves, PinsMove
<1> QED  BY <1>2, <1>3, <1>4, <1>5 DEF IInv

(* The card goes out, or on with what it is about.                         *)
LEMMA CardAloneOK ==
  ASSUME IInv, Written \/ Initialised \/ PulledOut, UNCHANGED driver
  PROVE  IInv'
<1>1. /\ UNCHANGED helper
      /\ UNCHANGED <<pc, todo, replies, moving, reply, cmd, buf, result>>
  BY DEF Written, Initialised, PulledOut, driver
<1>2. HelperOK' /\ TodoOK' /\ PlaceOK'
  BY <1>1 DEF IInv, HelperOK, TodoOK, PlaceOK, helper
<1>3. CASE Written \/ Initialised
  <2>1. UNCHANGED <<inserted, heard, out, got, store>>
    BY <1>3 DEF Written, Initialised
  <2>2. CardOK'
    <3>1. queue \in Seq(Names)
      BY DEF IInv, CardOK
    <3>2. queue' \in Seq(Names)
      BY <1>3, <3>1 DEF Written, Initialised, Busy
    <3> QED  BY <2>1, <3>2 DEF IInv, CardOK
  <2>3. \A n : (Shifting(n)' <=> Shifting(n)) /\ (Hears(n)' <=> Hears(n))
    BY <1>1, <2>1 DEF Shifting, Hears, Begins, Seen, helper
  <2>4. \A k : Seen(k)' = Seen(k)
    BY <1>1, <2>1 DEF Seen, helper
  <2>5. RepliesOK' /\ WireOK' /\ AtRest' /\ HelperMoves' /\ PinsMove'
    BY <1>1, <2>1, <2>3, <2>4
    DEF IInv, RepliesOK, WireOK, AtRest, HelperMoves, PinsMove, helper
  <2> QED  BY <1>2, <2>2, <2>5 DEF IInv
<1>4. CASE PulledOut
  <2>1. inserted' = FALSE /\ heard' = <<>> /\ out' = "FF" /\ queue' = <<>> /\ got' = <<>>
        /\ store' = store
    BY <1>4 DEF PulledOut
  <2>2. CardOK'
    <3>1. "FF" \in Names /\ <<>> \in Seq(Names)
      BY NamedNames DEF Named
    <3> QED  BY <2>1, <3>1 DEF IInv, CardOK
  <2>3. \A n : Shifting(n) => Shifting(n)'
    BY <1>1, <2>1 DEF Shifting, Hears, helper
  <2>4. \A n : Hears(n)'
    BY <2>1 DEF Hears
  <2>5. RepliesOK' /\ WireOK' /\ AtRest'
    BY <1>1, <2>1 DEF IInv, RepliesOK, WireOK, AtRest, helper
  <2>6. HelperMoves' /\ PinsMove'
    BY <1>1, <2>1, <2>3, <2>4 DEF IInv, HelperMoves, PinsMove, helper
  <2> QED  BY <1>2, <2>2, <2>5, <2>6 DEF IInv
<1> QED  BY <1>3, <1>4

-----------------------------------------------------------------------------
LEMMA InitOK ==
  ASSUME Init
  PROVE  IInv
<1>1. HelperOK
  <2>1. Bits("00") \in Seq(Wires) /\ Len(Bits("00")) = BITS
    BY BitsWires, NamedNames DEF Named
  <2>2. 0 \in 0 .. 2 * BITS
    BY BitsAssumption
  <2> QED  BY <2>1, <2>2, ZeroOneWires DEF Init, HelperStart, HelperOK
<1>2. CardOK
  <2>1. store \in [Block -> Seq(Names)]
    BY MediumAssumption, NamedNames DEF Init, MediumStart
  <2> QED  BY <2>1, NamedNames DEF Init, MediumStart, CardOK, Named
<1>3. WireOK /\ RepliesOK /\ TodoOK /\ PlaceOK /\ AtRest /\ HelperMoves /\ PinsMove
  BY DEF Init, HelperStart, MediumStart, WireOK, RepliesOK, TodoOK, NoCmd, Returns, PlaceOK,
         AtRest, HelperMoves, PinsMove
<1> QED  BY <1>1, <1>2, <1>3 DEF IInv

LEMMA Invariant == Spec => []IInv
<1>1. IInv /\ [Next]_vars => IInv'
  <2> SUFFICES ASSUME IInv, [Next]_vars PROVE IInv'
    OBVIOUS
  <2>1. CASE Transfer
    BY <2>1, StartOK, EndOK, BitHighOK, BitLowOK DEF Transfer
  <2>2. CASE Control
    BY <2>2, CmdProceeds, InitProceeds, BlockProceeds, ProceedsOK DEF Control
  <2>3. CASE Edge
    BY <2>3, EdgeOK
  <2>4. CASE CardItself /\ UNCHANGED driver
    BY <2>4, CardAloneOK DEF CardItself
  <2>5. CASE PulledOut /\ UNCHANGED driver
    BY <2>5, CardAloneOK
  <2>6. CASE SdInit \/ SdReadBlock \/ SdWriteBlock
    BY <2>6, CallersOK
  <2>7. CASE Reset
    BY <2>7, ResetOK
  <2>8. CASE ToggleSpi \/ UNCHANGED vars
    <3>1. UNCHANGED <<helper, medium, pc, todo, replies, moving, reply, cmd, buf, result>>
      BY <2>8 DEF ToggleSpi, vars, driver
    <3>2. \A n : (Shifting(n)' <=> Shifting(n)) /\ (Hears(n)' <=> Hears(n))
      BY <3>1 DEF Shifting, Hears, Begins, Seen, helper, medium
    <3>3. \A k : Seen(k)' = Seen(k)
      BY <3>1 DEF Seen, helper, medium
    <3>4. HelperOK' /\ CardOK' /\ WireOK' /\ RepliesOK' /\ TodoOK' /\ PlaceOK' /\ AtRest'
      BY <3>1 DEF IInv, HelperOK, CardOK, WireOK, RepliesOK, TodoOK, PlaceOK, AtRest, helper, medium
    <3>5. HelperMoves' /\ PinsMove'
      BY <3>1, <3>2, <3>3 DEF IInv, HelperMoves, PinsMove, helper, medium
    <3> QED  BY <3>4, <3>5 DEF IInv
  <2> QED  BY <2>1, <2>2, <2>3, <2>4, <2>5, <2>6, <2>7, <2>8 DEF Next, Software, Environment
<1> QED  BY <1>1, InitOK, PTL DEF Spec

(* Whichever way bytes are moved, and however the mode was switched, the   *)
(* driver and a card that is selected agree where a byte begins; software  *)
(* finds the helper idle when it uses its pins (sd_spi_helper.v:74), and a *)
(* call that succeeds lets go of the card (sd_card_cgpt.c:205).            *)
THEOREM InStepAlways == Spec => []InStep
<1>1. IInv => InStep
  <2> SUFFICES ASSUME IInv PROVE InStep
    OBVIOUS
  <2>1. \A k \in 1 .. Len(got) : got[k] # "??"
    BY NamedNames DEF IInv, CardOK
  <2> QED  BY <2>1 DEF IInv, AtRest, RepliesOK, PlaceOK, InStep, busy
<1> QED  BY <1>1, Invariant, PTL

-----------------------------------------------------------------------------
(* The bytes of a transfer.  left has those the card has not seen, came    *)
(* the replies there are, the one included that the helper still holds.    *)

Done == moving = "helper" /\ bit_cnt = 0
left == IF Done THEN Tail(todo) ELSE todo
came == IF Done THEN Append(replies, ByteOf(sd_rx)) ELSE replies

(* The k-th byte the card is going to put out if no command comes.         *)
Place == Nat \ {0}
Comes(k) == IF k = 1 THEN out
            ELSE IF k - 1 <= Len(queue) THEN queue[k - 1] ELSE "FF"
Calm == \A k \in 1 .. Len(queue) : queue[k] # "busy"
Silent(m) == Calm /\ \A k \in Place : k > m => Comes(k) = "FF"
Quiet == Silent(0)

(* It is busy, or has just been, or has nothing to say.                    *)
Dull == Quiet \/ (out = "00" /\ queue \in {<<>>, <<"busy">>})
Expecting == expect = "command" /\ got = <<>>
Rested == Expecting /\ out = "FF" /\ queue \in {<<>>, <<"busy">>}

(* Nothing but idle bytes are left to send.                                *)
Filling == \A k \in 1 .. Len(left) : left[k] = "FF"

(* What a block may hold.                                                  *)
Whole(bytes) == bytes \in Seq(Contents) /\ Len(bytes) = BLOCK
Wrote == /\ target \in Block /\ (kind = "hc" => target = addr)
         /\ store = [before EXCEPT ![target] = buf]

(* What sd_cmd was called with.                                            *)
Orders ==
  /\ cmd.next \in Returns \ {"none"}
  /\ cmd.next = "init_reset" => cmd.frame = Frame("CMD0", NoArg, "95")
  /\ cmd.next = "init_check" => cmd.frame = Frame("CMD8", <<"00", "00", "01", "AA">>, "87")
  /\ cmd.next = "init_app" => cmd.frame = Frame("CMD55", NoArg, "01")
  /\ cmd.next = "init_opcond" => cmd.frame = Frame("CMD41", <<"40", "00", "00", "00">>, "01")
  /\ cmd.next = "init_length" => cmd.frame = Frame("CMD16", <<"00", "00", "02", "00">>, "01")
  /\ cmd.next = "read_r1" => cmd.frame = Frame("CMD17", AddressArg(addr), "01")
  /\ cmd.next = "write_r1" => cmd.frame = Frame("CMD24", AddressArg(addr), "01")
Trailed == cmd.trail = IF cmd.next = "init_check" THEN <<>> ELSE <<"FF">>

(* What is known of the card when a command is sent, ...                   *)
Before ==
  /\ cmd.next = "init_reset" => (state = "power" => clocks >= WAKE)
  /\ cmd.next = "init_check" => state = "idle" /\ ~opcond
  /\ cmd.next \in {"init_app", "init_opcond"} => state # "power" /\ kind # "old"
  /\ cmd.next = "init_opcond" => app
  /\ cmd.next = "init_length" => state = "ready" /\ kind # "old"

(* ... when it answers v, ...                                              *)
Answered(v) ==
  /\ IsR1(v)
  /\ cmd.next = "init_reset" => v = "01" /\ state = "idle" /\ ~opcond
  /\ cmd.next = "init_check" =>
       IF kind = "old" THEN v # "01" ELSE v = "01" /\ state = "idle" /\ ~opcond
  /\ cmd.next \in {"init_app", "init_opcond"} => state # "power" /\ kind # "old"
  /\ cmd.next = "init_app" => app
  /\ cmd.next = "init_opcond" => (v = "00" => state = "ready")
  /\ cmd.next = "init_length" => v = "00" /\ state = "ready" /\ kind # "old"
  /\ IF cmd.next = "write_r1" /\ v = "00"
     THEN expect = "token" /\ target \in Block /\ (kind = "hc" => target = addr)
     ELSE Expecting

(* ... and of what follows m bytes later.                                  *)
Echo == <<"00", "00", "01", "AA">>
Barren(m) == \A k \in Place : k > m => Comes(k) # "FE"
Sends(m, b) == \A k \in 1 .. BLOCK : Comes(m + k) = store[b][k]
Brings(m, n, b) ==
  /\ b \in Block /\ (kind = "hc" => b = addr)
  /\ \A k \in 1 .. n : Comes(m + k) = "FF"
  /\ Comes(m + n + 1) = "FE" /\ Sends(m + n + 1, b)
Follows(m, v) ==
  IF cmd.next = "init_check" /\ v = "01"
  THEN Silent(m + 4) /\ \A k \in 1 .. 4 : Comes(m + k) = Echo[k]
  ELSE IF cmd.next = "read_r1" /\ v = "00"
  THEN Calm /\ (Barren(m) \/ \E n \in Place, b \in Block : Brings(m, n, b))
  ELSE Silent(m)

Awaited(m, v) ==
  /\ Calm /\ Answered(v) /\ Follows(m + 1, v)
  /\ Comes(m + 1) = v /\ \A k \in 1 .. m : Comes(k) = "FF"

-----------------------------------------------------------------------------
(* Where driver and card stand at each place of the driver.                *)

InitLabels == {"init_wake", "init_reset", "init_check", "init_echo", "init_app",
               "init_opcond", "init_length"}
ReadLabels == {"read_r1", "read_token", "read_data"}
WriteLabels == {"write_r1", "write_resp", "write_busy"}
label == IF pc \in {"cmd_busy", "cmd_r1"} THEN cmd.next ELSE pc
CallOf == /\ label \in InitLabels \cup ReadLabels \cup WriteLabels \cup {"none", "end"}
          /\ label \in InitLabels => fn = "sd_init"
          /\ label \in ReadLabels => fn = "sd_read_block" /\ addr \in Addresses
          /\ label \in WriteLabels => fn = "sd_write_block" /\ addr \in Addresses /\ Whole(buf)
          /\ label = "end" => fn \in {"sd_read_block", "sd_write_block"}
          /\ pc \notin {"none", "init_wake", "end"} => ~sd_cs
          /\ pc \notin {"none", "end", "write_resp", "write_busy"} => store = before

AtNone == pc = "none" =>
  /\ ~sd_cs => Quiet /\ Expecting
  /\ fn = "sd_init" => (result = "0" <=> kind # "old") /\ (result = "0" => state = "ready")
  /\ Returned("sd_read_block", "0") => (kind = "hc" => buf = store[addr])
  /\ Returned("sd_write_block", "0") => Wrote
  /\ ~Returned("sd_write_block", "0") /\ result # "reset" => store = before

AtBusy == pc = "cmd_busy" =>
  /\ Orders /\ Trailed /\ Before /\ Expecting /\ Dull /\ Filling
  /\ IF came = <<>> THEN left # <<>> ELSE Last(came) = "FF" => Quiet

Sending ==
  /\ Orders /\ Before /\ Quiet /\ expect = "command" /\ i = 1
  /\ Len(got) <= 5 /\ Len(got) + Len(left) = 7
  /\ \A k \in 1 .. Len(got) : got[k] = cmd.frame[k]
  /\ \A k \in 1 .. Len(left) : left[k] = Append(cmd.frame, "FF")[Len(got) + k]

Polling ==
  /\ Filling /\ Len(left) <= 1 /\ i \in Nat
  /\ IF left # <<>>
     THEN \E m \in Nat, v \in Names : m + i <= R1_LIMIT /\ Awaited(m, v)
     ELSE \/ Last(came) = "FF" /\ \E m \in Nat, v \in Names : m + i < R1_LIMIT /\ Awaited(m, v)
          \/ Answered(Last(came)) /\ Follows(0, Last(came))

(* Of a card that is not there yet nothing comes; sd_init does not ask it. *)
Unanswered ==
  /\ cmd.next \in {"read_r1", "write_r1"}
  /\ Quiet /\ Expecting /\ Filling /\ Len(left) <= 1
  /\ left = <<>> => Last(came) = "FF"

AtR1 == pc = "cmd_r1" => Trailed /\ (Sending \/ Polling \/ Unanswered)

AtReply ==
  /\ pc \in {"init_reset", "init_app", "init_opcond", "init_length"} =>
       cmd.next = pc /\ Answered(r) /\ Quiet /\ Filling
  /\ pc = "init_check" =>
       cmd.next = pc /\ Answered(r) /\ Follows(0, r) /\ left = <<>>

AtEcho == pc = "init_echo" =>
  /\ kind # "old" /\ state = "idle" /\ ~opcond /\ Expecting /\ Filling
  /\ Len(came) + Len(left) = 4 /\ Silent(4 - Len(came))
  /\ \A k \in 1 .. 4 : Echo[k] = IF k <= Len(came) THEN came[k] ELSE Comes(k - Len(came))

AtRead ==
  /\ pc = "read_r1" =>
       /\ Expecting /\ Filling /\ Len(left) <= 1
       /\ r = "00" => /\ Calm
                      /\ \/ Barren(0)
                         \/ \E n \in Nat, b \in Block : Brings(0, n, b) /\ (left # <<>> => n > 0)
  /\ pc = "read_token" =>
       /\ Expecting /\ Filling /\ Len(left) <= 1 /\ Calm
       /\ left = <<>> => came # <<>>
       /\ IF left = <<>> /\ Last(came) = "FE"
          THEN \E b \in Block : (kind = "hc" => b = addr) /\ Sends(0, b)
          ELSE Barren(0) \/ \E n \in Nat, b \in Block : Brings(0, n, b)
  /\ pc = "read_data" =>
       /\ Expecting /\ Filling /\ Len(came) + Len(left) = BLOCK + 2 /\ Calm
       /\ \E b \in Block :
            /\ kind = "hc" => b = addr
            /\ \A k \in 1 .. BLOCK :
                 store[b][k] = IF k <= Len(came) THEN came[k] ELSE Comes(k - Len(came))

(* The bytes of a block with what goes before and after it, and how many   *)
(* of them the card has.                                                   *)
Row == <<"FF", "FE">> \o buf \o <<"FF", "FF", "FF">>
AtWrite ==
  /\ pc = "write_r1" =>
       /\ Filling /\ (Expecting \/ expect = "token")
       /\ r = "00" => /\ expect = "token" /\ Quiet
                      /\ target \in Block /\ (kind = "hc" => target = addr)
  /\ pc = "write_resp" =>
       LET p == Len(came) IN
       /\ p + Len(left) = BLOCK + 5
       /\ \A k \in 1 .. Len(left) : left[k] = Row[p + k]
       /\ target \in Block /\ (kind = "hc" => target = addr)
       /\ p < BLOCK + 4 => Quiet /\ store = before
       /\ p < 2 => expect = "token"
       /\ p \in 2 .. BLOCK + 3 =>
            expect = "data" /\ Len(got) = p - 2 /\ \A k \in 1 .. p - 2 : got[k] = Row[k + 2]
       /\ p = BLOCK + 4 =>
            /\ Expecting
            /\ \/ out = "05" /\ queue \in {<<>>, <<"busy">>} /\ Wrote
               \/ out = "0D" /\ queue = <<>> /\ store = before
       /\ p = BLOCK + 5 =>
            /\ Expecting
            /\ \/ Last(came) = "05" /\ Dull /\ Wrote
               \/ Last(came) = "0D" /\ store = before
  /\ pc = "write_busy" => Expecting /\ Filling /\ Dull /\ Wrote

AtEnd == pc = "end" =>
  /\ sd_cs
  /\ fn = "sd_read_block" => store = before /\ (kind = "hc" => buf = store[addr])
  /\ fn = "sd_write_block" => Wrote

CardTyped == /\ state \in {"power", "idle", "ready"} /\ clocks \in Nat
             /\ \A b \in Block : Whole(store[b])
             /\ sd_cs => Rested

Talk == inserted =>
  CardTyped /\ CallOf /\ AtNone /\ AtBusy /\ AtR1 /\ AtReply /\ AtEcho /\ AtRead /\ AtWrite /\ AtEnd

(* Twice the clocks of the byte that is moving.                            *)
Tick == IF sd_clk THEN 1 ELSE 0
Clocked == IF moving = "helper" THEN 2 * BITS - bit_cnt + Tick
           ELSE IF moving = "no" THEN 0 ELSE 2 * (Len(reply) + Tick)
Wakes == pc = "init_wake" /\ inserted =>
           sd_cs /\ (clocks >= WAKE \/ 2 * clocks + 2 * (BITS * Len(todo)) - Clocked >= 2 * WAKE)
BInv == Talk /\ Wakes

-----------------------------------------------------------------------------
(* A step of a transfer moves a byte between driver and card, or none.     *)

line == <<state, out, queue, expect, got, app, opcond, target, store>>
call == <<fn, addr, buf, pc, cmd, i, result, before>>

Stays == UNCHANGED <<line, call, left, came, kind, inserted, sd_cs>>
Exchanges ==
  /\ left # <<>> /\ left' = Tail(left)
  /\ came' = Append(came, IF sd_cs THEN "FF" ELSE out)
  /\ IF sd_cs THEN UNCHANGED line ELSE TakeByte(Head(left))
  /\ UNCHANGED <<call, kind, inserted, sd_cs>>

(* The clocks that a waking card will have had when todo is through.       *)
Coming == 2 * clocks + 2 * (BITS * Len(todo)) - Clocked
Ticks == /\ clocks' \in Nat /\ (clocks >= WAKE => clocks' >= WAKE)
         /\ sd_cs => \/ clocks' >= WAKE
                     \/ Coming \in Int /\ Coming' \in Int /\ Coming' >= Coming

LEMMA Product ==
  ASSUME NEW n \in Nat, n > 0
  PROVE  BITS * n \in Nat /\ BITS * (n - 1) = BITS * n - BITS
  BY BitsAssumption

LEMMA RiseKeeps ==
  ASSUME HelperOK, inserted, ~sd_clk, sd_clk' = TRUE, sd_cs' = sd_cs, CardSeesPins
  PROVE  /\ UNCHANGED <<line, kind, inserted>>
         /\ clocks' = IF ~sd_cs THEN clocks ELSE IF clocks < WAKE THEN clocks + 1 ELSE WAKE
<1>1. Rise
  BY DEF CardSeesPins, HelperOK
<1> QED  BY <1>1 DEF Rise, line

LEMMA FallTakes ==
  ASSUME HelperOK, WireOK, inserted, NEW n \in 1 .. BITS, Hears(n), Head(todo) \in Names,
         sd_clk = TRUE, sd_clk' = FALSE, sd_cs' = sd_cs, CardSeesPins
  PROVE  /\ UNCHANGED <<kind, inserted, clocks>>
         /\ IF ~sd_cs /\ n = BITS THEN TakeByte(Head(todo)) ELSE UNCHANGED line
<1>1. Fall
  BY DEF CardSeesPins
<1>2. CASE sd_cs
  BY <1>1, <1>2 DEF Fall, medium, line
<1>3. CASE ~sd_cs
  <2>1. Begins(heard, Head(todo), n) /\ Len(heard) = n
    BY <1>3 DEF Hears, Begins
  <2>2. CASE n = BITS
    <3>1. ByteOf(heard) = Head(todo)
      BY <2>1, <2>2, WholeByte DEF WireOK
    <3> QED  BY <1>1, <1>3, <2>1, <2>2, <3>1 DEF Fall
  <2>3. CASE n # BITS
    BY <1>1, <1>3, <2>1, <2>3 DEF Fall, medium, line
  <2> QED  BY <2>2, <2>3
<1> QED  BY <1>2, <1>3

LEMMA StartStays ==
  ASSUME IInv, inserted, clocks \in Nat, StartTransfer
  PROVE  Stays /\ Ticks
<1>1. /\ todo # <<>> /\ moving = "no" /\ moving' = "helper" /\ WriteTx(Head(todo))
      /\ UNCHANGED <<medium, call, todo, replies, reply>>
  BY DEF StartTransfer, call
<1>2. sd_clk = FALSE /\ bit_cnt = 0 /\ ~busy
  BY <1>1 DEF IInv, AtRest, HelperOK, busy
<1>3. bit_cnt' = 2 * BITS /\ UNCHANGED <<sd_clk, sd_cs>>
  BY <1>1, <1>2 DEF WriteTx
<1>4. ~Done /\ ~Done' /\ 2 * BITS \in Nat
  BY <1>1, <1>3, BitsAssumption DEF Done
<1>5. UNCHANGED <<left, came>>
  BY <1>1, <1>4 DEF left, came
<1>6. Stays
  BY <1>1, <1>3, <1>5 DEF Stays, medium, line
<1>7. Clocked = 0 /\ Clocked' = 0
  BY <1>1, <1>2, <1>3, <1>4 DEF Clocked, Tick
<1>8. clocks' = clocks /\ Len(todo') = Len(todo) /\ Coming' = Coming
  BY <1>1, <1>7 DEF Coming, medium
<1>9. Len(todo) \in Nat /\ BITS * Len(todo) \in Nat
  BY BitsAssumption DEF IInv, TodoOK
<1>10. Coming \in Int
  BY <1>7, <1>9 DEF Coming
<1> QED  BY <1>6, <1>8, <1>10 DEF Ticks

LEMMA EndStays ==
  ASSUME IInv, inserted, clocks \in Nat, EndTransfer
  PROVE  Stays /\ Ticks
<1>1. /\ moving = "helper" /\ bit_cnt = 0 /\ Transferred(ByteOf(sd_rx))
      /\ UNCHANGED <<helper, medium, call>>
  BY DEF EndTransfer, HelperDone, busy, IInv, HelperOK, call
<1>2. PICK n \in 0 .. BITS : Shifting(n)
  BY <1>1 DEF IInv, HelperMoves
<1>3. sd_clk = FALSE /\ todo # <<>>
  BY <1>1, <1>2, BitsAssumption DEF Shifting, IInv, HelperOK, HelperMoves
<1>4. /\ replies' = Append(replies, ByteOf(sd_rx)) /\ todo' = Tail(todo) /\ moving' = "no"
  BY <1>1 DEF Transferred
<1>5. Done /\ ~Done'
  BY <1>1, <1>4 DEF Done
<1>6. UNCHANGED <<left, came>>
  BY <1>4, <1>5 DEF left, came
<1>7. Stays
  BY <1>1, <1>6 DEF Stays, medium, line, helper
<1>8. Clocked = 2 * BITS /\ Clocked' = 0
  BY <1>1, <1>3, <1>4, BitsAssumption DEF Clocked, Tick
<1>9. PICK l \in Nat : l = Len(todo) /\ l > 0 /\ Len(todo') = l - 1
  BY <1>3, <1>4 DEF IInv, TodoOK
<1>10. clocks' = clocks
  BY <1>1 DEF medium
<1>11. Coming' = Coming /\ Coming \in Int
  BY <1>8, <1>9, <1>10, Product, BitsAssumption DEF Coming
<1> QED  BY <1>7, <1>10, <1>11 DEF Ticks

LEMMA BitHighStays ==
  ASSUME IInv, inserted, clocks \in Nat, BitHigh
  PROVE  Stays /\ Ticks
<1>0. PICK n \in Nat : n = Len(reply)
  BY DEF IInv, WireOK
<1>1. /\ todo # <<>> /\ moving \in {"no", "low"} /\ moving' = "high"
      /\ WriteCmd(sd_cs, Bits(Head(todo))[n + 1], TRUE) /\ CardSeesPins
      /\ UNCHANGED <<call, todo, replies, reply>>
  BY <1>0 DEF BitHigh, call
<1>2. ~sd_clk /\ bit_cnt = 0 /\ (moving = "no" => n = 0)
  BY <1>0, <1>1 DEF IInv, AtRest, PinsMove
<1>3. sd_cs' = sd_cs /\ sd_clk' = TRUE
  BY <1>1, <1>2 DEF WriteCmd, busy
<1>4. /\ UNCHANGED <<line, kind, inserted>>
      /\ clocks' = IF ~sd_cs THEN clocks ELSE IF clocks < WAKE THEN clocks + 1 ELSE WAKE
  BY <1>1, <1>2, <1>3, RiseKeeps DEF IInv
<1>5. UNCHANGED <<left, came>>
  BY <1>1 DEF left, came, Done
<1>6. Stays
  BY <1>1, <1>3, <1>4, <1>5 DEF Stays
<1>7. Clocked = 2 * n /\ Clocked' = 2 * n + 2
  BY <1>0, <1>1, <1>2, <1>3 DEF Clocked, Tick
<1>8. BITS * Len(todo) \in Nat /\ todo' = todo
  BY <1>1, BitsAssumption DEF IInv, TodoOK
<1>9. clocks' \in Nat /\ (clocks >= WAKE => clocks' >= WAKE)
  BY <1>4, MediumAssumption
<1>10. sd_cs => clocks' >= WAKE \/ clocks' = clocks + 1
  BY <1>4, MediumAssumption
<1>11. PICK p \in Nat : p = BITS * Len(todo) /\ BITS * Len(todo') = p
  BY <1>8
<1>12. clocks' = clocks + 1 => Coming \in Int /\ Coming' \in Int /\ Coming' >= Coming
  BY <1>7, <1>11 DEF Coming
<1> QED  BY <1>6, <1>9, <1>10, <1>12 DEF Ticks

LEMMA BitLowMoves ==
  ASSUME IInv, inserted, clocks \in Nat, BitLow
  PROVE  (Stays \/ Exchanges) /\ Ticks
<1>0. PICK n \in Nat : n = Len(reply) + 1
  BY DEF IInv, WireOK
<1>1. /\ moving = "high" /\ WriteCmd(sd_cs, sd_mosi, FALSE) /\ CardSeesPins
      /\ UNCHANGED call
  BY DEF BitLow, call
<1>2. HelperOK /\ CardOK /\ WireOK /\ todo # <<>> /\ Head(todo) \in Names
  BY <1>1, HeadTodo DEF IInv, PinsMove
<1>3. /\ bit_cnt = 0 /\ sd_clk = TRUE /\ n \in 1 .. BITS /\ Hears(n)
      /\ \A k \in 1 .. Len(reply) : reply[k] = Seen(k)
  <2>1. /\ bit_cnt = 0 /\ sd_clk /\ Len(reply) < BITS
        /\ Hears(Len(reply) + (IF sd_clk THEN 1 ELSE 0))
        /\ \A k \in 1 .. Len(reply) : reply[k] = Seen(k)
    BY <1>1 DEF IInv, PinsMove
  <2>2. Len(reply) + (IF sd_clk THEN 1 ELSE 0) = n
    BY <1>0, <2>1
  <2>3. sd_clk = TRUE
    BY <1>2, <2>1 DEF HelperOK
  <2>4. n \in 1 .. BITS
    BY <1>0, <1>2, <2>1, BitsAssumption DEF WireOK
  <2> QED  BY <2>1, <2>2, <2>3, <2>4
<1>4. sd_cs' = sd_cs /\ sd_clk' = FALSE /\ UNCHANGED bit_cnt
  BY <1>1, <1>3 DEF WriteCmd, busy
<1>5. /\ UNCHANGED <<kind, inserted, clocks>>
      /\ IF ~sd_cs /\ n = BITS THEN TakeByte(Head(todo)) ELSE UNCHANGED line
  BY <1>1, <1>2, <1>3, <1>4, FallTakes
<1>6. n \in 0 .. BITS /\ n > 0 /\ n \in 1 .. BITS
  BY <1>3, BitsAssumption
<1>7. miso \in Wires /\ miso = Seen(n)
  BY <1>2, <1>3, <1>6, MisoWire, MisoSeen
<1> DEFINE bits == Append(reply, miso)
<1>8. /\ bits \in Seq(Wires) /\ Len(bits) = n
      /\ \A k \in 1 .. n : bits[k] = Seen(k)
  <2>1. /\ bits \in Seq(Wires) /\ Len(bits) = n /\ bits[n] = miso
        /\ \A k \in 1 .. Len(reply) : bits[k] = reply[k]
    BY <1>0, <1>2, <1>7, AppendProperties DEF WireOK
  <2>2. \A k \in 1 .. n : k = n \/ k \in 1 .. Len(reply)
    BY <1>0, <1>2 DEF WireOK
  <2> HIDE DEF bits
  <2> QED  BY <1>3, <1>7, <2>1, <2>2
<1>9. ~Done /\ left = todo /\ came = replies /\ Clocked = 2 * n
  BY <1>0, <1>1, <1>2, <1>3 DEF Done, left, came, Clocked, Tick, WireOK
<1>10. PICK l \in Nat : l = Len(todo) /\ l > 0
  BY <1>2 DEF IInv, TodoOK
<1>11. CASE n = BITS
  <2>1. Transferred(ByteOf(bits))
    BY <1>8, <1>11 DEF BitLow
  <2> HIDE DEF bits
  <2>2. ByteOf(bits) = IF sd_cs THEN "FF" ELSE out
    BY <1>2, <1>8, <1>11, SeenByte
  <2>3. /\ replies' = Append(replies, IF sd_cs THEN "FF" ELSE out)
        /\ todo' = Tail(todo) /\ moving' = "no"
    BY <2>1, <2>2 DEF Transferred
  <2>4. left' = Tail(todo) /\ came' = replies' /\ Clocked' = 0
    BY <2>3 DEF left, came, Done, Clocked
  <2>5. Exchanges
    BY <1>1, <1>2, <1>4, <1>5, <1>9, <1>11, <2>3, <2>4 DEF Exchanges
  <2>6. Len(todo') = l - 1
    BY <1>2, <1>10, <2>3 DEF IInv, TodoOK
  <2>7. Coming' = Coming /\ Coming \in Int
    BY <1>5, <1>9, <1>10, <1>11, <2>4, <2>6, Product, BitsAssumption DEF Coming
  <2> QED  BY <1>5, <2>5, <2>7 DEF Ticks
<1>12. CASE n # BITS
  <2>1. reply' = bits /\ moving' = "low" /\ UNCHANGED <<todo, replies>>
    BY <1>8, <1>12 DEF BitLow
  <2>2. left' = todo /\ came' = replies /\ Clocked' = 2 * n
    BY <1>4, <1>8, <2>1 DEF left, came, Done, Clocked, Tick
  <2>3. Stays
    BY <1>1, <1>4, <1>5, <1>9, <1>12, <2>2 DEF Stays
  <2>4. BITS * l \in Nat /\ Len(todo') = l
    BY <1>10, <2>1, BitsAssumption
  <2>5. Coming' = Coming /\ Coming \in Int
    BY <1>5, <1>9, <1>10, <2>2, <2>4 DEF Coming
  <2> QED  BY <1>5, <2>3, <2>5 DEF Ticks
<1> QED  BY <1>11, <1>12

LEMMA EdgeMoves ==
  ASSUME IInv, inserted, clocks \in Nat, Edge
  PROVE  (Stays \/ Exchanges) /\ Ticks
<1>1. moving = "helper"
  BY DEF Edge, HelperEdge, busy, IInv, WireOK, AtRest, PinsMove
<1>2. PICK n \in 0 .. BITS : Shifting(n)
  BY <1>1 DEF IInv, HelperMoves
<1>3. /\ bit_cnt > 0 /\ bit_cnt \in Nat /\ sd_clk' = ~sd_clk /\ bit_cnt' = bit_cnt - 1
      /\ sd_cs' = sd_cs /\ CardSeesPins /\ UNCHANGED <<call, todo, replies, moving, reply>>
  BY DEF Edge, HelperEdge, IInv, HelperOK, busy, driver, call
<1>4. todo # <<>> /\ Head(todo) \in Names /\ HelperOK /\ CardOK /\ WireOK
  BY <1>1, HeadTodo DEF IInv, HelperMoves
<1>5. ~Done /\ left = todo /\ came = replies
  BY <1>3 DEF Done, left, came
<1>6. PICK l \in Nat : l = Len(todo) /\ Len(todo') = l /\ BITS * l \in Nat
  BY <1>3, BitsAssumption DEF IInv, TodoOK
<1>7. CASE sd_clk = FALSE
  <2>1. /\ UNCHANGED <<line, kind, inserted>>
        /\ clocks' = IF ~sd_cs THEN clocks ELSE IF clocks < WAKE THEN clocks + 1 ELSE WAKE
    BY <1>3, <1>4, <1>7, RiseKeeps
  <2>2. bit_cnt = 2 * (BITS - n)
    BY <1>2, <1>7, BitsAssumption DEF Shifting
  <2>3. bit_cnt' # 0
    BY <1>3, <2>2, BitsAssumption
  <2>4. left' = todo /\ came' = replies
    BY <1>3, <2>3 DEF left, came, Done
  <2>5. Stays
    BY <1>3, <1>5, <2>1, <2>4 DEF Stays
  <2>6. Clocked = 2 * BITS - bit_cnt /\ Clocked' = Clocked + 2
    <3>1. sd_clk' = TRUE
      BY <1>3, <1>7
    <3>2. Tick = 0 /\ Tick' = 1
      BY <1>7, <3>1 DEF Tick
    <3> QED  BY <1>1, <1>3, <3>2, BitsAssumption DEF Clocked
  <2>7. clocks' \in Nat /\ (clocks >= WAKE => clocks' >= WAKE)
        /\ (sd_cs => clocks' >= WAKE \/ clocks' = clocks + 1)
    BY <2>1, MediumAssumption
  <2>8. clocks' = clocks + 1 => Coming \in Int /\ Coming' \in Int /\ Coming' >= Coming
    BY <1>3, <1>6, <2>6, BitsAssumption DEF Coming
  <2> QED  BY <2>5, <2>7, <2>8 DEF Ticks
<1>8. CASE sd_clk = TRUE
  <2>1. n \in 1 .. BITS /\ bit_cnt = 2 * (BITS - n) + 1 /\ Hears(n)
        /\ \A k \in 1 .. n : sd_rx[BITS - n + k] = Seen(k)
    BY <1>2, <1>8, BitsAssumption DEF Shifting
  <2>2. /\ UNCHANGED <<kind, inserted, clocks>>
        /\ IF ~sd_cs /\ n = BITS THEN TakeByte(Head(todo)) ELSE UNCHANGED line
    BY <1>3, <1>4, <1>8, <2>1, FallTakes
  <2>3. Clocked' = Clocked /\ Clocked \in Int
    <3>1. sd_clk' = FALSE
      BY <1>3, <1>8
    <3>2. Tick = 1 /\ Tick' = 0
      BY <1>8, <3>1 DEF Tick
    <3> QED  BY <1>1, <1>3, <3>2, BitsAssumption DEF Clocked
  <2>4. Coming' = Coming /\ Coming \in Int
    BY <1>6, <2>2, <2>3 DEF Coming
  <2>5. Ticks
    BY <2>2, <2>4 DEF Ticks
  <2>6. CASE n = BITS
    <3>1. Done' /\ sd_rx' = sd_rx
      BY <1>1, <1>3, <1>8, <2>1, <2>6 DEF Done, Edge, HelperEdge
    <3>2. ByteOf(sd_rx) = IF sd_cs THEN "FF" ELSE out
      BY <1>4, <2>1, <2>6, SeenByte, BitsAssumption DEF HelperOK
    <3>3. left' = Tail(todo) /\ came' = Append(replies, IF sd_cs THEN "FF" ELSE out)
      BY <1>3, <3>1, <3>2 DEF left, came
    <3>4. Exchanges
      BY <1>3, <1>4, <1>5, <2>2, <2>6, <3>3 DEF Exchanges
    <3> QED  BY <2>5, <3>4
  <2>7. CASE n # BITS
    <3>1. bit_cnt' # 0
      BY <1>3, <2>1, <2>7, BitsAssumption
    <3>2. left' = todo /\ came' = replies
      BY <1>3, <3>1 DEF left, came, Done
    <3> QED  BY <1>3, <1>5, <2>2, <2>5, <2>7, <3>2 DEF Stays
  <2> QED  BY <2>6, <2>7
<1> QED  BY <1>4, <1>7, <1>8 DEF HelperOK

LEMMA TransferMoves ==
  ASSUME IInv, inserted, clocks \in Nat, Transfer \/ Edge
  PROVE  (Stays \/ Exchanges) /\ Ticks
BY StartStays, EndStays, BitHighStays, BitLowMoves, EdgeMoves DEF Transfer

-----------------------------------------------------------------------------
(* What the card is going to put out.                                      *)

Shifts == Calm' /\ \A k \in Place : Comes(k)' = Comes(k + 1)

LEMMA RowOut ==
  ASSUME NEW row \in Seq(Names), \A k \in 1 .. Len(row) : row[k] # "busy", PutOut(row)
  PROVE  Calm' /\ \A k \in Place : Comes(k)' = IF k <= Len(row) THEN row[k] ELSE "FF"
<1>1. CASE row = <<>>
  BY <1>1 DEF PutOut, Calm, Comes, Place
<1>2. CASE row # <<>>
  <2>1. Len(row) \in Nat /\ Len(row) > 0 /\ Head(row) = row[1]
    BY <1>2
  <2>2. out' = row[1] /\ queue' = Tail(row)
    BY <1>2, <2>1 DEF PutOut
  <2>3. Len(queue') = Len(row) - 1 /\ \A k \in 1 .. Len(row) - 1 : queue'[k] = row[k + 1]
    BY <1>2, <2>2
  <2>4. Calm'
    BY <2>1, <2>3 DEF Calm
  <2>5. ASSUME NEW k \in Place
        PROVE  Comes(k)' = IF k <= Len(row) THEN row[k] ELSE "FF"
    <3>1. CASE k = 1
      BY <2>1, <2>2, <3>1 DEF Comes
    <3>2. CASE k # 1 /\ k <= Len(row)
      <4>1. k - 1 \in 1 .. Len(row) - 1 /\ (k - 1) + 1 = k
        BY <2>1, <3>2 DEF Place
      <4>2. queue'[k - 1] = row[k]
        BY <2>3, <4>1
      <4> QED  BY <2>3, <3>2, <4>1, <4>2 DEF Comes
    <3>3. CASE ~(k <= Len(row))
      BY <2>1, <2>3, <3>3 DEF Comes, Place
    <3> QED  BY <3>1, <3>2, <3>3
  <2> QED  BY <2>4, <2>5
<1> QED  BY <1>1, <1>2

LEMMA NextOut ==
  ASSUME CardOK, Calm, PutOut(queue)
  PROVE  Shifts
<1>1. queue \in Seq(Names) /\ Len(queue) \in Nat
  BY DEF CardOK
<1>2. Calm' /\ \A k \in Place : Comes(k)' = IF k <= Len(queue) THEN queue[k] ELSE "FF"
  BY <1>1, RowOut DEF Calm
<1>3. \A k \in Place : Comes(k + 1) = IF k <= Len(queue) THEN queue[k] ELSE "FF"
  BY <1>1 DEF Comes, Place
<1> QED  BY <1>2, <1>3 DEF Shifts

LEMMA AnswerOut ==
  ASSUME NEW bytes \in Seq(Names), \A k \in 1 .. Len(bytes) : bytes[k] # "busy", Answer(bytes)
  PROVE  /\ Calm'
         /\ \E n \in 0 .. NCR :
              \A k \in Place : Comes(k)' = IF n < k /\ k <= n + Len(bytes) THEN bytes[k - n]
                                           ELSE "FF"
<1>1. PICK n \in 0 .. NCR : PutOut(Repeat(n, "FF") \o bytes)
  BY DEF Answer
<1>2. n \in Nat /\ "FF" \in Names /\ Len(bytes) \in Nat
  BY MediumAssumption, NamedNames DEF Named
<1> DEFINE fill == Repeat(n, "FF")
<1>3. fill \in Seq(Names) /\ Len(fill) = n /\ \A k \in 1 .. n : fill[k] = "FF"
  BY <1>2, RepeatNames DEF Repeat
<1> HIDE DEF fill
<1> DEFINE row == fill \o bytes
<1>4. /\ row \in Seq(Names) /\ Len(row) = n + Len(bytes)
      /\ \A k \in 1 .. n + Len(bytes) : row[k] = IF k <= n THEN "FF" ELSE bytes[k - n]
  BY <1>2, <1>3
<1>5. PutOut(row)
  BY <1>1 DEF fill
<1> HIDE DEF row
<1>6. \A k \in 1 .. Len(row) : row[k] # "busy"
  <2> SUFFICES ASSUME NEW k \in 1 .. n + Len(bytes) PROVE row[k] # "busy"
    BY <1>4
  <2>1. CASE k <= n
    BY <1>4, <2>1
  <2>2. CASE ~(k <= n)
    <3>1. k - n \in 1 .. Len(bytes)
      BY <1>2, <2>2
    <3> QED  BY <1>4, <2>2, <3>1
  <2> QED  BY <2>1, <2>2
<1>7. Calm' /\ \A k \in Place : Comes(k)' = IF k <= Len(row) THEN row[k] ELSE "FF"
  BY <1>4, <1>5, <1>6, RowOut
<1>8. ASSUME NEW k \in Place
      PROVE  Comes(k)' = IF n < k /\ k <= n + Len(bytes) THEN bytes[k - n] ELSE "FF"
  <2>1. k \in Nat /\ k > 0
    BY DEF Place
  <2>2. CASE k <= n
    BY <1>2, <1>4, <1>7, <2>1, <2>2
  <2>3. CASE n < k /\ k <= n + Len(bytes)
    BY <1>2, <1>4, <1>7, <2>1, <2>3
  <2>4. CASE ~(k <= n + Len(bytes))
    BY <1>2, <1>4, <1>7, <2>1, <2>4
  <2> QED  BY <1>2, <2>1, <2>2, <2>3, <2>4
<1> QED  BY <1>7, <1>8

(* A single byte.                                                          *)
LEMMA ByteOut ==
  ASSUME NEW b \in Names, b # "busy", Answer(<<b>>)
  PROVE  \E m \in 0 .. NCR : /\ Silent(m + 1)' /\ Comes(m + 1)' = b
                             /\ \A k \in 1 .. m : Comes(k)' = "FF"
<1>1. <<b>> \in Seq(Names) /\ Len(<<b>>) = 1 /\ \A k \in 1 .. 1 : <<b>>[k] = b
  OBVIOUS
<1>2. PICK n \in 0 .. NCR : \A k \in Place :
        Comes(k)' = IF n < k /\ k <= n + 1 THEN <<b>>[k - n] ELSE "FF"
  BY <1>1, AnswerOut
<1>3. n \in Nat
  BY MediumAssumption
<1>4. n + 1 \in Place /\ (n + 1) - n = 1 /\ \A k \in 1 .. n : k \in Place
  BY <1>3 DEF Place
<1>5. Comes(n + 1)' = b
  <2>1. Comes(n + 1)' = <<b>>[(n + 1) - n]
    BY <1>2, <1>3, <1>4
  <2> QED  BY <1>4, <2>1
<1>6. \A k \in 1 .. n : Comes(k)' = "FF"
  BY <1>2, <1>3, <1>4
<1>7. \A k \in Place : k > n + 1 => Comes(k)' = "FF"
  BY <1>2, <1>3 DEF Place
<1>8. Calm'
  BY <1>1, AnswerOut
<1> QED  BY <1>5, <1>6, <1>7, <1>8 DEF Silent

(* What is known of the bytes to come moves up by one.                     *)
LEMMA SilentShifts ==
  ASSUME NEW m \in Nat, NEW l \in Nat, l + 1 >= m, Silent(m), Shifts
  PROVE  Silent(l)'
<1>1. \A k \in Place : k > l => k + 1 \in Place /\ k + 1 > m
  BY DEF Place
<1> QED  BY <1>1 DEF Silent, Shifts

LEMMA QuietShifts ==
  ASSUME CardOK, Quiet, PutOut(queue)
  PROVE  Quiet' /\ out = "FF"
<1>1. Shifts
  BY NextOut DEF Quiet, Silent
<1>2. 1 \in Place /\ Comes(1) = out
  BY DEF Place, Comes
<1>3. \A k \in Place : k + 1 \in Place /\ k + 1 > 0 /\ k > 0
  BY DEF Place
<1> QED  BY <1>1, <1>2, <1>3 DEF Quiet, Silent, Shifts

LEMMA DullMoves ==
  ASSUME CardOK, Dull, PutOut(queue)
  PROVE  Dull' /\ (out = "FF" => Quiet')
<1>1. CASE Quiet
  BY <1>1, QuietShifts DEF Dull
<1>2. CASE out = "00" /\ queue = <<>>
  <2>1. out' = "FF" /\ queue' = <<>>
    BY <1>2 DEF PutOut
  <2>2. Quiet'
    BY <2>1 DEF Quiet, Silent, Calm, Comes, Place
  <2> QED  BY <2>2 DEF Dull
<1>3. CASE out = "00" /\ queue = <<"busy">>
  <2>1. queue # <<>> /\ Head(queue) = "busy"
    BY <1>3
  <2>2. out' = "00" /\ queue' = <<"busy">>
    BY <1>3, <2>1 DEF PutOut
  <2> QED  BY <1>3, <2>2 DEF Dull
<1> QED  BY <1>1, <1>2, <1>3 DEF Dull

(* A card that rests when it is selected is dull at first.                 *)
LEMMA RestedDull ==
  ASSUME CardOK, out = "FF" \/ out = "05", queue \in {<<>>, <<"busy">>}, PutOut(queue)
  PROVE  Dull'
<1>1. CASE queue = <<>>
  <2>1. out' = "FF" /\ queue' = <<>>
    BY <1>1 DEF PutOut
  <2>2. Quiet'
    BY <2>1 DEF Quiet, Silent, Calm, Comes, Place
  <2> QED  BY <2>2 DEF Dull
<1>2. CASE queue = <<"busy">>
  <2>1. queue # <<>> /\ Head(queue) = "busy"
    BY <1>2
  <2>2. out' = "00" /\ queue' = <<"busy">>
    BY <1>2, <2>1 DEF PutOut
  <2> QED  BY <2>2 DEF Dull
<1> QED  BY <1>1, <1>2

(* The last of some bytes, and the rest.                                   *)
LEMMA LastAppend ==
  ASSUME NEW S, NEW s \in Seq(S), NEW b \in S
  PROVE  /\ Append(s, b) # <<>> /\ Last(Append(s, b)) = b /\ Len(Append(s, b)) = Len(s) + 1
         /\ \A k \in 1 .. Len(s) : Append(s, b)[k] = s[k]
<1>1. /\ Append(s, b) \in Seq(S) /\ Len(Append(s, b)) = Len(s) + 1
      /\ Append(s, b)[Len(s) + 1] = b
      /\ \A k \in 1 .. Len(s) : Append(s, b)[k] = s[k]
  BY AppendProperties
<1>2. Append(s, b) # <<>>
  BY <1>1
<1> QED  BY <1>1, <1>2 DEF Last

LEMMA TailRest ==
  ASSUME NEW S, NEW s \in Seq(S), s # <<>>
  PROVE  /\ Tail(s) \in Seq(S) /\ Len(Tail(s)) = Len(s) - 1 /\ Len(s) \in Nat /\ Len(s) > 0
         /\ Head(s) = s[1] /\ Head(s) \in S
         /\ \A k \in 1 .. Len(Tail(s)) : Tail(s)[k] = s[k + 1]
OBVIOUS

LEMMA BytesMoved ==
  ASSUME IInv, inserted
  PROVE  left \in Seq(Names) /\ came \in Seq(Names)
<1>1. todo \in Seq(Names) /\ replies \in Seq(Names)
  <2>1. \A k \in 1 .. Len(replies) : replies[k] \in Names
    BY DEF IInv, RepliesOK
  <2> QED  BY <2>1 DEF IInv, TodoOK, RepliesOK
<1>2. CASE Done
  <2>1. PICK n \in 0 .. BITS : Shifting(n)
    BY <1>2 DEF Done, IInv, HelperMoves
  <2>2. todo # <<>>
    BY <1>2 DEF Done, IInv, HelperMoves
  <2>3. ByteOf(sd_rx) \in Names
    <3>1. ByteOf(sd_rx) \in Names \cup {"??"}
      BY ByteNames DEF IInv, HelperOK
    <3>2. n = BITS /\ ~sd_clk
      BY <1>2, <2>1, BitsAssumption DEF Done, Shifting
    <3>3. ByteOf(sd_rx) # "??"
      BY <2>1, <3>2, BitsAssumption DEF Shifting
    <3> QED  BY <3>1, <3>3
  <2> QED  BY <1>1, <1>2, <2>2, <2>3 DEF left, came
<1>3. CASE ~Done
  BY <1>1, <1>3 DEF left, came
<1> QED  BY <1>2, <1>3

(* A byte of filling changes nothing of what the card is about.            *)
Idles == /\ UNCHANGED <<state, expect, got, app, opcond, target, store, kind, inserted, call>>
         /\ Filling' /\ Len(left') = Len(left) - 1 /\ Len(left) \in Nat /\ Len(left) > 0
         /\ came' = Append(came, out) /\ came' # <<>> /\ Last(came') = out
         /\ Len(came') = Len(came) + 1 /\ Len(came) \in Nat
         /\ \A k \in 1 .. Len(came) : came'[k] = came[k]
         /\ PutOut(queue) /\ sd_cs' = FALSE

LEMMA FillingIdles ==
  ASSUME IInv, inserted, Exchanges, ~sd_cs, Filling, Expecting \/ expect = "token"
  PROVE  Idles
<1>1. /\ left # <<>> /\ left' = Tail(left) /\ came' = Append(came, out)
      /\ TakeByte(Head(left)) /\ UNCHANGED <<call, kind, inserted, sd_cs>>
  BY DEF Exchanges
<1>2. left \in Seq(Names) /\ came \in Seq(Names) /\ out \in Names
  BY BytesMoved DEF IInv, CardOK
<1>3. /\ Len(left') = Len(left) - 1 /\ Len(left) \in Nat /\ Len(left) > 0
      /\ Head(left) = left[1] /\ \A k \in 1 .. Len(left') : left'[k] = left[k + 1]
  BY <1>1, <1>2, TailRest
<1>4. Head(left) = "FF"
  BY <1>3 DEF Filling
<1>5. Filling'
  BY <1>3 DEF Filling
<1>6. Ignores("FF")
  <2>1. TakeByte("FF")
    BY <1>1, <1>4
  <2>2. ~Collects("FF") /\ ~Obeys("FF") /\ ~Opens("FF") /\ ~Stores("FF")
    BY DEF Expecting, Collects, Obeys, Opens, Stores, Commands
  <2> QED  BY <2>1, <2>2 DEF TakeByte
<1>7. sd_cs' = FALSE
  BY <1>1 DEF IInv, HelperOK
<1>8. /\ came' # <<>> /\ Last(came') = out /\ Len(came') = Len(came) + 1
      /\ \A k \in 1 .. Len(came) : came'[k] = came[k]
  BY <1>1, <1>2, LastAppend
<1> QED  BY <1>1, <1>2, <1>3, <1>5, <1>6, <1>7, <1>8 DEF Ignores, Idles

LEMMA IdleFacts ==
  ASSUME Idles
  PROVE  (Expecting => Expecting') /\ (Calm /\ CardOK => Shifts)
         /\ UNCHANGED <<fn, addr, buf, pc, cmd, i, result, before>>
BY NextOut DEF Idles, Expecting, call

LEMMA OrdersKept ==
  ASSUME Orders, cmd' = cmd, addr' = addr
  PROVE  Orders'
BY DEF Orders, Frame, AddressArg

LEMMA BeforeKept ==
  ASSUME Before, UNCHANGED <<cmd, state, opcond, app, kind>>, clocks >= WAKE => clocks' >= WAKE
  PROVE  Before'
BY DEF Before

LEMMA AnsweredKept ==
  ASSUME NEW v, Answered(v), UNCHANGED <<cmd, state, opcond, app, kind, expect, got, target, addr>>
  PROVE  Answered(v)'
BY DEF Answered, Expecting

LEMMA BringsShifts ==
  ASSUME NEW m \in Nat, NEW n \in Nat, NEW b \in Block, Brings(m + 1, n, b), Shifts,
         UNCHANGED <<kind, addr, store>>
  PROVE  Brings(m, n, b)'
<1>1. /\ kind = "hc" => b = addr
      /\ \A k \in 1 .. n : Comes((m + 1) + k) = "FF"
      /\ Comes((m + 1) + n + 1) = "FE"
      /\ \A k \in 1 .. BLOCK : Comes(((m + 1) + n + 1) + k) = store[b][k]
  BY DEF Brings, Sends
<1>2. /\ \A k \in 1 .. n : m + k \in Place /\ (m + k) + 1 = (m + 1) + k
      /\ m + n + 1 \in Place /\ (m + n + 1) + 1 = (m + 1) + n + 1
      /\ \A k \in 1 .. BLOCK : (m + n + 1) + k \in Place
                               /\ ((m + n + 1) + k) + 1 = ((m + 1) + n + 1) + k
  BY MediumAssumption DEF Place
<1>3. \A k \in 1 .. n : Comes(m + k)' = "FF"
  BY <1>1, <1>2 DEF Shifts
<1>4. Comes(m + n + 1)' = "FE"
  BY <1>1, <1>2 DEF Shifts
<1>5. \A k \in 1 .. BLOCK : Comes((m + n + 1) + k)' = store[b][k]
  BY <1>1, <1>2 DEF Shifts
<1>6. Sends(m + n + 1, b)'
  BY <1>5 DEF Sends
<1> QED  BY <1>1, <1>3, <1>4, <1>6 DEF Brings

LEMMA BarrenShifts ==
  ASSUME NEW m \in Nat, NEW l \in Nat, l + 1 >= m, Barren(m), Shifts
  PROVE  Barren(l)'
<1>1. \A k \in Place : k > l => k + 1 \in Place /\ k + 1 > m
  BY DEF Place
<1> QED  BY <1>1 DEF Barren, Shifts

LEMMA FollowsShifts ==
  ASSUME NEW m \in Nat, NEW v, Follows(m + 1, v), Shifts,
         UNCHANGED <<cmd, kind, addr, store>>
  PROVE  Follows(m, v)'
<1>1. m + 1 \in Nat
  OBVIOUS
<1>2. CASE cmd.next = "init_check" /\ v = "01"
  <2>1. Silent((m + 1) + 4) /\ \A k \in 1 .. 4 : Comes((m + 1) + k) = Echo[k]
    BY <1>2 DEF Follows
  <2>2. (m + 1) + 4 \in Nat /\ m + 4 \in Nat /\ (m + 4) + 1 >= (m + 1) + 4
    OBVIOUS
  <2>3. Silent(m + 4)'
    BY <2>1, <2>2, SilentShifts
  <2>4. \A k \in 1 .. 4 : m + k \in Place /\ (m + k) + 1 = (m + 1) + k
    BY DEF Place
  <2>5. \A k \in 1 .. 4 : Comes(m + k)' = Echo[k]
    BY <2>1, <2>4 DEF Shifts
  <2> QED  BY <1>2, <2>3, <2>5 DEF Follows, Echo
<1>3. CASE ~(cmd.next = "init_check" /\ v = "01") /\ cmd.next = "read_r1" /\ v = "00"
  <2>1. Calm /\ (Barren(m + 1) \/ \E n \in Place, b \in Block : Brings(m + 1, n, b))
    BY <1>3 DEF Follows
  <2>2. CASE Barren(m + 1)
    <3>1. Barren(m)'
      BY <1>1, <2>2, BarrenShifts
    <3> QED  BY <1>3, <3>1 DEF Follows, Shifts
  <2>3. CASE \E n \in Place, b \in Block : Brings(m + 1, n, b)
    <3>1. PICK n \in Place, b \in Block : Brings(m + 1, n, b)
      BY <2>3
    <3>2. n \in Nat
      BY DEF Place
    <3>3. Brings(m, n, b)'
      BY <3>1, <3>2, BringsShifts
    <3> QED  BY <1>3, <3>3 DEF Follows, Shifts
  <2> QED  BY <2>1, <2>2, <2>3
<1>4. CASE /\ ~(cmd.next = "init_check" /\ v = "01")
           /\ ~(cmd.next = "read_r1" /\ v = "00")
  <2>1. Silent(m + 1)
    BY <1>4 DEF Follows
  <2>2. Silent(m)'
    BY <1>1, <2>1, SilentShifts
  <2> QED  BY <1>4, <2>2 DEF Follows
<1> QED  BY <1>2, <1>3, <1>4

-----------------------------------------------------------------------------
(* A byte of filling is exchanged, ...                                     *)

(* ... while the card may be busy, ...                                     *)
LEMMA BusyExchanges ==
  ASSUME IInv, inserted, Exchanges, ~sd_cs, AtBusy, pc = "cmd_busy",
         clocks >= WAKE => clocks' >= WAKE
  PROVE  AtBusy' /\ store' = store
<1>1. Orders /\ Trailed /\ Before /\ Expecting /\ Dull /\ Filling
  BY DEF AtBusy
<1>2. Idles
  BY <1>1, FillingIdles
<1>3. /\ PutOut(queue) /\ UNCHANGED <<cmd, addr, state, opcond, app, kind, store>> /\ Filling'
      /\ came' # <<>> /\ Last(came') = out
  BY <1>2 DEF Idles, call
<1>4. Expecting'
  BY <1>1, <1>2, IdleFacts
<1>5. Dull' /\ (out = "FF" => Quiet')
  BY <1>1, <1>3, DullMoves DEF IInv
<1>6. Orders' /\ Before' /\ Trailed'
  BY <1>1, <1>3, OrdersKept, BeforeKept DEF Trailed
<1> QED  BY <1>3, <1>4, <1>5, <1>6 DEF AtBusy

(* ... while its answer is awaited, ...                                    *)
LEMMA PollingExchanges ==
  ASSUME IInv, inserted, Exchanges, ~sd_cs, Polling
  PROVE  Polling' /\ store' = store /\ UNCHANGED cmd
<1>1. left # <<>> /\ Filling /\ Len(left) <= 1 /\ i \in Nat
  BY DEF Exchanges, Polling
<1>2. PICK m \in Nat, v \in Names : m + i <= R1_LIMIT /\ Awaited(m, v)
  BY <1>1 DEF Polling
<1>3. /\ Calm /\ Answered(v) /\ Follows(m + 1, v)
      /\ Comes(m + 1) = v /\ \A k \in 1 .. m : Comes(k) = "FF"
  BY <1>2 DEF Awaited
<1>4. Expecting \/ expect = "token"
  BY <1>3 DEF Answered
<1>5. Idles
  BY <1>1, <1>4, FillingIdles
<1>6. /\ UNCHANGED <<cmd, state, opcond, app, kind, expect, got, target, addr, store, i>>
      /\ Filling' /\ Len(left') = Len(left) - 1 /\ Len(left) \in Nat /\ Len(left) > 0
      /\ came' # <<>> /\ Last(came') = out
  BY <1>5 DEF Idles, call
<1>7. left' = <<>> /\ Len(left') = 0
  <2>1. Len(left') = 0
    BY <1>1, <1>6
  <2>2. left' = Tail(left) /\ left \in Seq(Names) /\ left # <<>>
    BY BytesMoved DEF Exchanges
  <2>3. left' \in Seq(Names)
    BY <2>2
  <2> QED  BY <2>1, <2>3
<1>8. Shifts
  BY <1>3, <1>5, IdleFacts DEF IInv
<1>9. Answered(v)'
  BY <1>3, <1>6, AnsweredKept
<1>10. Follows(m, v)'
  BY <1>3, <1>6, <1>8, FollowsShifts
<1>11. CASE m = 0
  <2>1. Last(came') = v
    BY <1>3, <1>6, <1>11 DEF Comes
  <2>2. Answered(Last(came))' /\ Follows(0, Last(came))'
    BY <1>9, <1>10, <1>11, <2>1
  <2> QED  BY <1>1, <1>6, <1>7, <2>2 DEF Polling
<1>12. CASE m # 0
  <2>1. PICK l \in Nat : l + 1 = m
    BY <1>12
  <2>2. out = "FF"
    BY <1>3, <1>12 DEF Comes
  <2>3. \A k \in 1 .. l : Comes(k)' = "FF"
    <3>1. \A k \in 1 .. l : k \in Place /\ k + 1 \in 1 .. m
      BY <2>1 DEF Place
    <3> QED  BY <1>3, <1>8, <3>1 DEF Shifts
  <2>4. Comes(l + 1)' = v
    <3>1. m \in Place
      BY <1>12 DEF Place
    <3> QED  BY <1>3, <1>8, <2>1, <3>1 DEF Shifts
  <2>5. Follows(l + 1, v)'
    BY <1>10, <2>1
  <2>6. Awaited(l, v)'
    BY <1>8, <1>9, <2>3, <2>4, <2>5 DEF Awaited, Shifts
  <2>7. l + i < R1_LIMIT
    BY <1>1, <1>2, <2>1, CardAssumption
  <2>8. Last(came') = "FF" /\ l + i' < R1_LIMIT /\ l \in Nat /\ v \in Names
    BY <1>6, <2>2, <2>7
  <2> QED  BY <1>1, <1>6, <1>7, <2>6, <2>8 DEF Polling
<1> QED  BY <1>6, <1>11, <1>12

LEMMA OneLeft ==
  ASSUME IInv, inserted, Exchanges, Len(left) <= 1
  PROVE  left' = <<>> /\ Len(left') = 0
<1>1. left' = Tail(left) /\ left \in Seq(Names) /\ left # <<>>
  BY BytesMoved DEF Exchanges
<1>2. Len(left') = 0 /\ left' \in Seq(Names)
  BY <1>1
<1> QED  BY <1>2

LEMMA UnansweredExchanges ==
  ASSUME IInv, inserted, Exchanges, ~sd_cs, Unanswered
  PROVE  Unanswered' /\ store' = store /\ UNCHANGED cmd
<1>1. Quiet /\ Expecting /\ Filling /\ Len(left) <= 1
  BY DEF Unanswered
<1>2. Idles
  BY <1>1, FillingIdles
<1>3. PutOut(queue) /\ Filling' /\ Last(came') = out /\ UNCHANGED <<cmd, store>>
  BY <1>2 DEF Idles, call
<1>4. Quiet' /\ out = "FF"
  BY <1>1, <1>3, QuietShifts DEF IInv
<1>5. Expecting' /\ left' = <<>> /\ Len(left') = 0
  BY <1>1, <1>2, IdleFacts, OneLeft
<1> QED  BY <1>3, <1>4, <1>5 DEF Unanswered

(* ... after it, ...                                                       *)
LEMMA ReplyExchanges ==
  ASSUME IInv, inserted, Exchanges, ~sd_cs, AtReply,
         pc \in {"init_reset", "init_check", "init_app", "init_opcond", "init_length"}
  PROVE  AtReply' /\ store' = store
<1>1. left # <<>>
  BY DEF Exchanges
<1>2. pc # "init_check" /\ cmd.next = pc /\ Answered(r) /\ Quiet /\ Filling
  BY <1>1 DEF AtReply
<1>3. Expecting
  BY <1>2 DEF Answered
<1>4. Idles
  BY <1>2, <1>3, FillingIdles
<1>5. /\ UNCHANGED <<cmd, state, opcond, app, kind, expect, got, target, addr, store, pc>>
      /\ Filling' /\ PutOut(queue)
  BY <1>4 DEF Idles, call
<1>6. Quiet'
  BY <1>2, <1>5, QuietShifts DEF IInv
<1>7. r' = r
  BY <1>5 DEF r
<1>8. Answered(r)'
  BY <1>2, <1>5, <1>7, AnsweredKept
<1> QED  BY <1>2, <1>5, <1>6, <1>8 DEF AtReply

LEMMA EchoExchanges ==
  ASSUME IInv, inserted, Exchanges, ~sd_cs, AtEcho, pc = "init_echo"
  PROVE  AtEcho' /\ store' = store
<1>1. /\ kind # "old" /\ state = "idle" /\ ~opcond /\ Expecting /\ Filling
      /\ Len(came) + Len(left) = 4 /\ Silent(4 - Len(came))
      /\ \A k \in 1 .. 4 : Echo[k] = IF k <= Len(came) THEN came[k] ELSE Comes(k - Len(came))
  BY DEF AtEcho
<1>2. Idles
  BY <1>1, FillingIdles
<1>3. /\ UNCHANGED <<kind, state, opcond, store>> /\ Filling'
      /\ Len(left') = Len(left) - 1 /\ Len(left) \in Nat /\ Len(left) > 0
      /\ Len(came') = Len(came) + 1 /\ Len(came) \in Nat /\ Last(came') = out
      /\ \A k \in 1 .. Len(came) : came'[k] = came[k]
  BY <1>2 DEF Idles
<1>4. Shifts
  BY <1>1, <1>2, IdleFacts DEF IInv, Silent
<1>5. Expecting'
  BY <1>1, <1>2, IdleFacts
<1>6. PICK n \in Nat : n = Len(came) /\ n < 4
  BY <1>1, <1>3
<1>7. Silent(4 - (n + 1))'
  <2>1. 4 - n \in Nat /\ 4 - (n + 1) \in Nat /\ (4 - (n + 1)) + 1 >= 4 - n
    BY <1>6
  <2> QED  BY <1>1, <1>4, <1>6, <2>1, SilentShifts
<1>8. ASSUME NEW k \in 1 .. 4
      PROVE  Echo[k] = IF k <= n + 1 THEN came'[k] ELSE Comes(k - (n + 1))'
  <2>1. CASE k <= n
    BY <1>1, <1>3, <1>6, <2>1
  <2>2. CASE k = n + 1
    <3>1. came'[k] = out
      BY <1>3, <1>6, <2>2 DEF Last
    <3>2. Echo[k] = Comes(1)
      <4>1. k - n = 1 /\ ~(k <= n)
        BY <2>2
      <4> QED  BY <1>1, <1>6, <4>1
    <3> QED  BY <2>2, <3>1, <3>2 DEF Comes
  <2>3. CASE k > n + 1
    <3>1. k - (n + 1) \in Place /\ (k - (n + 1)) + 1 = k - n /\ ~(k <= n) /\ ~(k <= n + 1)
      BY <2>3 DEF Place
    <3> QED  BY <1>1, <1>4, <1>6, <3>1 DEF Shifts
  <2> QED  BY <2>1, <2>2, <2>3
<1>9. Len(came') = n + 1 /\ Len(came') + Len(left') = 4
  BY <1>1, <1>3, <1>6
<1>10. Silent(4 - Len(came))'
  BY <1>7, <1>9
<1>11. \A k \in 1 .. 4 : Echo[k] = IF k <= Len(came') THEN came'[k] ELSE Comes(k - Len(came))'
  BY <1>8, <1>9
<1> QED  BY <1>1, <1>3, <1>5, <1>9, <1>10, <1>11 DEF AtEcho, Echo

(* ... while a block is read, ...                                          *)
LEMMA ReadR1Exchanges ==
  ASSUME IInv, inserted, Exchanges, ~sd_cs, AtRead, pc = "read_r1"
  PROVE  AtRead' /\ store' = store
<1>1. /\ Expecting /\ Filling /\ Len(left) <= 1 /\ left # <<>>
      /\ r = "00" => Calm /\ (Barren(0) \/ \E n \in Nat, b \in Block : Brings(0, n, b) /\ n > 0)
  BY DEF AtRead, Exchanges
<1>2. Idles
  BY <1>1, FillingIdles
<1>3. /\ Filling' /\ UNCHANGED <<cmd, store, kind, addr, pc>> /\ PutOut(queue)
  BY <1>2 DEF Idles, call
<1>4. Expecting' /\ left' = <<>> /\ Len(left') = 0 /\ (Calm => Shifts)
  BY <1>1, <1>2, IdleFacts, OneLeft DEF IInv
<1>5. r' = r
  BY <1>3 DEF r
<1>6. ASSUME r = "00"
      PROVE  Calm' /\ (Barren(0)' \/ \E n \in Nat, b \in Block : Brings(0, n, b)')
  <2>1. Shifts
    BY <1>1, <1>4, <1>6
  <2>2. CASE Barren(0)
    BY <2>1, <2>2, BarrenShifts DEF Shifts
  <2>3. ASSUME NEW n \in Nat, NEW b \in Block, Brings(0, n, b), n > 0
        PROVE  \E l \in Nat : Brings(0, l, b)'
    <3>1. PICK l \in Nat : l + 1 = n
      BY <2>3
    <3>2. /\ kind = "hc" => b = addr
          /\ \A k \in 1 .. n : Comes(0 + k) = "FF"
          /\ Comes(0 + n + 1) = "FE" /\ \A k \in 1 .. BLOCK : Comes((0 + n + 1) + k) = store[b][k]
      BY <2>3 DEF Brings, Sends
    <3>3. /\ \A k \in 1 .. l : k \in Place /\ k + 1 \in 1 .. n /\ 0 + (k + 1) = k + 1
          /\ l + 1 \in Place /\ (l + 1) + 1 = 0 + n + 1
          /\ \A k \in 1 .. BLOCK : (l + 1) + k \in Place /\ ((l + 1) + k) + 1 = (0 + n + 1) + k
      BY <3>1, MediumAssumption DEF Place
    <3>4. \A k \in 1 .. l : Comes(k)' = "FF"
      <4> SUFFICES ASSUME NEW k \in 1 .. l PROVE Comes(k)' = "FF"
        OBVIOUS
      <4>1. Comes(k)' = Comes(k + 1)
        BY <2>1, <3>3 DEF Shifts
      <4>2. Comes(0 + (k + 1)) = "FF"
        BY <3>2, <3>3
      <4> QED  BY <3>3, <4>1, <4>2
    <3>5. Comes(l + 1)' = "FE"
      BY <2>1, <3>2, <3>3 DEF Shifts
    <3>6. \A k \in 1 .. BLOCK : Comes((l + 1) + k)' = store[b][k]
      BY <2>1, <3>2, <3>3 DEF Shifts
    <3>7. /\ \A k \in 1 .. l : Comes(0 + k)' = "FF"
          /\ 0 + l + 1 = l + 1
      BY <3>4
    <3>8. Sends(0 + l + 1, b)'
      BY <1>3, <3>6, <3>7 DEF Sends
    <3>9. Brings(0, l, b)'
      BY <1>3, <3>2, <3>5, <3>7, <3>8 DEF Brings
    <3> QED  BY <3>9
  <2> QED  BY <1>1, <1>6, <2>1, <2>2, <2>3 DEF Shifts
<1> QED  BY <1>1, <1>3, <1>4, <1>5, <1>6 DEF AtRead

LEMMA ReadTokenExchanges ==
  ASSUME IInv, inserted, Exchanges, ~sd_cs, AtRead, pc = "read_token"
  PROVE  AtRead' /\ store' = store
<1>1. /\ Expecting /\ Filling /\ Len(left) <= 1 /\ left # <<>> /\ Calm
      /\ Barren(0) \/ \E n \in Nat, b \in Block : Brings(0, n, b)
  BY DEF AtRead, Exchanges
<1>2. Idles
  BY <1>1, FillingIdles
<1>3. /\ Filling' /\ UNCHANGED <<store, kind, addr, pc>> /\ came' # <<>> /\ Last(came') = out
  BY <1>2 DEF Idles, call
<1>4. Expecting' /\ left' = <<>> /\ Len(left') = 0 /\ Shifts
  BY <1>1, <1>2, IdleFacts, OneLeft DEF IInv
<1>5. IF out = "FE" THEN \E b \in Block : (kind = "hc" => b = addr) /\ Sends(0, b)'
      ELSE Barren(0)' \/ \E n \in Nat, b \in Block : Brings(0, n, b)'
  <2>1. CASE Barren(0)
    <3>1. out # "FE"
      BY <2>1 DEF Barren, Comes, Place
    <3>2. Barren(0)'
      BY <1>4, <2>1, BarrenShifts
    <3> QED  BY <3>1, <3>2
  <2>2. ASSUME NEW n \in Nat, NEW b \in Block, Brings(0, n, b)
        PROVE  IF out = "FE" THEN (kind = "hc" => b = addr) /\ Sends(0, b)'
               ELSE \E l \in Nat : Brings(0, l, b)'
    <3>1. /\ kind = "hc" => b = addr
          /\ \A k \in 1 .. n : Comes(0 + k) = "FF"
          /\ Comes(0 + n + 1) = "FE" /\ \A k \in 1 .. BLOCK : Comes((0 + n + 1) + k) = store[b][k]
      BY <2>2 DEF Brings, Sends
    <3>2. CASE n = 0
      <4>1. out = "FE"
        BY <3>1, <3>2 DEF Comes
      <4>2. \A k \in 1 .. BLOCK : 0 + k = k /\ k \in Place /\ k + 1 = (0 + n + 1) + k
        BY <3>2, MediumAssumption DEF Place
      <4>3. \A k \in 1 .. BLOCK : Comes(0 + k)' = store[b][k]
        BY <1>4, <3>1, <4>2 DEF Shifts
      <4>4. Sends(0, b)'
        BY <1>3, <4>3 DEF Sends
      <4> QED  BY <3>1, <4>1, <4>4
    <3>3. CASE n # 0
      <4>1. PICK l \in Nat : l + 1 = n
        BY <3>3
      <4>2. out # "FE"
        <5>1. Comes(0 + 1) = "FF" /\ 0 + 1 = 1
          BY <3>1, <3>3
        <5> QED  BY <5>1 DEF Comes
      <4>3. /\ \A k \in 1 .. l : k \in Place /\ k + 1 \in 1 .. n /\ 0 + (k + 1) = k + 1 /\ 0 + k = k
            /\ l + 1 \in Place /\ (l + 1) + 1 = 0 + n + 1 /\ 0 + l + 1 = l + 1
            /\ \A k \in 1 .. BLOCK : (l + 1) + k \in Place /\ ((l + 1) + k) + 1 = (0 + n + 1) + k
        BY <4>1, MediumAssumption DEF Place
      <4>4. \A k \in 1 .. l : Comes(0 + k)' = "FF"
        <5> SUFFICES ASSUME NEW k \in 1 .. l PROVE Comes(0 + k)' = "FF"
          OBVIOUS
        <5>1. Comes(k)' = Comes(k + 1)
          BY <1>4, <4>3 DEF Shifts
        <5>2. Comes(0 + (k + 1)) = "FF"
          BY <3>1, <4>3
        <5> QED  BY <4>3, <5>1, <5>2
      <4>5. Comes(0 + l + 1)' = "FE"
        BY <1>4, <3>1, <4>3 DEF Shifts
      <4>6. \A k \in 1 .. BLOCK : Comes((0 + l + 1) + k)' = store[b][k]
        BY <1>4, <3>1, <4>3 DEF Shifts
      <4>7. Sends(0 + l + 1, b)'
        BY <1>3, <4>6 DEF Sends
      <4>8. Brings(0, l, b)'
        BY <1>3, <3>1, <4>4, <4>5, <4>7 DEF Brings
      <4> QED  BY <4>2, <4>8
    <3> QED  BY <3>2, <3>3
  <2> QED  BY <1>1, <2>1, <2>2
<1> QED  BY <1>1, <1>3, <1>4, <1>5 DEF AtRead, Shifts

LEMMA ReadDataExchanges ==
  ASSUME IInv, inserted, Exchanges, ~sd_cs, AtRead, pc = "read_data"
  PROVE  AtRead' /\ store' = store
<1>1. /\ Expecting /\ Filling /\ Len(came) + Len(left) = BLOCK + 2 /\ Calm
  BY DEF AtRead
<1>2. PICK b \in Block :
        /\ kind = "hc" => b = addr
        /\ \A k \in 1 .. BLOCK :
             store[b][k] = IF k <= Len(came) THEN came[k] ELSE Comes(k - Len(came))
  BY DEF AtRead
<1>3. Idles
  BY <1>1, FillingIdles
<1>4. /\ UNCHANGED <<kind, addr, store, pc>> /\ Filling'
      /\ Len(left') = Len(left) - 1 /\ Len(left) \in Nat /\ Len(left) > 0
      /\ Len(came') = Len(came) + 1 /\ Len(came) \in Nat /\ Last(came') = out
      /\ \A k \in 1 .. Len(came) : came'[k] = came[k]
  BY <1>3 DEF Idles, call
<1>5. Expecting' /\ Shifts
  BY <1>1, <1>3, IdleFacts DEF IInv
<1>6. PICK n \in Nat : n = Len(came)
  BY <1>4
<1>7. ASSUME NEW k \in 1 .. BLOCK
      PROVE  store[b][k] = IF k <= n + 1 THEN came'[k] ELSE Comes(k - (n + 1))'
  <2>0. k \in Nat /\ k > 0
    BY MediumAssumption
  <2>1. CASE k <= n
    BY <1>2, <1>4, <1>6, <2>0, <2>1
  <2>2. CASE k = n + 1
    <3>1. came'[k] = out
      BY <1>4, <1>6, <2>2 DEF Last
    <3>2. k - n = 1 /\ ~(k <= n)
      BY <2>2
    <3>3. store[b][k] = Comes(1)
      BY <1>2, <1>6, <3>2
    <3> QED  BY <2>2, <3>1, <3>3 DEF Comes
  <2>3. CASE k > n + 1
    <3>1. k - (n + 1) \in Place /\ (k - (n + 1)) + 1 = k - n /\ ~(k <= n) /\ ~(k <= n + 1)
      BY <2>0, <2>3 DEF Place
    <3>2. store[b][k] = Comes(k - n)
      BY <1>2, <1>6, <3>1
    <3> QED  BY <1>5, <3>1, <3>2 DEF Shifts
  <2> QED  BY <2>0, <2>1, <2>2, <2>3
<1>8. Len(came') = n + 1 /\ Len(came') + Len(left') = BLOCK + 2
  BY <1>1, <1>4, <1>6, MediumAssumption
<1>9. \A k \in 1 .. BLOCK :
        store'[b][k] = IF k <= Len(came') THEN came'[k] ELSE Comes(k - Len(came))'
  BY <1>4, <1>7, <1>8
<1> QED  BY <1>1, <1>2, <1>4, <1>5, <1>8, <1>9 DEF AtRead, Shifts

(* ... and while one is written.                                           *)
LEMMA WriteR1Exchanges ==
  ASSUME IInv, inserted, Exchanges, ~sd_cs, AtWrite, pc = "write_r1"
  PROVE  AtWrite' /\ store' = store
<1>1. /\ Filling /\ (Expecting \/ expect = "token")
      /\ r = "00" => /\ expect = "token" /\ Quiet
                     /\ target \in Block /\ (kind = "hc" => target = addr)
  BY DEF AtWrite
<1>2. Idles
  BY <1>1, FillingIdles
<1>3. /\ Filling' /\ UNCHANGED <<cmd, store, kind, addr, pc, expect, got, target>> /\ PutOut(queue)
  BY <1>2 DEF Idles, call
<1>4. r' = r
  BY <1>3 DEF r
<1>5. Quiet => Quiet'
  BY <1>3, QuietShifts DEF IInv
<1> QED  BY <1>1, <1>3, <1>4, <1>5 DEF AtWrite, Expecting

LEMMA WriteBusyExchanges ==
  ASSUME IInv, inserted, Exchanges, ~sd_cs, AtWrite, pc = "write_busy"
  PROVE  AtWrite' /\ store' = store
<1>1. Expecting /\ Filling /\ Dull /\ Wrote
  BY DEF AtWrite
<1>2. Idles
  BY <1>1, FillingIdles
<1>3. /\ Filling' /\ UNCHANGED <<store, kind, addr, pc, target, before, buf>> /\ PutOut(queue)
  BY <1>2 DEF Idles, call
<1>4. Dull'
  BY <1>1, <1>3, DullMoves DEF IInv
<1>5. Expecting'
  BY <1>1, <1>2, IdleFacts
<1>6. Wrote'
  BY <1>1, <1>3 DEF Wrote
<1> QED  BY <1>1, <1>3, <1>4, <1>5, <1>6 DEF AtWrite

LEMMA RowBytes ==
  ASSUME buf \in Seq(Names), Len(buf) = BLOCK
  PROVE  /\ Len(Row) = BLOCK + 5 /\ Row[1] = "FF" /\ Row[2] = "FE"
         /\ \A k \in 1 .. BLOCK : Row[k + 2] = buf[k]
         /\ \A k \in BLOCK + 3 .. BLOCK + 5 : Row[k] = "FF"
<1>1. {"FF", "FE"} \subseteq Names
  BY NamedNames DEF Named
<1>2. BLOCK \in Nat
  BY MediumAssumption
<1> DEFINE start == <<"FF", "FE">>
           end == <<"FF", "FF", "FF">>
           most == start \o buf
<1>3. start \in Seq(Names) /\ Len(start) = 2 /\ start[1] = "FF" /\ start[2] = "FE"
  BY <1>1
<1>4. end \in Seq(Names) /\ Len(end) = 3 /\ end[1] = "FF" /\ end[2] = "FF" /\ end[3] = "FF"
  BY <1>1
<1> HIDE DEF start, end
<1>5. /\ most \in Seq(Names) /\ Len(most) = BLOCK + 2
      /\ \A k \in 1 .. BLOCK + 2 : most[k] = IF k <= 2 THEN start[k] ELSE buf[k - 2]
  <2>1. /\ start \o buf \in Seq(Names) /\ Len(start \o buf) = Len(start) + Len(buf)
        /\ \A k \in 1 .. Len(start) + Len(buf) :
             (start \o buf)[k] = IF k <= Len(start) THEN start[k] ELSE buf[k - Len(start)]
    BY <1>3, ConcatProperties
  <2>2. Len(start) + Len(buf) = BLOCK + 2 /\ Len(start) = 2
    BY <1>2, <1>3
  <2> QED  BY <2>1, <2>2
<1> HIDE DEF most
<1>6. /\ Len(most \o end) = BLOCK + 5
      /\ \A k \in 1 .. BLOCK + 5 :
           (most \o end)[k] = IF k <= BLOCK + 2 THEN most[k] ELSE end[k - (BLOCK + 2)]
  <2>1. /\ Len(most \o end) = Len(most) + Len(end)
        /\ \A k \in 1 .. Len(most) + Len(end) :
             (most \o end)[k] = IF k <= Len(most) THEN most[k] ELSE end[k - Len(most)]
    BY <1>4, <1>5, ConcatProperties
  <2>2. Len(most) + Len(end) = BLOCK + 5 /\ Len(most) = BLOCK + 2
    BY <1>2, <1>4, <1>5
  <2> QED  BY <2>1, <2>2
<1>7. Row = most \o end
  BY DEF Row, most, start, end
<1>8. Row[1] = "FF" /\ Row[2] = "FE"
  BY <1>2, <1>3, <1>5, <1>6, <1>7
<1>9. \A k \in 1 .. BLOCK : Row[k + 2] = buf[k]
  <2> SUFFICES ASSUME NEW k \in 1 .. BLOCK PROVE Row[k + 2] = buf[k]
    OBVIOUS
  <2>1. k + 2 \in 1 .. BLOCK + 5 /\ k + 2 <= BLOCK + 2 /\ k + 2 \in 1 .. BLOCK + 2
        /\ ~(k + 2 <= 2) /\ (k + 2) - 2 = k
    BY <1>2
  <2> QED  BY <1>5, <1>6, <1>7, <2>1
<1>10. \A k \in BLOCK + 3 .. BLOCK + 5 : Row[k] = "FF"
  <2> SUFFICES ASSUME NEW k \in BLOCK + 3 .. BLOCK + 5 PROVE Row[k] = "FF"
    OBVIOUS
  <2>1. k \in 1 .. BLOCK + 5 /\ ~(k <= BLOCK + 2) /\ k - (BLOCK + 2) \in {1, 2, 3}
    BY <1>2
  <2> QED  BY <1>4, <1>6, <1>7, <2>1
<1> QED  BY <1>6, <1>7, <1>8, <1>9, <1>10

LEMMA FFIgnored ==
  ASSUME TakeByte("FF"), Expecting \/ expect = "token"
  PROVE  Ignores("FF")
<1>1. CASE expect = "command" /\ got = <<>>
  <2>1. ~Collects("FF")
    BY <1>1 DEF Collects, Commands
  <2>2. ~Obeys("FF")
    BY <1>1 DEF Obeys
  <2>3. ~Opens("FF") /\ ~Stores("FF")
    BY <1>1 DEF Opens, Stores
  <2> QED  BY <2>1, <2>2, <2>3 DEF TakeByte
<1>2. CASE expect = "token"
  BY <1>2 DEF TakeByte, Collects, Obeys, Opens, Stores
<1> QED  BY <1>1, <1>2 DEF Expecting

LEMMA CalmIdle ==
  ASSUME CardOK, Calm
  PROVE  ~Busy
BY DEF CardOK, Calm, Busy

(* The card has taken in the whole block, and stores it or not.            *)
LEMMA BlockTaken ==
  ASSUME CardOK, Whole(buf), NEW b, Stores(b),
         \A k \in 1 .. BLOCK : got[k] = buf[k],
         store = before, target \in Block, \A c \in Block : Whole(store[c]),
         UNCHANGED <<call, kind>>, kind = "hc" => target = addr
  PROVE  /\ Expecting' /\ target' = target
         /\ \A c \in Block : Whole(store'[c])
         /\ \/ out' = "05" /\ queue' = <<"busy">> /\ Wrote'
            \/ out' = "0D" /\ queue' = <<>> /\ store' = before'
<1>1. Expecting' /\ target' = target /\ Len(got) = BLOCK + 1
  BY DEF Stores, Expecting
<1>2. CASE /\ PutOut(<<"05", "busy">>)
           /\ store' = [store EXCEPT ![target] = SubSeq(got, 1, BLOCK)]
  <2>1. out' = "05" /\ queue' = <<"busy">>
    BY <1>2 DEF PutOut
  <2>2. SubSeq(got, 1, BLOCK) = buf
    BY <1>1, MediumAssumption DEF CardOK, Whole
  <2>3. store' = [before EXCEPT ![target] = buf]
    BY <1>2, <2>2
  <2>4. Wrote'
    BY <1>1, <2>3 DEF Wrote, call
  <2>5. \A c \in Block : Whole(store'[c])
    BY <2>3 DEF CardOK
  <2> QED  BY <1>1, <2>1, <2>4, <2>5
<1>3. CASE PutOut(<<"0D">>) /\ UNCHANGED store
  <2>1. out' = "0D" /\ queue' = <<>>
    BY <1>3 DEF PutOut
  <2> QED  BY <1>1, <1>3, <2>1 DEF call
<1> QED  BY <1>2, <1>3 DEF Stores

LEMMA WriteRespExchanges ==
  ASSUME IInv, inserted, Exchanges, ~sd_cs, AtWrite, pc = "write_resp",
         Whole(buf), \A c \in Block : Whole(store[c])
  PROVE  AtWrite' /\ \A c \in Block : Whole(store'[c])
<1>1. left \in Seq(Names) /\ came \in Seq(Names) /\ out \in Names /\ CardOK
  BY BytesMoved DEF IInv, CardOK
<1>2. PICK p \in Nat : p = Len(came)
  BY <1>1
<1>3. /\ p + Len(left) = BLOCK + 5
      /\ \A k \in 1 .. Len(left) : left[k] = Row[p + k]
      /\ target \in Block /\ (kind = "hc" => target = addr)
      /\ p < BLOCK + 4 => Quiet /\ store = before
      /\ p < 2 => expect = "token"
      /\ p \in 2 .. BLOCK + 3 =>
           expect = "data" /\ Len(got) = p - 2 /\ \A k \in 1 .. p - 2 : got[k] = Row[k + 2]
      /\ p = BLOCK + 4 =>
           /\ Expecting
           /\ \/ out = "05" /\ queue \in {<<>>, <<"busy">>} /\ Wrote
              \/ out = "0D" /\ queue = <<>> /\ store = before
  BY <1>2 DEF AtWrite
<1>4. /\ left # <<>> /\ left' = Tail(left) /\ came' = Append(came, out)
      /\ TakeByte(Head(left)) /\ UNCHANGED <<call, kind, inserted, sd_cs>>
  BY DEF Exchanges
<1>5. /\ Len(left') = Len(left) - 1 /\ Len(left) \in Nat /\ Len(left) > 0
      /\ Head(left) = left[1] /\ \A k \in 1 .. Len(left') : left'[k] = left[k + 1]
  BY <1>1, <1>4, TailRest
<1>6. Len(came') = p + 1 /\ Last(came') = out
  BY <1>1, <1>2, <1>4, LastAppend
<1>7. Row' = Row /\ pc' = "write_resp" /\ UNCHANGED <<before, addr, buf, kind>>
  BY <1>4 DEF Row, call
<1>8. /\ (p + 1) + Len(left') = BLOCK + 5
      /\ \A k \in 1 .. Len(left') : left'[k] = Row[(p + 1) + k]
  <2>1. \A k \in 1 .. Len(left') : k + 1 \in 1 .. Len(left) /\ p + (k + 1) = (p + 1) + k
    BY <1>5
  <2> QED  BY <1>3, <1>5, <2>1, MediumAssumption
<1>9. TakeByte(Row[p + 1]) /\ p < BLOCK + 5 /\ BLOCK \in Nat
  BY <1>3, <1>4, <1>5, MediumAssumption
<1>10. /\ Row[1] = "FF" /\ Row[2] = "FE" /\ Row[BLOCK + 5] = "FF"
       /\ \A k \in 1 .. BLOCK : Row[k + 2] = buf[k]
  <2>1. buf \in Seq(Names) /\ Len(buf) = BLOCK
    BY NamedNames DEF Whole
  <2> QED  BY <1>9, <2>1, RowBytes
<1>11. p < BLOCK + 4 => ~Busy /\ (PutOut(queue) => Quiet')
  BY <1>1, <1>3, CalmIdle, QuietShifts DEF Quiet, Silent
<1>12. CASE p = 0
  <2>1. p + 1 = 1 /\ TakeByte("FF") /\ expect = "token"
    BY <1>3, <1>9, <1>10, <1>12
  <2>2. Ignores("FF")
    BY <2>1, FFIgnored
  <2>3. UNCHANGED <<expect, target, store>> /\ Quiet' /\ store = before
    BY <1>3, <1>9, <1>11, <1>12, <2>2 DEF Ignores
  <2>4. Len(came') = 1 /\ 1 < BLOCK + 4 /\ 1 # BLOCK + 4 /\ 1 # BLOCK + 5 /\ 1 \notin 2 .. BLOCK + 3
    BY <1>6, <1>9, <1>12
  <2> QED  BY <1>3, <1>7, <1>8, <1>12, <2>1, <2>3, <2>4 DEF AtWrite
<1>13. CASE p = 1
  <2>1. p + 1 = 2 /\ TakeByte("FE") /\ expect = "token" /\ ~Busy
    BY <1>3, <1>9, <1>10, <1>11, <1>13
  <2>2. Opens("FE")
    BY <2>1 DEF TakeByte, Ignores, Collects, Obeys, Stores
  <2>3. expect' = "data" /\ got' = <<>> /\ UNCHANGED <<target, store>> /\ Quiet' /\ store = before
    BY <1>3, <1>9, <1>11, <1>13, <2>2 DEF Opens
  <2>4. Len(came') = 2 /\ 2 < BLOCK + 4 /\ 2 # BLOCK + 4 /\ 2 # BLOCK + 5 /\ ~(2 < 2)
    BY <1>6, <1>9, <1>13
  <2>5. Len(got') = 2 - 2 /\ \A k \in 1 .. 2 - 2 : got'[k] = Row[k + 2]
    BY <2>3
  <2> QED  BY <1>3, <1>7, <1>8, <1>13, <2>1, <2>3, <2>4, <2>5 DEF AtWrite
<1>14. CASE p \in 2 .. BLOCK + 2
  <2>1. p \in 2 .. BLOCK + 3 /\ p < BLOCK + 4 /\ p + 1 \in 2 .. BLOCK + 3
        /\ p - 2 < BLOCK + 1 /\ p - 2 \in Nat
    BY <1>9, <1>14
  <2>2. expect = "data" /\ Len(got) = p - 2 /\ \A k \in 1 .. p - 2 : got[k] = Row[k + 2]
    BY <1>3, <2>1
  <2>3. Collects(Row[p + 1])
    <3>1. Len(got) # BLOCK + 1
      BY <1>9, <2>1, <2>2
    <3> QED  BY <1>9, <1>11, <2>1, <2>2, <3>1
        DEF TakeByte, Ignores, Obeys, Opens, Stores
  <2>4. /\ got' = Append(got, Row[p + 1]) /\ UNCHANGED <<expect, target, store>>
        /\ Quiet' /\ store = before
    BY <1>3, <1>11, <2>1, <2>3 DEF Collects
  <2>5. Row[p + 1] \in Names
    BY <1>1, <1>3, <1>4, <1>5
  <2>6. Len(got') = (p + 1) - 2 /\ \A k \in 1 .. (p + 1) - 2 : got'[k] = Row[k + 2]
    <3>1. /\ Len(got') = Len(got) + 1 /\ got'[Len(got) + 1] = Row[p + 1]
          /\ \A k \in 1 .. Len(got) : got'[k] = got[k]
      BY <1>1, <2>4, <2>5, AppendProperties DEF CardOK
    <3>2. \A k \in 1 .. (p + 1) - 2 : k \in 1 .. p - 2 \/ (k = p - 1 /\ k + 2 = p + 1)
      BY <2>1
    <3>3. Len(got) + 1 = p - 1 /\ Len(got) + 1 = (p + 1) - 2
      BY <2>2
    <3> QED  BY <2>2, <3>1, <3>2, <3>3
  <2>7. p + 1 < BLOCK + 4 /\ p + 1 # BLOCK + 4 /\ p + 1 # BLOCK + 5 /\ ~(p + 1 < 2)
    BY <2>1, <1>9
  <2> QED  BY <1>3, <1>6, <1>7, <1>8, <2>1, <2>2, <2>4, <2>6, <2>7 DEF AtWrite
<1>15. CASE p = BLOCK + 3
  <2>1. p \in 2 .. BLOCK + 3 /\ p < BLOCK + 4 /\ p - 2 = BLOCK + 1
    BY <1>9, <1>15
  <2>2. /\ expect = "data" /\ Len(got) = BLOCK + 1 /\ store = before
        /\ \A k \in 1 .. BLOCK + 1 : got[k] = Row[k + 2]
    BY <1>3, <2>1
  <2>3. Stores(Row[p + 1])
    <3>1. ~(Len(got) < BLOCK + 1)
      BY <1>9, <2>2
    <3> QED  BY <1>9, <1>11, <2>1, <2>2, <3>1
        DEF TakeByte, Ignores, Obeys, Opens, Collects
  <2>4. \A k \in 1 .. BLOCK : got[k] = buf[k]
    <3>1. \A k \in 1 .. BLOCK : k \in 1 .. BLOCK + 1
      BY <1>9
    <3> QED  BY <1>10, <2>2, <3>1
  <2>5. /\ Expecting' /\ target' = target
        /\ \A c \in Block : Whole(store'[c])
        /\ \/ out' = "05" /\ queue' = <<"busy">> /\ Wrote'
           \/ out' = "0D" /\ queue' = <<>> /\ store' = before'
    BY <1>1, <1>3, <1>4, <2>2, <2>3, <2>4, BlockTaken
  <2>6. /\ Len(came') = BLOCK + 4 /\ ~(BLOCK + 4 < BLOCK + 4) /\ ~(BLOCK + 4 < 2)
        /\ BLOCK + 4 \notin 2 .. BLOCK + 3 /\ BLOCK + 4 # BLOCK + 5
    BY <1>6, <1>9, <1>15
  <2>7. p + 1 = BLOCK + 4
    BY <1>9, <1>15
  <2> QED  BY <1>3, <1>7, <1>8, <2>5, <2>6, <2>7 DEF AtWrite
<1>16. CASE p = BLOCK + 4
  <2>1. p + 1 = BLOCK + 5 /\ TakeByte("FF") /\ Expecting
    BY <1>3, <1>9, <1>10, <1>16
  <2>2. Ignores("FF")
    BY <2>1, FFIgnored
  <2>3. UNCHANGED <<expect, got, target, store>> /\ PutOut(queue)
    BY <2>2 DEF Ignores
  <2>4. Expecting' /\ (Wrote => Wrote')
    BY <1>7, <2>1, <2>3 DEF Expecting, Wrote
  <2>5. out = "05" /\ queue \in {<<>>, <<"busy">>} => Dull'
    BY <1>1, <2>3, RestedDull
  <2>6. \/ Last(came') = "05" /\ Dull' /\ Wrote'
        \/ Last(came') = "0D" /\ store' = before'
    BY <1>3, <1>6, <1>7, <1>16, <2>3, <2>4, <2>5
  <2>7. /\ Len(came') = BLOCK + 5 /\ ~(BLOCK + 5 < BLOCK + 4) /\ ~(BLOCK + 5 < 2)
        /\ BLOCK + 5 \notin 2 .. BLOCK + 3 /\ BLOCK + 5 # BLOCK + 4
    BY <1>6, <1>9, <1>16
  <2> QED  BY <1>3, <1>7, <1>8, <2>1, <2>3, <2>4, <2>6, <2>7 DEF AtWrite
<1>17. p = 0 \/ p = 1 \/ p \in 2 .. BLOCK + 2 \/ p = BLOCK + 3 \/ p = BLOCK + 4
  BY <1>9
<1> QED  BY <1>12, <1>13, <1>14, <1>15, <1>16, <1>17

-----------------------------------------------------------------------------
(* A command is sent, and answered.                                        *)

LEMMA FrameBytes ==
  ASSUME NEW c \in Names, NEW arg \in Seq(Names), Len(arg) = 4, NEW crc \in Names
  PROVE  LET f == Frame(c, arg, crc) IN
         /\ f \in Seq(Names) /\ Len(f) = 6 /\ f[1] = c /\ f[6] = crc
         /\ f[2] = arg[1] /\ f[3] = arg[2] /\ f[4] = arg[3] /\ f[5] = arg[4]
<1> DEFINE most == <<c>> \o arg
<1>1. <<c>> \in Seq(Names) /\ Len(<<c>>) = 1 /\ <<c>>[1] = c
  OBVIOUS
<1>2. <<crc>> \in Seq(Names) /\ Len(<<crc>>) = 1 /\ <<crc>>[1] = crc
  OBVIOUS
<1>3. /\ most \in Seq(Names) /\ Len(most) = 5
      /\ \A k \in 1 .. 5 : most[k] = IF k <= 1 THEN <<c>>[k] ELSE arg[k - 1]
  <2>1. /\ most \in Seq(Names) /\ Len(most) = Len(<<c>>) + Len(arg)
        /\ \A k \in 1 .. Len(<<c>>) + Len(arg) :
             most[k] = IF k <= Len(<<c>>) THEN <<c>>[k] ELSE arg[k - Len(<<c>>)]
    BY <1>1, ConcatProperties
  <2> QED  BY <1>1, <2>1
<1> HIDE DEF most
<1>4. /\ most \o <<crc>> \in Seq(Names) /\ Len(most \o <<crc>>) = 6
      /\ \A k \in 1 .. 6 :
           (most \o <<crc>>)[k] = IF k <= 5 THEN most[k] ELSE <<crc>>[k - 5]
  <2>1. /\ most \o <<crc>> \in Seq(Names) /\ Len(most \o <<crc>>) = Len(most) + Len(<<crc>>)
        /\ \A k \in 1 .. Len(most) + Len(<<crc>>) :
             (most \o <<crc>>)[k] = IF k <= Len(most) THEN most[k]
                                    ELSE <<crc>>[k - Len(most)]
    BY <1>2, <1>3, ConcatProperties
  <2> QED  BY <1>2, <1>3, <2>1
<1>5. /\ most[1] = c /\ most[2] = arg[1] /\ most[3] = arg[2] /\ most[4] = arg[3]
      /\ most[5] = arg[4]
  BY <1>1, <1>3
<1>6. Frame(c, arg, crc) = most \o <<crc>>
  BY DEF Frame, most
<1> QED  BY <1>2, <1>4, <1>5, <1>6

LEMMA BlockFrame ==
  ASSUME NEW c \in Names, NEW a \in Addresses
  PROVE  LET f == Frame(c, AddressArg(a), "01") IN
         f \in Seq(Names) /\ Len(f) = 6 /\ f[1] = c /\ f[5] = NumberByte[a]
<1>1. "00" \in Names /\ "01" \in Names /\ NumberByte[a] \in Names
  BY MediumAssumption, NamedNames DEF Named
<1> DEFINE arg == AddressArg(a)
<1>2. arg \in Seq(Names) /\ Len(arg) = 4 /\ arg[4] = NumberByte[a]
  BY <1>1 DEF AddressArg
<1> HIDE DEF arg
<1>3. arg \in Seq(Names) /\ Len(arg) = 4 /\ "01" \in Names
  BY <1>1, <1>2
<1>4. LET f == Frame(c, arg, "01") IN
      f \in Seq(Names) /\ Len(f) = 6 /\ f[1] = c /\ f[5] = arg[4]
  BY <1>3, FrameBytes
<1> QED  BY <1>2, <1>4 DEF arg

LEMMA OrderFacts ==
  ASSUME Orders, cmd.next \in {"read_r1", "write_r1"} => addr \in Addresses
  PROVE  /\ Len(cmd.frame) = 6 /\ cmd.frame \in Seq(Names) /\ cmd.frame[1] \in Commands
         /\ cmd.next = "init_reset" => cmd.frame[1] = "CMD0" /\ cmd.frame[6] = "95"
         /\ cmd.next = "init_check" =>
              /\ cmd.frame[1] = "CMD8" /\ cmd.frame[6] = "87"
              /\ cmd.frame[4] = "01" /\ cmd.frame[5] = "AA"
         /\ cmd.next = "init_app" => cmd.frame[1] = "CMD55"
         /\ cmd.next = "init_opcond" => cmd.frame[1] = "CMD41"
         /\ cmd.next = "init_length" => cmd.frame[1] = "CMD16"
         /\ cmd.next = "read_r1" => cmd.frame[1] = "CMD17" /\ cmd.frame[5] = NumberByte[addr]
         /\ cmd.next = "write_r1" => cmd.frame[1] = "CMD24" /\ cmd.frame[5] = NumberByte[addr]
<1>1. Named \subseteq Names
  BY NamedNames
<1>2. NoArg \in Seq(Names) /\ Len(NoArg) = 4
  BY <1>1, RepeatNames DEF NoArg, Named
<1>3. CASE cmd.next = "init_reset"
  <2>1. cmd.frame = Frame("CMD0", NoArg, "95") /\ "CMD0" \in Names /\ "95" \in Names
    BY <1>1, <1>3 DEF Orders, Named
  <2> QED  BY <1>2, <1>3, <2>1, FrameBytes DEF Commands
<1>4. CASE cmd.next = "init_check"
  <2> DEFINE arg == <<"00", "00", "01", "AA">>
  <2>1. cmd.frame = Frame("CMD8", arg, "87") /\ "CMD8" \in Names /\ "87" \in Names
    BY <1>1, <1>4 DEF Orders, Named
  <2>2. arg \in Seq(Names) /\ Len(arg) = 4 /\ arg[3] = "01" /\ arg[4] = "AA"
    BY <1>1 DEF Named
  <2> HIDE DEF arg
  <2> QED  BY <1>4, <2>1, <2>2, FrameBytes DEF Commands
<1>5. CASE cmd.next = "init_app"
  <2>1. cmd.frame = Frame("CMD55", NoArg, "01") /\ "CMD55" \in Names /\ "01" \in Names
    BY <1>1, <1>5 DEF Orders, Named
  <2> QED  BY <1>2, <1>5, <2>1, FrameBytes DEF Commands
<1>6. CASE cmd.next = "init_opcond"
  <2> DEFINE arg == <<"40", "00", "00", "00">>
  <2>1. cmd.frame = Frame("CMD41", arg, "01") /\ "CMD41" \in Names /\ "01" \in Names
    BY <1>1, <1>6 DEF Orders, Named
  <2>2. arg \in Seq(Names) /\ Len(arg) = 4
    BY <1>1 DEF Named
  <2> HIDE DEF arg
  <2> QED  BY <1>6, <2>1, <2>2, FrameBytes DEF Commands
<1>7. CASE cmd.next = "init_length"
  <2> DEFINE arg == <<"00", "00", "02", "00">>
  <2>1. cmd.frame = Frame("CMD16", arg, "01") /\ "CMD16" \in Names /\ "01" \in Names
    BY <1>1, <1>7 DEF Orders, Named
  <2>2. arg \in Seq(Names) /\ Len(arg) = 4
    BY <1>1 DEF Named
  <2> HIDE DEF arg
  <2> QED  BY <1>7, <2>1, <2>2, FrameBytes DEF Commands
<1>8. CASE cmd.next \in {"read_r1", "write_r1"}
  <2>1. addr \in Addresses /\ "CMD17" \in Names /\ "CMD24" \in Names
    BY <1>1, <1>8 DEF Named
  <2>2. PICK a \in Addresses : a = addr
    BY <2>1
  <2>3. CASE cmd.next = "read_r1"
    <3>1. cmd.frame = Frame("CMD17", AddressArg(a), "01")
      BY <2>2, <2>3 DEF Orders
    <3> QED  BY <2>1, <2>2, <2>3, <3>1, BlockFrame DEF Commands
  <2>4. CASE cmd.next = "write_r1"
    <3>1. cmd.frame = Frame("CMD24", AddressArg(a), "01")
      BY <2>2, <2>4 DEF Orders
    <3> QED  BY <2>1, <2>2, <2>4, <3>1, BlockFrame DEF Commands
  <2> QED  BY <1>8, <2>3, <2>4
<1> QED  BY <1>3, <1>4, <1>5, <1>6, <1>7, <1>8 DEF Orders, Returns

(* An answer of one byte.                                                  *)
LEMMA ShortAnswer ==
  ASSUME NEW v \in Names, v # "busy", Answer(<<v>>), Answered(v)', cmd' = cmd,
         ~(cmd.next = "init_check" /\ v = "01"), ~(cmd.next = "read_r1" /\ v = "00")
  PROVE  \E m \in 0 .. NCR : Awaited(m, v)'
<1>1. PICK m \in 0 .. NCR : /\ Silent(m + 1)' /\ Comes(m + 1)' = v
                            /\ \A k \in 1 .. m : Comes(k)' = "FF"
  BY ByteOut
<1>2. Follows(m + 1, v)'
  BY <1>1 DEF Follows
<1>3. Calm'
  BY <1>1 DEF Silent
<1>4. Awaited(m, v)'
  BY <1>1, <1>2, <1>3 DEF Awaited
<1> QED  BY <1>4

(* What is the same of each command.                                       *)
Obeyed == /\ CardOK /\ Orders /\ Before /\ state \in {"power", "idle", "ready"}
          /\ (cmd.next \in {"read_r1", "write_r1"} => addr \in Addresses)
          /\ expect = "command" /\ got' = <<>> /\ Command(cmd.frame)
          /\ UNCHANGED <<store, cmd, kind, addr>>

LEMMA ResetAnswered ==
  ASSUME Obeyed, cmd.next = "init_reset"
  PROVE  \E m \in 0 .. NCR, v \in Names : Awaited(m, v)'
<1>1. cmd.frame[1] = "CMD0" /\ cmd.frame[6] = "95" /\ (state = "power" => clocks >= WAKE)
  BY OrderFacts DEF Obeyed, Before
<1>2. Resets(cmd.frame)
  BY <1>1 DEF Obeyed, Command, Legal, Checks, Confirms, Initialises, Reads, Writes
<1>3. Answer(<<"01">>) /\ state' = "idle" /\ opcond' = FALSE /\ expect' = expect
  BY <1>2 DEF Resets
<1>4. Answered("01")'
  BY <1>3 DEF Obeyed, Answered, Expecting, IsR1
<1>5. "01" \in Names
  BY NamedNames DEF Named
<1>6. \E m \in 0 .. NCR : Awaited(m, "01")'
  BY <1>3, <1>4, <1>5, ShortAnswer DEF Obeyed
<1> QED  BY <1>5, <1>6

LEMMA CheckAnswered ==
  ASSUME Obeyed, cmd.next = "init_check"
  PROVE  \E m \in 0 .. NCR, v \in Names : Awaited(m, v)'
<1>1. /\ cmd.frame[1] = "CMD8" /\ cmd.frame[6] = "87" /\ cmd.frame[4] = "01"
      /\ cmd.frame[5] = "AA" /\ state = "idle" /\ ~opcond
  BY OrderFacts DEF Obeyed, Before
<1>2. {"01", "05", "00", "AA"} \subseteq Names /\ NCR \in Nat
  BY NamedNames, MediumAssumption DEF Named
<1>3. CASE kind = "old"
  <2>1. Refuses
    BY <1>1, <1>3 DEF Obeyed, Command, Legal
  <2>2. Answer(<<"05">>) /\ UNCHANGED <<state, opcond, expect, target>>
    BY <1>1, <2>1 DEF Refuses
  <2>3. Answered("05")'
    BY <1>1, <1>3, <2>2 DEF Obeyed, Answered, Expecting, IsR1
  <2>4. \E m \in 0 .. NCR : Awaited(m, "05")'
    BY <1>2, <2>2, <2>3, ShortAnswer DEF Obeyed
  <2> QED  BY <1>2, <2>4
<1>4. CASE kind # "old"
  <2>1. Checks(cmd.frame)
    BY <1>1, <1>4 DEF Obeyed, Command, Legal, Resets, Confirms, Initialises, Reads, Writes
  <2> DEFINE bytes == <<"01", "00", "00", "01", "AA">>
  <2>2. Answer(bytes) /\ UNCHANGED <<state, opcond, expect, target>>
    BY <1>1, <2>1 DEF Checks, R1
  <2>3. /\ bytes \in Seq(Names) /\ Len(bytes) = 5 /\ bytes[1] = "01" /\ bytes[2] = "00"
        /\ bytes[3] = "00" /\ bytes[4] = "01" /\ bytes[5] = "AA"
        /\ \A k \in 1 .. 5 : bytes[k] # "busy"
    BY <1>2
  <2> HIDE DEF bytes
  <2>4. PICK n \in 0 .. NCR :
          Calm' /\ \A k \in Place : Comes(k)' = IF n < k /\ k <= n + 5 THEN bytes[k - n]
                                                ELSE "FF"
    BY <2>2, <2>3, AnswerOut
  <2>5. n \in Nat /\ n + 1 \in Nat
    BY <1>2
  <2>6. ASSUME NEW j \in 1 .. 5
        PROVE  Comes(n + j)' = bytes[j]
    <3>1. n + j \in Place /\ n < n + j /\ n + j <= n + 5 /\ (n + j) - n = j
      BY <2>5 DEF Place
    <3> QED  BY <2>4, <3>1
  <2>7. \A k \in 1 .. n : Comes(k)' = "FF"
    <3>1. \A k \in 1 .. n : k \in Place /\ ~(n < k)
      BY <2>5 DEF Place
    <3> QED  BY <2>4, <3>1
  <2>8. Silent((n + 1) + 4)'
    <3>1. \A k \in Place : k > (n + 1) + 4 => ~(k <= n + 5)
      BY <2>5 DEF Place
    <3> QED  BY <2>4, <3>1 DEF Silent
  <2>9. \A k \in 1 .. 4 : Comes((n + 1) + k)' = Echo[k]
    <3> SUFFICES ASSUME NEW k \in 1 .. 4 PROVE Comes((n + 1) + k)' = Echo[k]
      OBVIOUS
    <3>1. k + 1 \in 1 .. 5 /\ n + (k + 1) = (n + 1) + k
      BY <2>5
    <3>2. Comes((n + 1) + k)' = bytes[k + 1]
      BY <2>6, <3>1
    <3>3. bytes[k + 1] = Echo[k]
      BY <2>3 DEF Echo
    <3> QED  BY <3>2, <3>3
  <2>10. Comes(n + 1)' = "01"
    BY <2>3, <2>6
  <2>11. Answered("01")'
    BY <1>1, <1>4, <2>2 DEF Obeyed, Answered, Expecting, IsR1
  <2>12. Follows(n + 1, "01")'
    <3>1. cmd'.next = "init_check"
      BY DEF Obeyed
    <3> QED  BY <2>8, <2>9, <3>1 DEF Follows, Echo
  <2>13. Awaited(n, "01")'
    BY <2>4, <2>7, <2>10, <2>11, <2>12 DEF Awaited
  <2> QED  BY <1>2, <2>13
<1> QED  BY <1>3, <1>4

LEMMA InitAnswered ==
  ASSUME Obeyed, cmd.next \in {"init_app", "init_opcond", "init_length"}
  PROVE  \E m \in 0 .. NCR, v \in Names : Awaited(m, v)'
<1>1. /\ state # "power" /\ kind # "old" /\ (cmd.next = "init_opcond" => app)
      /\ cmd.next = "init_length" => state = "ready"
  BY DEF Obeyed, Before
<1>2. /\ cmd.next = "init_app" => cmd.frame[1] = "CMD55"
      /\ cmd.next = "init_opcond" => cmd.frame[1] = "CMD41"
      /\ cmd.next = "init_length" => cmd.frame[1] = "CMD16"
  BY OrderFacts DEF Obeyed
<1>3. Legal(cmd.frame)
  BY <1>1, <1>2 DEF Legal
<1>4. /\ Confirms(cmd.frame) \/ Initialises(cmd.frame)
      /\ cmd.frame[1] = "CMD55" => app' = TRUE
  BY <1>2, <1>3 DEF Obeyed, Command, Resets, Checks, Reads, Writes
<1>5. Answer(<<R1>>) /\ UNCHANGED <<state, expect, target>>
  BY <1>4 DEF Confirms, Initialises
<1>6. R1 \in Names /\ R1 # "busy" /\ IsR1(R1) /\ (R1 = "00" => state = "ready")
      /\ (state = "ready" => R1 = "00")
  BY <1>1, NamedNames DEF R1, Named, IsR1, Obeyed
<1> DEFINE v == R1
<1>7. v \in Names /\ v # "busy" /\ IsR1(v) /\ (v = "00" => state = "ready")
      /\ (state = "ready" => v = "00") /\ Answer(<<v>>)
  BY <1>5, <1>6
<1>8. PICK w \in Names : /\ w # "busy" /\ IsR1(w) /\ (w = "00" => state = "ready")
                         /\ (state = "ready" => w = "00") /\ Answer(<<w>>)
  BY <1>7
<1>9. Answered(w)'
  BY <1>1, <1>2, <1>4, <1>5, <1>8 DEF Obeyed, Answered, Expecting, IsR1
<1>10. \E m \in 0 .. NCR : Awaited(m, w)'
  BY <1>8, <1>9, ShortAnswer DEF Obeyed
<1> QED  BY <1>10

LEMMA Addressed ==
  ASSUME NEW a \in Addresses, NEW b \in Located(Number(NumberByte[a]))
  PROVE  b \in Block /\ (kind = "hc" => b = a)
<1>1. Number(NumberByte[a]) = a
  <2>1. \A x \in Addresses : NumberByte[x] = NumberByte[a] => x = a
    BY MediumAssumption
  <2> QED  BY <2>1 DEF Number
<1> QED  BY <1>1 DEF Located

(* What a card sends that reads block b: its row of bytes.                 *)
LEMMA BlockRow ==
  ASSUME NEW m \in Nat, NEW data \in Seq(Contents)
  PROVE  LET row == <<"00">> \o Repeat(m, "FF") \o <<"FE">> \o data \o <<"AA", "AA">> IN
         /\ row \in Seq(Names) /\ Len(row) = m + Len(data) + 4
         /\ \A k \in 1 .. Len(row) : row[k] # "busy"
         /\ row[1] = "00" /\ (\A k \in 1 .. m : row[k + 1] = "FF") /\ row[m + 2] = "FE"
         /\ \A k \in 1 .. Len(data) : row[(m + 2) + k] = data[k]
<1> DEFINE a == <<"00">> \o Repeat(m, "FF")
           b == a \o <<"FE">>
           c == b \o data
           d == c \o <<"AA", "AA">>
<1>1. {"00", "FF", "FE", "AA"} \subseteq Names /\ Contents \subseteq Names /\ "busy" \notin Contents
  BY NamedNames, MediumAssumption DEF Named
<1>2. /\ Repeat(m, "FF") \in Seq(Names) /\ Len(Repeat(m, "FF")) = m
      /\ \A k \in 1 .. m : Repeat(m, "FF")[k] = "FF"
  BY <1>1, RepeatNames DEF Repeat
<1>3. /\ <<"00">> \in Seq(Names) /\ Len(<<"00">>) = 1 /\ <<"00">>[1] = "00"
      /\ <<"FE">> \in Seq(Names) /\ Len(<<"FE">>) = 1 /\ <<"FE">>[1] = "FE"
      /\ <<"AA", "AA">> \in Seq(Names) /\ Len(<<"AA", "AA">>) = 2
      /\ <<"AA", "AA">>[1] = "AA" /\ <<"AA", "AA">>[2] = "AA"
  BY <1>1
<1>4. data \in Seq(Names) /\ Len(data) \in Nat /\ \A k \in 1 .. Len(data) : data[k] # "busy"
  <2>1. \A k \in 1 .. Len(data) : data[k] \in Contents
    OBVIOUS
  <2> QED  BY <1>1, <2>1
<1>5. /\ a \in Seq(Names) /\ Len(a) = m + 1 /\ a[1] = "00"
      /\ \A k \in 1 .. m : a[k + 1] = "FF"
  <2>1. /\ a \in Seq(Names) /\ Len(a) = 1 + m
        /\ \A k \in 1 .. 1 + m : a[k] = IF k <= 1 THEN <<"00">>[k]
                                        ELSE Repeat(m, "FF")[k - 1]
    <3>1. /\ a \in Seq(Names) /\ Len(a) = Len(<<"00">>) + Len(Repeat(m, "FF"))
          /\ \A k \in 1 .. Len(<<"00">>) + Len(Repeat(m, "FF")) :
               a[k] = IF k <= Len(<<"00">>) THEN <<"00">>[k]
                      ELSE Repeat(m, "FF")[k - Len(<<"00">>)]
      BY <1>2, <1>3, ConcatProperties
    <3> QED  BY <1>2, <1>3, <3>1
  <2> HIDE DEF a
  <2>2. a[1] = "00"
    BY <1>3, <2>1
  <2>3. \A k \in 1 .. m : a[k + 1] = "FF"
    <3> SUFFICES ASSUME NEW k \in 1 .. m PROVE a[k + 1] = "FF"
      OBVIOUS
    <3>1. k + 1 \in 1 .. 1 + m /\ ~(k + 1 <= 1) /\ (k + 1) - 1 = k
      OBVIOUS
    <3> QED  BY <1>2, <2>1, <3>1
  <2> QED  BY <2>1, <2>2, <2>3
<1> HIDE DEF a
<1>6. /\ b \in Seq(Names) /\ Len(b) = m + 2 /\ b[m + 2] = "FE"
      /\ \A k \in 1 .. m + 1 : b[k] = a[k]
  <2>1. /\ b \in Seq(Names) /\ Len(b) = Len(a) + Len(<<"FE">>)
        /\ \A k \in 1 .. Len(a) + Len(<<"FE">>) :
             b[k] = IF k <= Len(a) THEN a[k] ELSE <<"FE">>[k - Len(a)]
    BY <1>3, <1>5, ConcatProperties
  <2> HIDE DEF b
  <2> QED  BY <1>3, <1>5, <2>1
<1> HIDE DEF b
<1>7. /\ c \in Seq(Names) /\ Len(c) = (m + 2) + Len(data)
      /\ \A k \in 1 .. m + 2 : c[k] = b[k]
      /\ \A k \in 1 .. Len(data) : c[(m + 2) + k] = data[k]
  <2>1. /\ c \in Seq(Names) /\ Len(c) = Len(b) + Len(data)
        /\ \A k \in 1 .. Len(b) + Len(data) :
             c[k] = IF k <= Len(b) THEN b[k] ELSE data[k - Len(b)]
    BY <1>4, <1>6, ConcatProperties
  <2> HIDE DEF c
  <2>2. \A k \in 1 .. m + 2 : c[k] = b[k]
    BY <1>4, <1>6, <2>1
  <2>3. \A k \in 1 .. Len(data) : c[(m + 2) + k] = data[k]
    <3> SUFFICES ASSUME NEW k \in 1 .. Len(data) PROVE c[(m + 2) + k] = data[k]
      OBVIOUS
    <3>1. (m + 2) + k \in 1 .. (m + 2) + Len(data) /\ ~((m + 2) + k <= m + 2)
          /\ ((m + 2) + k) - (m + 2) = k
      BY <1>4
    <3> QED  BY <1>6, <2>1, <3>1
  <2> QED  BY <1>6, <2>1, <2>2, <2>3
<1> HIDE DEF c
<1>8. /\ d \in Seq(Names) /\ Len(d) = ((m + 2) + Len(data)) + 2
      /\ \A k \in 1 .. (m + 2) + Len(data) : d[k] = c[k]
      /\ \A k \in 1 .. 2 : d[((m + 2) + Len(data)) + k] = "AA"
  <2>1. /\ d \in Seq(Names) /\ Len(d) = Len(c) + Len(<<"AA", "AA">>)
        /\ \A k \in 1 .. Len(c) + Len(<<"AA", "AA">>) :
             d[k] = IF k <= Len(c) THEN c[k] ELSE <<"AA", "AA">>[k - Len(c)]
    <3>1. c \in Seq(Names) /\ <<"AA", "AA">> \in Seq(Names)
      BY <1>3, <1>7
    <3> QED  BY <3>1, ConcatProperties
  <2>2. PICK l \in Nat : l = (m + 2) + Len(data)
    BY <1>4
  <2> HIDE DEF d
  <2>3. /\ d \in Seq(Names) /\ Len(d) = l + 2
        /\ \A k \in 1 .. l + 2 : d[k] = IF k <= l THEN c[k] ELSE <<"AA", "AA">>[k - l]
    BY <1>3, <1>7, <2>1, <2>2
  <2>4. \A k \in 1 .. l : d[k] = c[k]
    BY <2>3
  <2>5. \A k \in 1 .. 2 : d[l + k] = "AA"
    <3> SUFFICES ASSUME NEW k \in 1 .. 2 PROVE d[l + k] = "AA"
      OBVIOUS
    <3>1. l + k \in 1 .. l + 2 /\ ~(l + k <= l) /\ (l + k) - l = k
      OBVIOUS
    <3> QED  BY <1>3, <2>3, <3>1
  <2> QED  BY <2>2, <2>3, <2>4, <2>5
<1>9. /\ d[1] = "00" /\ (\A k \in 1 .. m : d[k + 1] = "FF") /\ d[m + 2] = "FE"
      /\ \A k \in 1 .. Len(data) : d[(m + 2) + k] = data[k]
  <2>1. d[1] = "00"
    BY <1>4, <1>5, <1>6, <1>7, <1>8
  <2>2. \A k \in 1 .. m : d[k + 1] = "FF"
    <3>1. \A k \in 1 .. m : k + 1 \in 1 .. m + 1 /\ k + 1 \in 1 .. m + 2
                            /\ k + 1 \in 1 .. (m + 2) + Len(data)
      BY <1>4
    <3> QED  BY <1>5, <1>6, <1>7, <1>8, <3>1
  <2>3. d[m + 2] = "FE"
    BY <1>4, <1>6, <1>7, <1>8
  <2>4. \A k \in 1 .. Len(data) : d[(m + 2) + k] = data[k]
    <3>1. \A k \in 1 .. Len(data) : (m + 2) + k \in 1 .. (m + 2) + Len(data)
      BY <1>4
    <3> QED  BY <1>7, <1>8, <3>1
  <2> QED  BY <2>1, <2>2, <2>3, <2>4
<1>10. \A k \in 1 .. Len(d) : d[k] # "busy"
  <2> SUFFICES ASSUME NEW k \in 1 .. Len(d) PROVE d[k] # "busy"
    OBVIOUS
  <2>1. CASE k = 1
    BY <1>9, <2>1
  <2>2. CASE k \in 2 .. m + 1
    <3>1. k - 1 \in 1 .. m /\ (k - 1) + 1 = k
      BY <2>2
    <3>2. d[(k - 1) + 1] = "FF"
      BY <1>9, <3>1
    <3> QED  BY <3>1, <3>2
  <2>3. CASE k = m + 2
    BY <1>9, <2>3
  <2>4. CASE k \in m + 3 .. (m + 2) + Len(data)
    <3>1. k - (m + 2) \in 1 .. Len(data) /\ (m + 2) + (k - (m + 2)) = k
      BY <1>4, <2>4
    <3>2. d[(m + 2) + (k - (m + 2))] = data[k - (m + 2)]
      BY <1>9, <3>1
    <3> QED  BY <1>4, <3>1, <3>2
  <2>5. CASE k > (m + 2) + Len(data)
    <3>1. PICK l \in Nat : l = (m + 2) + Len(data) /\ Len(d) = l + 2
      BY <1>4, <1>8
    <3>2. k - l \in 1 .. 2 /\ l + (k - l) = k
      BY <2>5, <3>1
    <3>3. d[l + (k - l)] = "AA"
      BY <1>8, <3>1, <3>2
    <3> QED  BY <3>2, <3>3
  <2> QED  BY <1>4, <1>8, <2>1, <2>2, <2>3, <2>4, <2>5
<1>11. Len(d) = m + Len(data) + 4
  BY <1>4, <1>8
<1>12. <<"00">> \o Repeat(m, "FF") \o <<"FE">> \o data \o <<"AA", "AA">> = d
  BY DEF a, b, c
<1> HIDE DEF d
<1> QED  BY <1>8, <1>9, <1>10, <1>11, <1>12

(* What it sends when it cannot read one.                                  *)
LEMMA ErrorRow ==
  ASSUME NEW m \in Nat
  PROVE  LET row == <<"00">> \o Repeat(m, "FF") \o <<"08">> IN
         /\ row \in Seq(Names) /\ Len(row) = m + 2
         /\ \A k \in 1 .. Len(row) : row[k] \notin {"busy", "FE"}
         /\ row[1] = "00"
<1> DEFINE a == <<"00">> \o Repeat(m, "FF")
           b == a \o <<"08">>
<1>1. {"00", "FF", "08"} \subseteq Names
  BY NamedNames DEF Named
<1>2. /\ Repeat(m, "FF") \in Seq(Names) /\ Len(Repeat(m, "FF")) = m
      /\ \A k \in 1 .. m : Repeat(m, "FF")[k] = "FF"
  BY <1>1, RepeatNames DEF Repeat
<1>3. /\ <<"00">> \in Seq(Names) /\ Len(<<"00">>) = 1 /\ <<"00">>[1] = "00"
      /\ <<"08">> \in Seq(Names) /\ Len(<<"08">>) = 1 /\ <<"08">>[1] = "08"
  BY <1>1
<1>4. /\ a \in Seq(Names) /\ Len(a) = 1 + m
      /\ \A k \in 1 .. 1 + m : a[k] = IF k <= 1 THEN "00" ELSE "FF"
  <2>1. /\ a \in Seq(Names) /\ Len(a) = Len(<<"00">>) + Len(Repeat(m, "FF"))
        /\ \A k \in 1 .. Len(<<"00">>) + Len(Repeat(m, "FF")) :
             a[k] = IF k <= Len(<<"00">>) THEN <<"00">>[k]
                    ELSE Repeat(m, "FF")[k - Len(<<"00">>)]
    BY <1>2, <1>3, ConcatProperties
  <2> HIDE DEF a
  <2>2. ASSUME NEW k \in 1 .. 1 + m
        PROVE  a[k] = IF k <= 1 THEN "00" ELSE "FF"
    <3>1. CASE k = 1
      BY <1>2, <1>3, <2>1, <3>1
    <3>2. CASE k # 1
      <4>1. k - 1 \in 1 .. m /\ ~(k <= 1)
        BY <3>2
      <4> QED  BY <1>2, <1>3, <2>1, <4>1
    <3> QED  BY <3>1, <3>2
  <2> QED  BY <1>2, <1>3, <2>1, <2>2
<1> HIDE DEF a
<1>5. /\ b \in Seq(Names) /\ Len(b) = m + 2 /\ b[m + 2] = "08"
      /\ \A k \in 1 .. m + 1 : b[k] = a[k]
  <2>1. /\ b \in Seq(Names) /\ Len(b) = Len(a) + Len(<<"08">>)
        /\ \A k \in 1 .. Len(a) + Len(<<"08">>) :
             b[k] = IF k <= Len(a) THEN a[k] ELSE <<"08">>[k - Len(a)]
    BY <1>3, <1>4, ConcatProperties
  <2> HIDE DEF b
  <2> QED  BY <1>3, <1>4, <2>1
<1>6. <<"00">> \o Repeat(m, "FF") \o <<"08">> = b
  BY DEF a
<1> HIDE DEF b
<1>7. b[1] = "00"
  BY <1>4, <1>5
<1>8. \A k \in 1 .. Len(b) : b[k] \notin {"busy", "FE"}
  <2> SUFFICES ASSUME NEW k \in 1 .. Len(b) PROVE b[k] \notin {"busy", "FE"}
    OBVIOUS
  <2>1. CASE k = m + 2
    BY <1>5, <2>1
  <2>2. CASE k \in 1 .. m + 1
    BY <1>4, <1>5, <2>2
  <2> QED  BY <1>5, <2>1, <2>2
<1> QED  BY <1>5, <1>6, <1>7, <1>8

(* A card that cannot do as it is told answers with an error, or not.      *)
LEMMA Refused ==
  ASSUME Obeyed, cmd.next \in {"read_r1", "write_r1"}, Refuses
  PROVE  (Quiet' /\ Expecting') \/ \E m \in 0 .. NCR, v \in Names : Awaited(m, v)'
<1>1. UNCHANGED <<state, opcond, expect, target>> /\ Expecting'
  BY DEF Refuses, Obeyed, Expecting
<1>2. CASE state = "power"
  <2>1. out' = "FF" /\ queue' = <<>>
    BY <1>2 DEF Refuses, PutOut
  <2>2. Quiet'
    BY <2>1 DEF Quiet, Silent, Calm, Comes, Place
  <2> QED  BY <1>1, <2>2
<1>3. CASE state # "power"
  <2>1. PICK v \in Names : v \in {"04", "05"} /\ Answer(<<v>>)
    <3>1. {"04", "05"} \subseteq Names
      BY NamedNames DEF Named
    <3> QED  BY <1>3, <3>1 DEF Refuses
  <2>2. Answered(v)'
    BY <1>1, <2>1 DEF Obeyed, Answered, IsR1
  <2>3. \E m \in 0 .. NCR : Awaited(m, v)'
    BY <2>1, <2>2, ShortAnswer DEF Obeyed
  <2> QED  BY <2>3
<1> QED  BY <1>2, <1>3

LEMMA ReadAnswered ==
  ASSUME Obeyed, cmd.next = "read_r1", \A b \in Block : Whole(store[b])
  PROVE  (Quiet' /\ Expecting') \/ \E m \in 0 .. NCR, v \in Names : Awaited(m, v)'
<1>1. cmd.frame[1] = "CMD17" /\ cmd.frame[5] = NumberByte[addr] /\ addr \in Addresses
  BY OrderFacts DEF Obeyed
<1>2. CASE ~Legal(cmd.frame)
  BY <1>2, Refused DEF Obeyed, Command
<1>3. CASE Legal(cmd.frame)
  <2>1. Reads(cmd.frame)
    BY <1>1, <1>3 DEF Obeyed, Command, Resets, Checks, Confirms, Initialises, Writes
  <2>2. UNCHANGED <<state, opcond, expect, target>> /\ Expecting' /\ cmd'.next = "read_r1"
    BY <2>1 DEF Reads, Obeyed, Expecting
  <2>3. \A v : IsR1(v) => Answered(v)'
    BY <2>2 DEF Obeyed, Answered
  <2>4. {"20", "00"} \subseteq Names /\ IsR1("20") /\ IsR1("00") /\ BLOCK \in Nat
    BY NamedNames, MediumAssumption DEF Named, IsR1
  <2>5. CASE Answer(<<"20">>)
    <3>1. \E m \in 0 .. NCR : Awaited(m, "20")'
      BY <2>3, <2>4, <2>5, ShortAnswer DEF Obeyed
    <3> QED  BY <2>4, <3>1
  <2>6. ASSUME NEW b \in Located(Number(cmd.frame[5])), NEW m \in 1 .. NAC,
               Answer(<<"00">> \o Repeat(m, "FF") \o <<"FE">> \o store[b] \o <<"AA", "AA">>)
        PROVE  \E n \in 0 .. NCR : Awaited(n, "00")'
    <3>1. b \in Block /\ (kind = "hc" => b = addr)
      BY <1>1, Addressed
    <3>2. store[b] \in Seq(Contents) /\ Len(store[b]) = BLOCK /\ m \in Nat /\ m \in Place
      BY <3>1, MediumAssumption DEF Whole, Place
    <3>3. PICK row \in Seq(Names) :
            /\ Answer(row)
            /\ Len(row) = m + BLOCK + 4
            /\ \A k \in 1 .. Len(row) : row[k] # "busy"
            /\ row[1] = "00" /\ (\A k \in 1 .. m : row[k + 1] = "FF") /\ row[m + 2] = "FE"
            /\ \A k \in 1 .. BLOCK : row[(m + 2) + k] = store[b][k]
      BY <2>6, <3>2, BlockRow
    <3>4. PICK n \in 0 .. NCR :
            Calm' /\ \A k \in Place : Comes(k)' = IF n < k /\ k <= n + Len(row) THEN row[k - n]
                                                  ELSE "FF"
      BY <3>3, AnswerOut
    <3>5. n \in Nat
      BY MediumAssumption
    <3>6. ASSUME NEW j \in Nat, j > 0, j <= m + BLOCK + 4
          PROVE  Comes(n + j)' = row[j]
      <4>1. n + j \in Place /\ n < n + j /\ n + j <= n + Len(row) /\ (n + j) - n = j
        BY <2>4, <3>2, <3>3, <3>5, <3>6 DEF Place
      <4> QED  BY <3>4, <4>1
    <3>7. \A k \in 1 .. n : Comes(k)' = "FF"
      <4>1. \A k \in 1 .. n : k \in Place /\ ~(n < k)
        BY <3>5 DEF Place
      <4> QED  BY <3>4, <4>1
    <3>8. Comes(n + 1)' = "00"
      <4>1. 1 \in Nat /\ 1 > 0 /\ 1 <= m + BLOCK + 4
        BY <2>4, <3>2
      <4>2. Comes(n + 1)' = row[1]
        BY <3>6, <4>1
      <4> QED  BY <3>3, <4>2
    <3>9. \A k \in 1 .. m : Comes((n + 1) + k)' = "FF"
      <4> SUFFICES ASSUME NEW k \in 1 .. m PROVE Comes((n + 1) + k)' = "FF"
        OBVIOUS
      <4>1. k + 1 \in Nat /\ k + 1 > 0 /\ k + 1 <= m + BLOCK + 4 /\ n + (k + 1) = (n + 1) + k
        BY <2>4, <3>2, <3>5
      <4>2. Comes(n + (k + 1))' = row[k + 1]
        BY <3>6, <4>1
      <4> QED  BY <3>3, <4>1, <4>2
    <3>10. Comes((n + 1) + m + 1)' = "FE"
      <4>1. m + 2 \in Nat /\ m + 2 > 0 /\ m + 2 <= m + BLOCK + 4 /\ n + (m + 2) = (n + 1) + m + 1
        BY <2>4, <3>2, <3>5
      <4>2. Comes(n + (m + 2))' = row[m + 2]
        BY <3>6, <4>1
      <4> QED  BY <3>3, <4>1, <4>2
    <3>11. \A k \in 1 .. BLOCK : Comes(((n + 1) + m + 1) + k)' = store'[b][k]
      <4> SUFFICES ASSUME NEW k \in 1 .. BLOCK
                   PROVE  Comes(((n + 1) + m + 1) + k)' = store'[b][k]
        OBVIOUS
      <4>1. /\ (m + 2) + k \in Nat /\ (m + 2) + k > 0 /\ (m + 2) + k <= m + BLOCK + 4
            /\ n + ((m + 2) + k) = ((n + 1) + m + 1) + k
        BY <2>4, <3>2, <3>5
      <4>2. Comes(n + ((m + 2) + k))' = row[(m + 2) + k]
        BY <3>6, <4>1
      <4> QED  BY <3>3, <4>1, <4>2 DEF Obeyed
    <3>12. Brings(n + 1, m, b)'
      <4>1. Sends((n + 1) + m + 1, b)'
        BY <3>11 DEF Sends
      <4> QED  BY <3>1, <3>9, <3>10, <4>1 DEF Brings, Obeyed
    <3>13. Follows(n + 1, "00")'
      BY <2>2, <3>1, <3>2, <3>4, <3>12 DEF Follows
    <3>14. Awaited(n, "00")'
      BY <2>3, <2>4, <3>4, <3>7, <3>8, <3>13 DEF Awaited
    <3> QED  BY <3>14
  <2>7. ASSUME NEW m \in 1 .. NAC, Answer(<<"00">> \o Repeat(m, "FF") \o <<"08">>)
        PROVE  \E n \in 0 .. NCR : Awaited(n, "00")'
    <3>1. m \in Nat
      BY MediumAssumption
    <3>2. PICK row \in Seq(Names) :
            /\ Answer(row) /\ Len(row) = m + 2 /\ row[1] = "00"
            /\ \A k \in 1 .. Len(row) : row[k] \notin {"busy", "FE"}
      BY <2>7, <3>1, ErrorRow
    <3>3. PICK n \in 0 .. NCR :
            Calm' /\ \A k \in Place : Comes(k)' = IF n < k /\ k <= n + Len(row) THEN row[k - n]
                                                  ELSE "FF"
      BY <3>2, AnswerOut
    <3>4. n \in Nat
      BY MediumAssumption
    <3>5. \A k \in 1 .. n : Comes(k)' = "FF"
      <4>1. \A k \in 1 .. n : k \in Place /\ ~(n < k)
        BY <3>4 DEF Place
      <4> QED  BY <3>3, <4>1
    <3>6. Comes(n + 1)' = "00"
      <4>1. n + 1 \in Place /\ n < n + 1 /\ n + 1 <= n + Len(row) /\ (n + 1) - n = 1
        BY <3>1, <3>2, <3>4 DEF Place
      <4> QED  BY <3>2, <3>3, <4>1
    <3>7. ASSUME NEW k \in Place
          PROVE  Comes(k)' # "FE"
      <4>1. CASE n < k /\ k <= n + Len(row)
        <5>1. k - n \in 1 .. Len(row)
          BY <3>2, <3>4, <4>1 DEF Place
        <5> QED  BY <3>2, <3>3, <4>1, <5>1
      <4>2. CASE ~(n < k /\ k <= n + Len(row))
        BY <3>3, <4>2
      <4> QED  BY <4>1, <4>2
    <3>8. Barren(n + 1)'
      BY <3>7 DEF Barren
    <3>9. Follows(n + 1, "00")'
      BY <2>2, <3>3, <3>8 DEF Follows
    <3>10. Awaited(n, "00")'
      BY <2>3, <2>4, <3>3, <3>5, <3>6, <3>9 DEF Awaited
    <3> QED  BY <3>10
  <2> QED  BY <2>1, <2>4, <2>5, <2>6, <2>7 DEF Reads
<1> QED  BY <1>2, <1>3

LEMMA WriteAnswered ==
  ASSUME Obeyed, cmd.next = "write_r1"
  PROVE  (Quiet' /\ Expecting') \/ \E m \in 0 .. NCR, v \in Names : Awaited(m, v)'
<1>1. cmd.frame[1] = "CMD24" /\ cmd.frame[5] = NumberByte[addr] /\ addr \in Addresses
  BY OrderFacts DEF Obeyed
<1>2. CASE ~Legal(cmd.frame)
  BY <1>2, Refused DEF Obeyed, Command
<1>3. CASE Legal(cmd.frame)
  <2>1. Writes(cmd.frame) /\ cmd'.next = "write_r1"
    BY <1>1, <1>3 DEF Obeyed, Command, Resets, Checks, Confirms, Initialises, Reads
  <2>2. {"20", "00"} \subseteq Names
    BY NamedNames DEF Named
  <2>3. CASE Answer(<<"20">>) /\ UNCHANGED <<expect, target>>
    <3>1. Answered("20")'
      BY <2>1, <2>3 DEF Obeyed, Answered, Expecting, IsR1
    <3>2. \E m \in 0 .. NCR : Awaited(m, "20")'
      BY <2>2, <2>3, <3>1, ShortAnswer DEF Obeyed
    <3> QED  BY <2>2, <3>2
  <2>4. ASSUME NEW b \in Located(Number(cmd.frame[5])),
               Answer(<<"00">>), expect' = "token", target' = b
        PROVE  \E m \in 0 .. NCR : Awaited(m, "00")'
    <3>1. b \in Block /\ (kind = "hc" => b = addr)
      BY <1>1, Addressed
    <3>2. Answered("00")'
      BY <2>1, <2>4, <3>1 DEF Obeyed, Answered, IsR1
    <3> QED  BY <2>1, <2>2, <2>4, <3>2, ShortAnswer DEF Obeyed
  <2> QED  BY <2>1, <2>2, <2>3, <2>4 DEF Writes
<1> QED  BY <1>2, <1>3

LEMMA CommandAnswered ==
  ASSUME Obeyed, \A b \in Block : Whole(store[b])
  PROVE  \/ \E m \in 0 .. NCR, v \in Names : Awaited(m, v)'
         \/ cmd.next \in {"read_r1", "write_r1"} /\ Quiet' /\ Expecting'
<1>1. cmd.next \in {"init_reset", "init_check", "init_app", "init_opcond", "init_length",
                    "read_r1", "write_r1"}
  BY DEF Obeyed, Orders, Returns
<1> QED  BY <1>1, ResetAnswered, CheckAnswered, InitAnswered, ReadAnswered, WriteAnswered

LEMMA AppendAt ==
  ASSUME NEW S, NEW s \in Seq(S), NEW b \in S, NEW n \in Nat, Len(s) = n
  PROVE  /\ Append(s, b) \in Seq(S) /\ Len(Append(s, b)) = n + 1 /\ Append(s, b)[n + 1] = b
         /\ \A k \in 1 .. n : Append(s, b)[k] = s[k]
BY AppendProperties

(* The bytes of the command come in one by one; the last has it obeyed.    *)
LEMMA SendingExchanges ==
  ASSUME IInv, inserted, CardTyped, Exchanges, ~sd_cs, Sending,
         cmd.next \in {"read_r1", "write_r1"} => addr \in Addresses,
         clocks >= WAKE => clocks' >= WAKE
  PROVE  (Sending' \/ Polling' \/ Unanswered') /\ store' = store /\ UNCHANGED cmd
<1>1. /\ left \in Seq(Names) /\ CardOK /\ got \in Seq(Names) /\ cmd.frame \in Seq(Names)
      /\ left # <<>> /\ left' = Tail(left) /\ TakeByte(Head(left))
      /\ UNCHANGED <<cmd, i, kind, addr>>
  <2>1. UNCHANGED <<cmd, i, addr>>
    BY DEF Exchanges, call
  <2> QED  BY <2>1, BytesMoved DEF IInv, CardOK, TodoOK, Exchanges
<1>2. PICK g \in Nat : g = Len(got)
  BY <1>1
<1> DEFINE row == Append(cmd.frame, "FF")
<1>3. /\ Orders /\ Before /\ Quiet /\ expect = "command" /\ i = 1 /\ g <= 5
      /\ Len(left) = 7 - g
      /\ \A k \in 1 .. g : got[k] = cmd.frame[k]
      /\ \A k \in 1 .. Len(left) : left[k] = row[g + k]
  <2>1. /\ Orders /\ Before /\ Quiet /\ expect = "command" /\ i = 1 /\ g <= 5
        /\ g + Len(left) = 7 /\ \A k \in 1 .. g : got[k] = cmd.frame[k]
        /\ \A k \in 1 .. Len(left) : left[k] = row[g + k]
    BY <1>2 DEF Sending
  <2>2. Len(left) \in Nat
    BY <1>1
  <2>3. Len(left) = 7 - g
    BY <2>1, <2>2
  <2> QED  BY <2>1, <2>3
<1>4. Len(cmd.frame) = 6 /\ cmd.frame[1] \in Commands
  BY <1>3, OrderFacts
<1>5. row[7] = "FF" /\ \A k \in 1 .. 6 : row[k] = cmd.frame[k]
  <2>1. "FF" \in Names
    BY NamedNames DEF Named
  <2>2. PICK f \in Seq(Names) : f = cmd.frame /\ Len(f) = 6
    BY <1>1, <1>4
  <2>3. PICK n \in Nat : n = Len(f)
    BY <2>2
  <2>4. Append(f, "FF")[n + 1] = "FF" /\ \A k \in 1 .. n : Append(f, "FF")[k] = f[k]
    BY <2>1, <2>3, AppendAt
  <2>5. n = 6 /\ n + 1 = 7
    BY <2>2, <2>3
  <2> QED  BY <2>2, <2>4, <2>5
<1> HIDE DEF row
<1>6. /\ Head(left) = left[1] /\ Len(left') = 6 - g
      /\ \A k \in 1 .. 6 - g : left'[k] = left[k + 1]
  <2>1. /\ Len(left') = Len(left) - 1 /\ Head(left) = left[1]
        /\ \A k \in 1 .. Len(left') : left'[k] = left[k + 1]
    BY <1>1, TailRest
  <2>2. (7 - g) - 1 = 6 - g
    OBVIOUS
  <2> QED  BY <1>3, <2>1, <2>2
<1>7. \A k \in 1 .. 6 - g : left'[k] = row[(g + 1) + k]
  <2>1. \A k \in 1 .. 6 - g : k + 1 \in 1 .. 7 - g /\ g + (k + 1) = (g + 1) + k
    BY <1>3
  <2> QED  BY <1>3, <1>6, <2>1
<1>8. Head(left) = cmd.frame[g + 1] /\ ~Busy /\ Calm
  <2>1. 1 \in 1 .. Len(left) /\ g + 1 \in 1 .. 6
    BY <1>3
  <2>2. Calm
    BY <1>3 DEF Quiet, Silent
  <2> QED  BY <1>1, <1>3, <1>5, <1>6, <2>1, <2>2, CalmIdle
<1>9. ~Opens(Head(left)) /\ ~Stores(Head(left)) /\ ~Ignores(Head(left))
  <2>1. got = <<>> => g = 0
    BY <1>2
  <2> QED  BY <1>3, <1>4, <1>8, <2>1 DEF Opens, Stores, Ignores
<1>10. CASE g < 5
  <2>1. Collects(Head(left))
    <3>1. ~Obeys(Head(left))
      BY <1>2, <1>10 DEF Obeys
    <3> QED  BY <1>1, <1>9, <3>1 DEF TakeByte
  <2>2. got' = Append(got, cmd.frame[g + 1]) /\ PutOut(queue)
        /\ UNCHANGED <<state, expect, app, opcond, store>>
    BY <1>8, <2>1 DEF Collects
  <2>3. Quiet'
    BY <1>1, <1>3, <2>2, QuietShifts
  <2>4. Len(got') = g + 1 /\ \A k \in 1 .. g + 1 : got'[k] = cmd.frame[k]
    <3>1. cmd.frame[g + 1] \in Names
      BY <1>1, <1>4, <1>10
    <3>2. /\ Len(got') = g + 1 /\ got'[g + 1] = cmd.frame[g + 1]
          /\ \A k \in 1 .. g : got'[k] = got[k]
      BY <1>1, <1>2, <2>2, <3>1, AppendProperties
    <3>3. \A k \in 1 .. g + 1 : k = g + 1 \/ k \in 1 .. g
      OBVIOUS
    <3> QED  BY <1>3, <3>2, <3>3
  <2>5. Orders'
    BY <1>1, <1>3, OrdersKept
  <2>6. Before'
    BY <1>1, <1>3, <2>2, BeforeKept
  <2>7. Append(cmd.frame, "FF")' = row
    BY <1>1 DEF row
  <2>8. /\ Len(got') <= 5 /\ Len(got') + Len(left') = 7
        /\ \A k \in 1 .. Len(got') : got'[k] = cmd'.frame[k]
        /\ \A k \in 1 .. Len(left') : left'[k] = row[Len(got') + k]
    BY <1>1, <1>6, <1>7, <1>10, <2>4
  <2>9. Sending'
    BY <1>1, <1>3, <2>2, <2>3, <2>5, <2>6, <2>7, <2>8 DEF Sending
  <2> QED  BY <1>1, <2>2, <2>9
<1>11. CASE g = 5
  <2>1. Obeys(Head(left))
    <3>1. ~Collects(Head(left))
      BY <1>2, <1>3, <1>11 DEF Collects
    <3> QED  BY <1>1, <1>9, <3>1 DEF TakeByte
  <2>2. Append(got, Head(left)) = cmd.frame
    <3>1. PICK f \in Seq(Names), b \in Names :
            /\ f = cmd.frame /\ Len(f) = 6 /\ b = f[6] /\ b = Head(left)
            /\ \A k \in 1 .. 5 : got[k] = f[k]
      BY <1>1, <1>3, <1>4, <1>8, <1>11
    <3>2. /\ Append(got, b) \in Seq(Names) /\ Len(Append(got, b)) = 6
          /\ Append(got, b)[6] = b /\ \A k \in 1 .. 5 : Append(got, b)[k] = got[k]
      <4>1. /\ Append(got, b) \in Seq(Names) /\ Len(Append(got, b)) = g + 1
            /\ Append(got, b)[g + 1] = b /\ \A k \in 1 .. g : Append(got, b)[k] = got[k]
        BY <1>1, <1>2, AppendAt
      <4>2. g + 1 = 6
        BY <1>11
      <4> QED  BY <1>11, <4>1, <4>2
    <3>3. \A k \in 1 .. 6 : Append(got, b)[k] = f[k]
      <4>1. \A k \in 1 .. 6 : k = 6 \/ k \in 1 .. 5
        OBVIOUS
      <4> QED  BY <3>1, <3>2, <4>1
    <3>4. Append(got, b) = f
      <4>1. /\ f \in Seq(Names) /\ Len(f) = 6
            /\ Append(got, b) \in Seq(Names) /\ Len(Append(got, b)) = 6
        BY <3>1, <3>2
      <4> QED  BY <3>3, <4>1
    <3> QED  BY <3>1, <3>4
  <2>3. got' = <<>> /\ Command(cmd.frame) /\ store' = store
    BY <2>1, <2>2 DEF Obeys
  <2>4. Obeyed
    BY <1>1, <1>3, <2>3 DEF Obeyed, CardTyped
  <2>5. \/ \E m \in 0 .. NCR, v \in Names : Awaited(m, v)'
        \/ cmd.next \in {"read_r1", "write_r1"} /\ Quiet' /\ Expecting'
    BY <2>4, CommandAnswered DEF CardTyped
  <2>6. left' # <<>> /\ Filling' /\ Len(left') <= 1
    <3>1. Len(left') = 1 /\ left'[1] = "FF"
      <4>1. Len(left') = 1 /\ 1 \in 1 .. 6 - g /\ (g + 1) + 1 = 7
        BY <1>6, <1>11
      <4> QED  BY <1>5, <1>7, <4>1
    <3> QED  BY <3>1 DEF Filling
  <2>7. CASE \E m \in 0 .. NCR, v \in Names : Awaited(m, v)'
    <3>1. PICK m \in 0 .. NCR, v \in Names : Awaited(m, v)'
      BY <2>7
    <3>2. m \in Nat /\ m + i' <= R1_LIMIT /\ i' \in Nat
      BY <1>1, <1>3, MediumAssumption, CardAssumption
    <3>3. Polling'
      BY <2>6, <3>1, <3>2 DEF Polling
    <3> QED  BY <1>1, <2>3, <3>3
  <2>8. CASE cmd.next \in {"read_r1", "write_r1"} /\ Quiet' /\ Expecting'
    <3>1. Unanswered'
      BY <1>1, <2>6, <2>8 DEF Unanswered
    <3> QED  BY <1>1, <2>3, <3>1
  <2> QED  BY <2>5, <2>7, <2>8
<1> QED  BY <1>3, <1>10, <1>11

-----------------------------------------------------------------------------
(* A step that moves no byte changes nothing of this.                      *)

LEMMA StaysTalk ==
  ASSUME inserted, Talk, Stays, clocks' \in Nat, clocks >= WAKE => clocks' >= WAKE
  PROVE  Talk'
<1>1. /\ UNCHANGED <<state, out, queue, expect, got, app, opcond, target, store>>
      /\ UNCHANGED <<fn, addr, buf, pc, cmd, i, result, before>>
      /\ UNCHANGED <<left, came, kind, inserted, sd_cs>>
      /\ clocks' \in Nat /\ (clocks >= WAKE => clocks' >= WAKE)
  BY DEF Stays, line, call
<1>2. /\ CardTyped /\ CallOf /\ AtNone /\ AtBusy /\ AtR1 /\ AtReply /\ AtEcho /\ AtRead
      /\ AtWrite /\ AtEnd
  BY DEF Talk
<1>3. CardTyped' /\ CallOf' /\ AtNone' /\ AtEnd'
  BY <1>1, <1>2
  DEF CardTyped, Rested, Expecting, CallOf, label, AtNone, Quiet, Silent, Calm, Comes, Returned,
      Wrote, AtEnd, Whole
<1>4. AtBusy'
  BY <1>1, <1>2, OrdersKept, BeforeKept
  DEF AtBusy, Trailed, Expecting, Dull, Quiet, Silent, Calm, Comes, Filling, Last
<1>5. AtR1'
  <2>1. Sending => Sending'
    BY <1>1, <1>2, OrdersKept, BeforeKept DEF Sending, Quiet, Silent, Calm, Comes
  <2>2. \A m, v : Awaited(m, v) <=> Awaited(m, v)'
    BY <1>1
    DEF Awaited, Answered, Expecting, Follows, Silent, Barren, Brings, Sends, Calm, Comes, Echo
  <2>3. \A v : (Answered(v) <=> Answered(v)') /\ (Follows(0, v) <=> Follows(0, v)')
    BY <1>1 DEF Answered, Expecting, Follows, Silent, Barren, Brings, Sends, Calm, Comes, Echo
  <2>4. Polling => Polling'
    BY <1>1, <2>2, <2>3 DEF Polling, Filling, Last
  <2>5. Unanswered => Unanswered'
    BY <1>1 DEF Unanswered, Quiet, Silent, Calm, Comes, Expecting, Filling, Last
  <2> QED  BY <1>1, <1>2, <2>1, <2>4, <2>5 DEF AtR1, Trailed
<1>6. AtReply'
  BY <1>1, <1>2
  DEF AtReply, r, Answered, Expecting, Follows, Quiet, Silent, Barren, Brings, Sends, Calm, Comes,
      Echo, Filling
<1>7. AtEcho'
  BY <1>1, <1>2 DEF AtEcho, Expecting, Filling, Silent, Calm, Comes, Echo
<1>8. AtRead'
  BY <1>1, <1>2 DEF AtRead, r, Expecting, Filling, Calm, Comes, Barren, Brings, Sends, Last
<1>9. AtWrite'
  BY <1>1, <1>2
  DEF AtWrite, r, Expecting, Filling, Quiet, Dull, Silent, Calm, Comes, Row, Wrote, Last
<1> QED  BY <1>3, <1>4, <1>5, <1>6, <1>7, <1>8, <1>9 DEF Talk

(* A byte is exchanged.                                                    *)
LEMMA StateTyped ==
  ASSUME NEW b, TakeByte(b), state \in {"power", "idle", "ready"}
  PROVE  state' \in {"power", "idle", "ready"}
<1>1. CASE Obeys(b)
  BY <1>1 DEF Obeys, Command, Resets, Checks, Confirms, Initialises, Reads, Writes, Refuses
<1>2. CASE Ignores(b) \/ Collects(b) \/ Opens(b) \/ Stores(b)
  BY <1>2 DEF Ignores, Collects, Opens, Stores
<1> QED  BY <1>1, <1>2 DEF TakeByte

LEMMA ExchangesTalk ==
  ASSUME IInv, inserted, Talk, Wakes, Exchanges, Ticks
  PROVE  Talk'
<1>1. /\ CardTyped /\ CallOf /\ AtNone /\ AtBusy /\ AtR1 /\ AtReply /\ AtEcho /\ AtRead
      /\ AtWrite /\ AtEnd
  BY DEF Talk
<1>2. /\ UNCHANGED <<fn, addr, buf, pc, cmd, i, result, before, kind, inserted, sd_cs>>
      /\ clocks' \in Nat /\ (clocks >= WAKE => clocks' >= WAKE) /\ left # <<>>
  BY DEF Exchanges, Ticks, call
<1>3. pc # "none"
  BY <1>2 DEF IInv, PlaceOK, left, Done
<1>4. AtNone'
  BY <1>2, <1>3 DEF AtNone
<1>5. CASE sd_cs
  <2>1. pc \in {"init_wake", "end"}
    BY <1>1, <1>3, <1>5 DEF CallOf
  <2>2. UNCHANGED <<state, out, queue, expect, got, app, opcond, target, store>>
    BY <1>5 DEF Exchanges, line
  <2>3. CardTyped' /\ CallOf' /\ AtEnd'
    BY <1>1, <1>2, <2>2
    DEF CardTyped, Rested, Expecting, Whole, CallOf, label, AtEnd, Wrote
  <2>4. AtBusy' /\ AtR1' /\ AtReply' /\ AtEcho' /\ AtRead' /\ AtWrite'
    BY <1>2, <2>1 DEF AtBusy, AtR1, AtReply, AtEcho, AtRead, AtWrite
  <2> QED  BY <1>4, <2>3, <2>4 DEF Talk
<1>6. CASE ~sd_cs
  <2>1. pc \in {"cmd_busy", "cmd_r1", "init_reset", "init_check", "init_echo", "init_app",
                "init_opcond", "init_length", "read_r1", "read_token", "read_data",
                "write_r1", "write_resp", "write_busy"}
    BY <1>1, <1>3, <1>6
    DEF CallOf, label, InitLabels, ReadLabels, WriteLabels, AtEnd, Wakes
  <2>2. AtEnd'
    BY <1>2, <2>1 DEF AtEnd
  <2>3. state' \in {"power", "idle", "ready"}
    <3>1. TakeByte(Head(left)) /\ state \in {"power", "idle", "ready"}
      BY <1>1, <1>6 DEF Exchanges, CardTyped
    <3> QED  BY <3>1, StateTyped
  <2>4. \A b \in Block : Whole(store[b])
    BY <1>1 DEF CardTyped
  <2>5. ASSUME store' = store
        PROVE  CallOf' /\ CardTyped'
    <3>1. CallOf'
      BY <1>1, <1>2, <2>5 DEF CallOf, label, Whole
    <3>2. CardTyped'
      BY <1>2, <1>6, <2>3, <2>4, <2>5 DEF CardTyped, Whole
    <3> QED  BY <3>1, <3>2
  <2>6. CASE pc = "cmd_busy"
    <3>1. AtBusy' /\ store' = store
      BY <1>1, <1>2, <1>6, <2>6, BusyExchanges
    <3>2. AtR1' /\ AtReply' /\ AtEcho' /\ AtRead' /\ AtWrite'
      BY <1>2, <2>6 DEF AtR1, AtReply, AtEcho, AtRead, AtWrite
    <3> QED  BY <1>4, <2>2, <2>5, <3>1, <3>2 DEF Talk
  <2>7. CASE pc = "cmd_r1"
    <3>1. Trailed /\ (Sending \/ Polling \/ Unanswered)
      BY <1>1, <2>7 DEF AtR1
    <3>2. cmd.next \in {"read_r1", "write_r1"} => addr \in Addresses
      BY <1>1, <2>7 DEF CallOf, label, ReadLabels, WriteLabels
    <3>3. (Sending' \/ Polling' \/ Unanswered') /\ store' = store /\ UNCHANGED cmd
      BY <1>1, <1>2, <1>6, <3>1, <3>2, SendingExchanges, PollingExchanges, UnansweredExchanges
    <3>4. AtR1'
      BY <3>1, <3>3 DEF AtR1, Trailed
    <3>5. AtBusy' /\ AtReply' /\ AtEcho' /\ AtRead' /\ AtWrite'
      BY <1>2, <2>7 DEF AtBusy, AtReply, AtEcho, AtRead, AtWrite
    <3> QED  BY <1>4, <2>2, <2>5, <3>3, <3>4, <3>5 DEF Talk
  <2>8. CASE pc \in {"init_reset", "init_check", "init_app", "init_opcond", "init_length"}
    <3>1. AtReply' /\ store' = store
      BY <1>1, <1>6, <2>8, ReplyExchanges
    <3>2. AtBusy' /\ AtR1' /\ AtEcho' /\ AtRead' /\ AtWrite'
      BY <1>2, <2>8 DEF AtBusy, AtR1, AtEcho, AtRead, AtWrite
    <3> QED  BY <1>4, <2>2, <2>5, <3>1, <3>2 DEF Talk
  <2>9. CASE pc = "init_echo"
    <3>1. AtEcho' /\ store' = store
      BY <1>1, <1>6, <2>9, EchoExchanges
    <3>2. AtBusy' /\ AtR1' /\ AtReply' /\ AtRead' /\ AtWrite'
      BY <1>2, <2>9 DEF AtBusy, AtR1, AtReply, AtRead, AtWrite
    <3> QED  BY <1>4, <2>2, <2>5, <3>1, <3>2 DEF Talk
  <2>10. CASE pc \in {"read_r1", "read_token", "read_data"}
    <3>1. AtRead' /\ store' = store
      BY <1>1, <1>6, <2>10, ReadR1Exchanges, ReadTokenExchanges, ReadDataExchanges
    <3>2. AtBusy' /\ AtR1' /\ AtReply' /\ AtEcho' /\ AtWrite'
      BY <1>2, <2>10 DEF AtBusy, AtR1, AtReply, AtEcho, AtWrite
    <3> QED  BY <1>4, <2>2, <2>5, <3>1, <3>2 DEF Talk
  <2>11. CASE pc \in {"write_r1", "write_busy"}
    <3>1. AtWrite' /\ store' = store
      BY <1>1, <1>6, <2>11, WriteR1Exchanges, WriteBusyExchanges
    <3>2. AtBusy' /\ AtR1' /\ AtReply' /\ AtEcho' /\ AtRead'
      BY <1>2, <2>11 DEF AtBusy, AtR1, AtReply, AtEcho, AtRead
    <3> QED  BY <1>4, <2>2, <2>5, <3>1, <3>2 DEF Talk
  <2>12. CASE pc = "write_resp"
    <3>1. Whole(buf)
      BY <1>1, <2>12 DEF CallOf, label, WriteLabels
    <3>2. AtWrite' /\ \A c \in Block : Whole(store'[c])
      BY <1>1, <1>6, <2>4, <2>12, <3>1, WriteRespExchanges
    <3>3. AtBusy' /\ AtR1' /\ AtReply' /\ AtEcho' /\ AtRead'
      BY <1>2, <2>12 DEF AtBusy, AtR1, AtReply, AtEcho, AtRead
    <3>4. CallOf'
      BY <1>1, <1>2, <2>12 DEF CallOf, label, Whole
    <3>5. CardTyped'
      BY <1>2, <1>6, <2>3, <3>2 DEF CardTyped, Whole
    <3> QED  BY <1>4, <2>2, <3>2, <3>3, <3>4, <3>5 DEF Talk
  <2> QED  BY <2>1, <2>6, <2>7, <2>8, <2>9, <2>10, <2>11, <2>12
<1> QED  BY <1>5, <1>6

LEMMA TransferTalk ==
  ASSUME IInv, BInv, inserted, Transfer \/ Edge
  PROVE  BInv'
<1>1. clocks \in Nat /\ Talk /\ Wakes
  BY DEF BInv, Talk, CardTyped
<1>2. (Stays \/ Exchanges) /\ Ticks
  BY <1>1, TransferMoves
<1>3. Talk'
  BY <1>1, <1>2, StaysTalk, ExchangesTalk DEF Ticks
<1>4. Wakes'
  <2>1. UNCHANGED <<pc, inserted, sd_cs>>
    BY <1>2 DEF Stays, Exchanges, call
  <2>2. CASE pc = "init_wake"
    <3>1. sd_cs /\ (clocks >= WAKE \/ Coming >= 2 * WAKE)
      BY <1>1, <2>2 DEF Wakes, Coming
    <3>2. clocks' >= WAKE \/ Coming' >= 2 * WAKE
      BY <1>2, <3>1, MediumAssumption DEF Ticks
    <3> QED  BY <2>1, <3>1, <3>2 DEF Wakes, Coming
  <2> QED  BY <2>1, <2>2 DEF Wakes
<1> QED  BY <1>3, <1>4 DEF BInv

-----------------------------------------------------------------------------
(* The steps of the functions.                                             *)

LEMMA AtPlace ==
  ASSUME todo = <<>>, moving = "no"
  PROVE  left = <<>> /\ came = replies
BY DEF left, came, Done

LEMMA Goes ==
  ASSUME NEW l, NEW bytes, Go(l, bytes), moving' = "no"
  PROVE  left' = bytes /\ came' = <<>> /\ pc' = l /\ result' = "none"
BY DEF Go, left, came, Done

LEMMA SameLine ==
  ASSUME UNCHANGED <<out, queue>>
  PROVE  /\ (Calm <=> Calm') /\ (Quiet <=> Quiet') /\ (Dull <=> Dull')
         /\ \A m : (Silent(m) <=> Silent(m)') /\ (Barren(m) <=> Barren(m)')
         /\ \A k : Comes(k)' = Comes(k)
BY DEF Calm, Quiet, Dull, Silent, Barren, Comes

LEMMA SameFollows ==
  ASSUME UNCHANGED <<out, queue, kind, addr, store>>, cmd'.next = cmd.next
  PROVE  \A m, v : (Follows(m, v) <=> Follows(m, v)')
BY DEF Follows, Silent, Barren, Brings, Sends, Calm, Comes, Echo

LEMMA SameBrings ==
  ASSUME UNCHANGED <<out, queue, kind, addr, store>>
  PROVE  \A m, n, b : (Brings(m, n, b) <=> Brings(m, n, b)') /\ (Sends(m, b) <=> Sends(m, b)')
BY DEF Brings, Sends, Comes

LEMMA SameAnswered ==
  ASSUME UNCHANGED <<state, opcond, app, kind, expect, got, target, addr>>, cmd'.next = cmd.next
  PROVE  \A v : (Answered(v) <=> Answered(v)')
BY DEF Answered, Expecting

Pinned == UNCHANGED <<state, clocks, app, opcond, target, store, kind, inserted>>

LEMMA KeptPins ==
  ASSUME KeepPins
  PROVE  Pinned /\ UNCHANGED <<out, queue, expect, got, sd_cs>>
BY DEF KeepPins, helper, medium, Pinned

LEMMA PinsLower ==
  ASSUME IInv, inserted, CardTyped, moving = "no", Pins(FALSE), sd_cs \/ (Expecting /\ Dull)
  PROVE  Pinned /\ Expecting' /\ Dull' /\ sd_cs' = FALSE
<1>1. ~busy /\ sd_clk = FALSE /\ sd_cs \in BOOLEAN
  BY DEF IInv, AtRest, HelperOK, busy
<1>2. sd_cs' = FALSE /\ sd_clk' = FALSE /\ CardSeesPins
  BY <1>1 DEF Pins, WriteCmd
<1>3. CASE sd_cs
  <2>1. Select
    BY <1>1, <1>2, <1>3 DEF CardSeesPins
  <2>2. Expecting /\ out = "FF" /\ queue \in {<<>>, <<"busy">>}
    BY <1>3 DEF CardTyped, Rested
  <2>3. Dull'
    BY <2>1, <2>2, RestedDull DEF Select, IInv
  <2> QED  BY <1>2, <2>1, <2>2, <2>3 DEF Select, Pinned, Expecting
<1>4. CASE ~sd_cs
  <2>1. UNCHANGED medium
    BY <1>1, <1>2, <1>4 DEF CardSeesPins
  <2>2. UNCHANGED <<out, queue, expect, got>> /\ Pinned
    BY <2>1 DEF medium, Pinned
  <2> QED  BY <1>2, <1>4, <2>2, SameLine DEF Expecting
<1> QED  BY <1>3, <1>4

LEMMA BusyKept ==
  ASSUME Deselect
  PROVE  Rested' /\ Pinned
BY DEF Deselect, Rested, Expecting, Pinned

LEMMA PinsRaise ==
  ASSUME IInv, inserted, CardTyped, moving = "no", NEW m, WriteCmd(TRUE, m, FALSE), CardSeesPins
  PROVE  Pinned /\ CardTyped' /\ sd_cs' = TRUE
<1>1. ~busy /\ sd_clk = FALSE /\ sd_cs \in BOOLEAN
  BY DEF IInv, AtRest, HelperOK, busy
<1>2. sd_cs' = TRUE /\ sd_clk' = FALSE
  BY <1>1 DEF WriteCmd
<1>3. Pinned /\ Rested'
  <2>1. CASE sd_cs
    <3>1. UNCHANGED medium
      BY <1>1, <1>2, <2>1 DEF CardSeesPins
    <3>2. Pinned /\ UNCHANGED <<out, queue, expect, got>>
      BY <3>1 DEF medium, Pinned
    <3> QED  BY <2>1, <3>2 DEF CardTyped, Rested, Expecting
  <2>2. CASE ~sd_cs
    <3>1. Deselect
      BY <1>1, <1>2, <2>2 DEF CardSeesPins
    <3> QED  BY <3>1, BusyKept
  <2> QED  BY <2>1, <2>2
<1>4. CardTyped'
  BY <1>2, <1>3 DEF CardTyped, Pinned, Whole
<1> QED  BY <1>2, <1>3, <1>4

LEMMA KeptTyped ==
  ASSUME CardTyped, Pinned, UNCHANGED <<out, queue, expect, got, sd_cs>>
  PROVE  CardTyped'
BY DEF CardTyped, Pinned, Whole, Rested, Expecting

(* A call of sd_cmd.                                                       *)
LEMMA CallTalk ==
  ASSUME IInv, inserted, CardTyped, moving = "no", moving' = moving,
         NEW c, NEW arg, NEW crc, NEW trail, NEW next, Call(c, arg, crc, trail, next),
         sd_cs \/ (Expecting /\ Dull), Orders', Trailed', CallOf', Before'
  PROVE  BInv'
<1>1. Pins(FALSE) /\ Go("cmd_busy", <<"FF", "FF">>)
  BY DEF Call
<1>2. Pinned /\ Expecting' /\ Dull' /\ sd_cs' = FALSE
  BY <1>1, PinsLower
<1>3. left' = <<"FF", "FF">> /\ came' = <<>> /\ pc' = "cmd_busy"
  BY <1>1, Goes
<1>4. CardTyped'
  BY <1>2 DEF CardTyped, Pinned, Whole
<1>5. Filling' /\ left' # <<>>
  BY <1>3 DEF Filling
<1>6. AtBusy'
  BY <1>2, <1>3, <1>5 DEF AtBusy
<1>7. /\ AtNone' /\ AtR1' /\ AtReply' /\ AtEcho' /\ AtRead' /\ AtWrite' /\ AtEnd' /\ Wakes'
  BY <1>3 DEF AtNone, AtR1, AtReply, AtEcho, AtRead, AtWrite, AtEnd, Wakes
<1> QED  BY <1>4, <1>6, <1>7 DEF BInv, Talk

(* A return.                                                               *)
LEMMA ReturnTalk ==
  ASSUME pc' = "none", CardTyped', AtNone'
  PROVE  BInv'
<1>1. CallOf'
  BY DEF CallOf, label, InitLabels, ReadLabels, WriteLabels
<1>2. /\ AtBusy' /\ AtR1' /\ AtReply' /\ AtEcho' /\ AtRead' /\ AtWrite' /\ AtEnd' /\ Wakes'
  BY DEF AtBusy, AtR1, AtReply, AtEcho, AtRead, AtWrite, AtEnd, Wakes
<1> QED  BY <1>1, <1>2 DEF BInv, Talk

-----------------------------------------------------------------------------
(* sd_cmd goes on.                                                         *)

LEMMA Elsewhere ==
  /\ pc' # "none" => AtNone'
  /\ pc' # "cmd_busy" => AtBusy'
  /\ pc' # "cmd_r1" => AtR1'
  /\ pc' \notin {"init_reset", "init_check", "init_app", "init_opcond", "init_length"} => AtReply'
  /\ pc' # "init_echo" => AtEcho'
  /\ pc' \notin ReadLabels => AtRead'
  /\ pc' \notin WriteLabels => AtWrite'
  /\ pc' # "end" => AtEnd'
  /\ pc' # "init_wake" => Wakes'
BY DEF AtNone, AtBusy, AtR1, AtReply, AtEcho, AtRead, AtWrite, AtEnd, Wakes, ReadLabels, WriteLabels

LEMMA Gone ==
  ASSUME Talk, inserted, NEW l, NEW bytes, Go(l, bytes), moving = "no", KeepPins, UNCHANGED Kept
  PROVE  /\ left' = bytes /\ came' = <<>> /\ pc' = l /\ Pinned /\ CardTyped'
         /\ UNCHANGED <<out, queue, expect, got, sd_cs, fn, addr, buf, before, moving>>
<1>1. UNCHANGED <<fn, addr, buf, before, moving>>
  BY DEF Kept
<1>2. left' = bytes /\ came' = <<>> /\ pc' = l
  BY <1>1, Goes
<1>3. Pinned /\ UNCHANGED <<out, queue, expect, got, sd_cs>>
  BY KeptPins
<1>4. CardTyped'
  BY <1>3, KeptTyped DEF Talk
<1> QED  BY <1>1, <1>2, <1>3, <1>4

LEMMA CmdBusyTalk ==
  ASSUME IInv, BInv, inserted, CmdBusy
  PROVE  BInv'
<1>1. Talk /\ pc = "cmd_busy" /\ todo = <<>> /\ moving = "no" /\ KeepPins /\ UNCHANGED <<Kept, cmd>>
  BY DEF CmdBusy, At, BInv
<1>2. left = <<>> /\ came = replies
  BY <1>1, AtPlace
<1>3. CallOf /\ AtBusy
  BY <1>1 DEF Talk
<1>4. /\ Orders /\ Trailed /\ Before /\ Expecting /\ Dull
      /\ Last(replies) = "FF" => Quiet
  BY <1>1, <1>2, <1>3 DEF AtBusy
<1>5. Orders' /\ Trailed' /\ cmd' = cmd /\ addr' = addr
  <2>1. cmd' = cmd /\ addr' = addr
    BY <1>1 DEF Kept
  <2> QED  BY <1>4, <2>1, OrdersKept DEF Trailed
<1>6. PICK l, bytes : l \in {"cmd_busy", "cmd_r1"} /\ Go(l, bytes)
  BY DEF CmdBusy
<1>7. /\ pc' \in {"cmd_busy", "cmd_r1"} /\ Pinned /\ CardTyped'
      /\ UNCHANGED <<out, queue, expect, got, sd_cs, fn, addr, buf, before, moving>>
  BY <1>1, <1>6, Gone
<1>8. CallOf' /\ Before' /\ Expecting' /\ Dull' /\ (Quiet => Quiet')
  <2>1. CallOf'
    BY <1>1, <1>3, <1>5, <1>7 DEF CallOf, label, Pinned, Whole
  <2>2. Before'
    BY <1>4, <1>5, <1>7, BeforeKept DEF Pinned
  <2> QED  BY <1>4, <1>7, <2>1, <2>2, SameLine DEF Expecting
<1>9. CASE Last(replies) # "FF"
  <2>1. left' = <<"FF">> /\ came' = <<>> /\ pc' = "cmd_busy"
    BY <1>1, <1>9, Gone DEF CmdBusy
  <2>2. AtBusy'
    BY <1>5, <1>8, <2>1 DEF AtBusy, Filling
  <2> QED  BY <1>7, <1>8, <2>1, <2>2, Elsewhere DEF Talk, BInv, ReadLabels, WriteLabels
<1>10. CASE Last(replies) = "FF"
  <2>1. left' = Append(cmd.frame, "FF") /\ came' = <<>> /\ pc' = "cmd_r1" /\ i' = 1
    BY <1>1, <1>10, Gone DEF CmdBusy
  <2>2. Len(cmd.frame) = 6 /\ cmd.frame \in Seq(Names)
    <3>1. cmd.next \in {"read_r1", "write_r1"} => addr \in Addresses
      BY <1>1, <1>3 DEF CallOf, label, ReadLabels, WriteLabels
    <3> QED  BY <1>4, <3>1, OrderFacts
  <2>3. Len(left') = 7 /\ Len(got') = 0
    <3>1. "FF" \in Names
      BY NamedNames DEF Named
    <3>2. PICK f \in Seq(Names) : f = cmd.frame /\ Len(f) = 6
      BY <2>2
    <3>3. PICK n \in Nat : n = Len(f)
      BY <3>2
    <3>4. Len(Append(f, "FF")) = n + 1
      BY <3>1, <3>3, AppendAt
    <3>5. Len(left') = 7
      BY <2>1, <3>2, <3>3, <3>4
    <3>6. got' = <<>>
      BY <1>8 DEF Expecting
    <3> QED  BY <3>5, <3>6
  <2>4. \A k \in 1 .. Len(left') : left'[k] = Append(cmd.frame, "FF")'[Len(got') + k]
    <3>1. \A k \in 1 .. Len(left') : Len(got') + k = k
      BY <2>3
    <3> QED  BY <1>5, <2>1, <3>1
  <2>5. Sending'
    <3>1. expect' = "command" /\ Quiet' /\ \A k \in 1 .. Len(got') : got'[k] = cmd'.frame[k]
      BY <1>4, <1>8, <1>10, <2>3 DEF Expecting
    <3> QED  BY <1>5, <1>8, <2>1, <2>3, <2>4, <3>1 DEF Sending
  <2>6. AtR1'
    BY <1>5, <2>5 DEF AtR1
  <2> QED  BY <1>7, <1>8, <2>1, <2>6, Elsewhere DEF Talk, BInv, ReadLabels, WriteLabels
<1> QED  BY <1>9, <1>10

LEMMA SameAwaited ==
  ASSUME UNCHANGED <<state, opcond, app, kind, expect, got, target, addr, store, out, queue, cmd>>
  PROVE  \A m, v : Awaited(m, v) <=> Awaited(m, v)'
BY SameLine, SameFollows, SameAnswered DEF Awaited

LEMMA NotSending ==
  ASSUME IInv, left = <<>>
  PROVE  ~Sending
<1>1. PICK n \in Nat : n = Len(got)
  BY DEF IInv, CardOK
<1>2. Sending => n <= 5 /\ n + Len(left) = 7
  BY <1>1 DEF Sending
<1>3. Len(left) = 0
  OBVIOUS
<1>4. Sending => n <= 5 /\ n + 0 = 7
  BY <1>2, <1>3, Zenon
<1>5. ~(n <= 5 /\ n + 0 = 7)
  OBVIOUS
<1> QED  BY <1>4, <1>5

LEMMA CmdRetryTalk ==
  ASSUME IInv, BInv, inserted, CmdR1, ~IsR1(Last(replies)), i < R1_LIMIT
  PROVE  BInv'
<1>1. /\ Talk /\ pc = "cmd_r1" /\ todo = <<>> /\ moving = "no" /\ KeepPins
      /\ UNCHANGED <<Kept, cmd>> /\ Go("cmd_r1", <<"FF">>) /\ i' = i + 1
  BY DEF CmdR1, At, BInv
<1>2. left = <<>> /\ came = replies
  BY <1>1, AtPlace
<1>3. /\ left' = <<"FF">> /\ came' = <<>> /\ pc' = "cmd_r1" /\ Pinned /\ CardTyped'
      /\ UNCHANGED <<out, queue, expect, got, sd_cs, fn, addr, buf, before, moving>> /\ cmd' = cmd
  BY <1>1, Gone
<1>4. CallOf /\ Trailed /\ (Sending \/ Polling \/ Unanswered)
  BY <1>1 DEF Talk, AtR1
<1>5. CallOf'
  BY <1>1, <1>3, <1>4 DEF CallOf, label, Pinned, Whole
<1>6. Filling' /\ Len(left') <= 1 /\ left' # <<>>
  BY <1>3 DEF Filling
<1>7. ~Sending
  BY <1>2, NotSending
<1>8. Polling => Polling'
  <2> SUFFICES ASSUME Polling PROVE Polling'
    OBVIOUS
  <2>1. PICK m \in Nat, v \in Names : m + i < R1_LIMIT /\ Awaited(m, v)
    BY <1>2 DEF Polling, Answered
  <2>2. i \in Nat /\ R1_LIMIT \in Nat
    BY CardAssumption DEF Polling
  <2>3. m + i' <= R1_LIMIT /\ i' \in Nat
    BY <1>1, <2>1, <2>2
  <2>4. Awaited(m, v)'
    BY <1>3, <2>1, SameAwaited DEF Pinned
  <2> QED  BY <1>6, <2>3, <2>4 DEF Polling
<1>9. Unanswered => Unanswered'
  <2> SUFFICES ASSUME Unanswered PROVE Unanswered'
    OBVIOUS
  <2>1. Quiet' /\ Expecting'
    BY <1>3, SameLine DEF Unanswered, Expecting
  <2> QED  BY <1>3, <1>6, <2>1 DEF Unanswered
<1>10. AtR1'
  BY <1>3, <1>4, <1>7, <1>8, <1>9 DEF AtR1, Trailed
<1> QED  BY <1>3, <1>5, <1>10, Elsewhere DEF Talk, BInv, ReadLabels, WriteLabels

LEMMA CmdAnswerTalk ==
  ASSUME IInv, BInv, inserted, CmdR1, IsR1(Last(replies)) \/ ~(i < R1_LIMIT)
  PROVE  BInv'
<1>0. PICK v : v = Last(replies)
  OBVIOUS
<1>1. /\ Talk /\ pc = "cmd_r1" /\ todo = <<>> /\ moving = "no" /\ KeepPins /\ UNCHANGED Kept
      /\ Go(cmd.next, cmd.trail) /\ i' = i
      /\ cmd' = [cmd EXCEPT !.frame = <<IF IsR1(v) THEN v ELSE "FF">>]
  BY <1>0 DEF CmdR1, At, BInv
<1>2. left = <<>> /\ came = replies
  BY <1>1, AtPlace
<1>3. /\ left' = cmd.trail /\ came' = <<>> /\ pc' = cmd.next /\ Pinned /\ CardTyped'
      /\ UNCHANGED <<out, queue, expect, got, sd_cs, fn, addr, buf, before, moving>>
  BY <1>1, Gone
<1>4. CallOf /\ Trailed /\ (Sending \/ Polling \/ Unanswered)
  BY <1>1 DEF Talk, AtR1
<1>5. /\ cmd'.next = cmd.next /\ cmd'.trail = cmd.trail
      /\ r' = IF IsR1(v) THEN v ELSE "FF"
  <2>1. cmd \in [frame : Seq(Names), trail : Seq(Names), next : Returns]
    BY DEF IInv, TodoOK
  <2>2. cmd'.frame = <<IF IsR1(v) THEN v ELSE "FF">>
    BY <1>1, <2>1
  <2>3. cmd'.next = cmd.next /\ cmd'.trail = cmd.trail
    BY <1>1, <2>1
  <2> QED  BY <2>2, <2>3 DEF r
<1>6. cmd.next \in {"init_reset", "init_check", "init_app", "init_opcond", "init_length",
                    "read_r1", "write_r1"}
  BY <1>1 DEF IInv, TodoOK, Returns
<1>7. CallOf'
  <2>1. label = cmd.next /\ label' = cmd.next
    BY <1>1, <1>3, <1>5, <1>6 DEF label
  <2> QED  BY <1>1, <1>3, <1>4, <1>6, <2>1
           DEF CallOf, Pinned, Whole, InitLabels, ReadLabels, WriteLabels
<1>8. Filling' /\ Len(left') <= 1 /\ (cmd.next = "init_check" => left' = <<>>)
  BY <1>3, <1>4 DEF Trailed, Filling
<1>9. \/ Answered(v) /\ Follows(0, v)
      \/ Unanswered /\ ~IsR1(v)
  <2>1. ~Sending
    BY <1>2, NotSending
  <2>2. CASE Polling
    <3>1. ASSUME v = "FF", NEW m \in Nat, m + i < R1_LIMIT
          PROVE  FALSE
      <4>1. i < R1_LIMIT
        BY <2>2, <3>1, CardAssumption DEF Polling
      <4> QED  BY <1>0, <3>1, <4>1 DEF IsR1
    <3> QED  BY <1>0, <1>2, <2>2, <3>1 DEF Polling
  <2>3. CASE Unanswered
    BY <1>0, <1>2, <2>3 DEF Unanswered, IsR1
  <2> QED  BY <1>4, <2>1, <2>2, <2>3
<1>10. CASE Answered(v) /\ Follows(0, v)
  <2>1. r' = v
    BY <1>5, <1>10 DEF Answered
  <2>2. Answered(v)' /\ Follows(0, v)'
    BY <1>3, <1>5, <1>10, SameAnswered, SameFollows DEF Pinned
  <2>3. cmd.next # "write_r1" => Expecting'
    BY <1>3, <1>10 DEF Answered, Expecting
  <2>4. cmd.next \notin {"init_check", "read_r1"} => Quiet'
    BY <1>3, <1>10, SameLine DEF Follows, Quiet
  <2>5. AtReply'
    BY <1>3, <1>5, <1>8, <2>1, <2>2, <2>4 DEF AtReply
  <2>6. AtRead'
    <3>1. CASE cmd.next = "read_r1"
      <4>1. v = "00" => Calm /\ (Barren(0) \/ \E n \in Place, b \in Block : Brings(0, n, b))
        BY <1>10, <3>1 DEF Follows
      <4>2. v = "00" => Calm' /\ (Barren(0)' \/ \E n \in Place, b \in Block : Brings(0, n, b)')
        BY <1>3, <4>1, SameLine, SameBrings DEF Pinned
      <4>3. \A n \in Place : n \in Nat /\ n > 0
        BY DEF Place
      <4> QED  BY <1>3, <1>8, <2>1, <2>3, <3>1, <4>2, <4>3 DEF AtRead
    <3> QED  BY <1>3, <1>6, <3>1 DEF AtRead
  <2>7. AtWrite'
    <3>1. CASE cmd.next = "write_r1"
      <4>1. IF v = "00" THEN expect' = "token" /\ target' \in Block
                           /\ (kind' = "hc" => target' = addr')
            ELSE Expecting'
        BY <1>5, <2>2, <3>1 DEF Answered
      <4> QED  BY <1>3, <1>8, <2>1, <2>4, <3>1, <4>1 DEF AtWrite
    <3> QED  BY <1>3, <1>6, <3>1 DEF AtWrite
  <2>8. AtNone' /\ AtBusy' /\ AtR1' /\ AtEcho' /\ AtEnd' /\ Wakes'
    BY <1>3, <1>6, Elsewhere
  <2> QED  BY <1>3, <1>7, <2>5, <2>6, <2>7, <2>8 DEF Talk, BInv
<1>11. CASE Unanswered /\ ~IsR1(v)
  <2>1. r' = "FF" /\ cmd.next \in {"read_r1", "write_r1"} /\ Expecting'
    BY <1>3, <1>5, <1>11 DEF Unanswered, Expecting
  <2>2. AtRead' /\ AtWrite'
    BY <1>3, <1>8, <2>1 DEF AtRead, AtWrite
  <2>3. AtNone' /\ AtBusy' /\ AtR1' /\ AtReply' /\ AtEcho' /\ AtEnd' /\ Wakes'
    BY <1>3, <2>1, Elsewhere
  <2> QED  BY <1>3, <1>7, <2>2, <2>3 DEF Talk, BInv
<1> QED  BY <1>9, <1>10, <1>11

-----------------------------------------------------------------------------
(* sd_init                                                                 *)

(* What a step of a function finds.                                        *)
LEMMA Found ==
  ASSUME IInv, BInv, todo = <<>>, moving = "no", inserted, pc \notin {"none", "cmd_busy", "cmd_r1"}
  PROVE  /\ left = <<>> /\ came = replies /\ label = pc
         /\ CardTyped /\ CallOf /\ AtReply /\ AtEcho /\ AtRead /\ AtWrite /\ AtEnd
         /\ pc \notin {"init_wake", "end"} => sd_cs = FALSE
         /\ pc \notin {"end", "write_resp", "write_busy"} => store = before
<1>1. left = <<>> /\ came = replies /\ label = pc
  BY AtPlace DEF label
<1>2. /\ CardTyped /\ CallOf /\ AtReply /\ AtEcho /\ AtRead /\ AtWrite /\ AtEnd
  BY DEF BInv, Talk
<1>3. sd_cs \in BOOLEAN
  BY DEF IInv, HelperOK
<1> QED  BY <1>1, <1>2, <1>3 DEF CallOf

LEMMA PinsSet ==
  ASSUME IInv, inserted, CardTyped, moving = "no", Pins(TRUE)
  PROVE  Pinned /\ CardTyped' /\ sd_cs' = TRUE
<1>1. ~busy /\ sd_clk = FALSE
  BY DEF IInv, AtRest, HelperOK, busy
<1>2. WriteCmd(TRUE, sd_mosi, FALSE) /\ CardSeesPins
  BY <1>1 DEF Pins, WriteCmd
<1> QED  BY <1>2, PinsRaise

LEMMA InitCall ==
  ASSUME IInv, CardTyped, inserted, moving = "no", UNCHANGED Kept, fn = "sd_init", store = before,
         sd_cs \/ (Expecting /\ Dull),
         NEW c, NEW arg, NEW crc, NEW trail, NEW next \in InitLabels,
         Call(c, arg, crc, trail, next),
         Orders', Trailed'
  PROVE  Pinned /\ cmd'.next = next /\ (Before' => BInv')
<1>1. UNCHANGED <<fn, before, moving>>
  BY DEF Kept
<1>2. pc' = "cmd_busy" /\ cmd'.next = next /\ Pins(FALSE)
  BY DEF Call, Go
<1>3. Pinned /\ sd_cs' = FALSE
  BY <1>2, PinsLower
<1>4. CallOf'
  BY <1>1, <1>2, <1>3 DEF CallOf, label, Pinned, InitLabels, ReadLabels, WriteLabels
<1> QED  BY <1>1, <1>2, <1>3, <1>4, CallTalk

LEMMA InitWakeTalk ==
  ASSUME IInv, BInv, inserted, InitWake
  PROVE  BInv'
<1>1. /\ At("init_wake") /\ UNCHANGED Kept
      /\ Call("CMD0", NoArg, "95", <<"FF">>, "init_reset")
  BY DEF InitWake
<1>2. /\ pc = "init_wake" /\ moving = "no" /\ CardTyped /\ CallOf /\ label = "init_wake"
      /\ store = before /\ todo = <<>>
  BY <1>1, Found DEF At
<1>3. sd_cs /\ clocks >= WAKE
  <2>1. Clocked = 0
    BY <1>2 DEF Clocked
  <2>2. Len(todo) = 0
    BY <1>2
  <2>3. sd_cs /\ (clocks >= WAKE \/ 2 * clocks + 2 * (BITS * 0) - 0 >= 2 * WAKE)
    BY <1>2, <2>1, <2>2 DEF BInv, Wakes
  <2>4. clocks \in Nat /\ WAKE \in Nat /\ BITS \in Nat
    BY <1>2, BitsAssumption, MediumAssumption DEF CardTyped
  <2>5. 2 * clocks + 2 * (BITS * 0) - 0 >= 2 * WAKE => clocks >= WAKE
    BY <2>4
  <2> QED  BY <2>3, <2>5
<1>4. Orders' /\ Trailed'
  BY <1>1 DEF Call, Orders, Trailed, Returns
<1>5. fn = "sd_init"
  BY <1>2 DEF CallOf, InitLabels
<1>6. Pinned /\ cmd'.next = "init_reset" /\ (Before' => BInv')
  BY <1>1, <1>2, <1>3, <1>4, <1>5, InitCall DEF InitLabels
<1>7. Before'
  BY <1>3, <1>6 DEF Before, Pinned
<1> QED  BY <1>6, <1>7

LEMMA InitResetTalk ==
  ASSUME IInv, BInv, inserted, InitReset
  PROVE  BInv'
<1>1. At("init_reset") /\ UNCHANGED Kept
  BY DEF InitReset
<1>2. /\ pc = "init_reset" /\ moving = "no" /\ CardTyped /\ CallOf /\ label = "init_reset"
      /\ store = before /\ AtReply
  BY <1>1, Found DEF At
<1>3. cmd.next = "init_reset" /\ Answered(r) /\ Quiet
  BY <1>2 DEF AtReply
<1>4. r = "01" /\ state = "idle" /\ ~opcond /\ Expecting /\ Dull
  BY <1>3 DEF Answered, Dull
<1>5. Call("CMD8", <<"00", "00", "01", "AA">>, "87", <<>>, "init_check")
  BY <1>4 DEF InitReset
<1>6. Orders' /\ Trailed'
  BY <1>5 DEF Call, Orders, Trailed, Returns
<1>7. fn = "sd_init"
  BY <1>2 DEF CallOf, InitLabels
<1>8. Pinned /\ cmd'.next = "init_check" /\ (Before' => BInv')
  BY <1>1, <1>2, <1>4, <1>5, <1>6, <1>7, InitCall DEF InitLabels
<1>9. Before'
  BY <1>4, <1>8 DEF Before, Pinned
<1> QED  BY <1>8, <1>9

LEMMA InitCheckTalk ==
  ASSUME IInv, BInv, inserted, InitCheck
  PROVE  BInv'
<1>1. At("init_check") /\ UNCHANGED Kept /\ KeepPins
  BY DEF InitCheck
<1>2. /\ pc = "init_check" /\ moving = "no" /\ CardTyped /\ CallOf /\ label = "init_check"
      /\ store = before /\ AtReply /\ sd_cs = FALSE
  BY <1>1, Found DEF At
<1>3. cmd.next = "init_check" /\ Answered(r) /\ Follows(0, r)
  BY <1>2 DEF AtReply
<1>4. Expecting /\ IF kind = "old" THEN r # "01" ELSE r = "01" /\ state = "idle" /\ ~opcond
  BY <1>3 DEF Answered
<1>5. fn = "sd_init"
  BY <1>2 DEF CallOf, InitLabels
<1>6. CASE r # "01"
  <2>1. Quiet /\ kind = "old"
    BY <1>3, <1>4, <1>6 DEF Follows, Quiet
  <2>2. pc' = "none" /\ result' = "-3" /\ UNCHANGED <<fn, addr, buf, before>>
    BY <1>1, <1>6 DEF InitCheck, Return, Kept
  <2>3. Pinned /\ UNCHANGED <<out, queue, expect, got, sd_cs>> /\ CardTyped'
    BY <1>1, <1>2, KeptPins, KeptTyped
  <2>4. Quiet' /\ Expecting'
    BY <1>4, <2>1, <2>3, SameLine DEF Expecting
  <2>5. AtNone'
    BY <1>2, <1>5, <2>1, <2>2, <2>3, <2>4 DEF AtNone, Returned, Pinned
  <2> QED  BY <2>2, <2>3, <2>5, ReturnTalk
<1>7. CASE r = "01"
  <2>1. Go("init_echo", Repeat(4, "FF")) /\ Talk
    BY <1>7 DEF InitCheck, BInv
  <2>2. /\ left' = Repeat(4, "FF") /\ came' = <<>> /\ pc' = "init_echo" /\ Pinned /\ CardTyped'
        /\ UNCHANGED <<out, queue, expect, got, sd_cs, fn, addr, buf, before, moving>>
    BY <1>1, <1>2, <2>1, Gone
  <2>3. Silent(4) /\ \A k \in 1 .. 4 : Comes(k) = Echo[k]
    BY <1>3, <1>7 DEF Follows
  <2>4. CallOf'
    BY <1>2, <1>5, <2>2 DEF CallOf, label, Pinned, InitLabels, ReadLabels, WriteLabels
  <2>5. Len(left') = 4 /\ Filling' /\ Len(came') = 0
    BY <2>2 DEF Repeat, Filling
  <2>6. Silent(4)' /\ \A k \in 1 .. 4 : Comes(k)' = Echo[k]
    BY <2>2, <2>3, SameLine
  <2>7. Silent(4 - Len(came))' /\ \A k \in 1 .. 4 : Comes(k - Len(came))' = Echo[k]
    <3>1. 4 - Len(came') = 4 /\ \A k \in 1 .. 4 : k - Len(came') = k
      BY <2>5
    <3> QED  BY <2>6, <3>1 DEF Silent, Comes, Calm
  <2>8. AtEcho'
    <3>1. kind' # "old" /\ state' = "idle" /\ ~opcond' /\ Expecting'
      BY <1>4, <1>7, <2>2 DEF Pinned, Expecting
    <3>2. \A k \in 1 .. 4 : ~(k <= Len(came'))
      BY <2>5
    <3> QED  BY <2>5, <2>7, <3>1, <3>2 DEF AtEcho, Echo
  <2> QED  BY <2>2, <2>4, <2>8, Elsewhere DEF Talk, BInv, ReadLabels, WriteLabels
<1> QED  BY <1>6, <1>7

LEMMA AppTalk ==
  ASSUME IInv, CardTyped, inserted, moving = "no", UNCHANGED Kept, fn = "sd_init", store = before,
         Expecting, Dull, AppCommand, state # "power", kind # "old"
  PROVE  BInv'
<1>1. Call("CMD55", NoArg, "01", <<"FF">>, "init_app")
  BY DEF AppCommand
<1>2. Orders' /\ Trailed'
  BY <1>1 DEF Call, Orders, Trailed, Returns
<1>3. Pinned /\ cmd'.next = "init_app" /\ (Before' => BInv')
  BY <1>1, <1>2, InitCall DEF InitLabels
<1>4. Before'
  BY <1>3 DEF Before, Pinned
<1> QED  BY <1>3, <1>4

LEMMA InitEchoTalk ==
  ASSUME IInv, BInv, inserted, InitEcho
  PROVE  BInv'
<1>1. At("init_echo") /\ UNCHANGED Kept
  BY DEF InitEcho
<1>2. /\ pc = "init_echo" /\ moving = "no" /\ CardTyped /\ CallOf /\ label = "init_echo"
      /\ store = before /\ AtEcho /\ left = <<>> /\ came = replies
  BY <1>1, Found DEF At
<1>3. PICK n \in Nat : n = Len(came)
  BY <1>2 DEF IInv, RepliesOK
<1>4. /\ kind # "old" /\ state = "idle" /\ Expecting
      /\ n + Len(left) = 4 /\ Silent(4 - n)
      /\ \A k \in 1 .. 4 : Echo[k] = IF k <= n THEN came[k] ELSE Comes(k - n)
  BY <1>2, <1>3 DEF AtEcho
<1>5. n = 4
  <2>1. Len(left) = 0
    BY <1>2
  <2>2. n + 0 = 4
    BY <1>4, <2>1, Zenon
  <2> QED  BY <2>2
<1>6. Quiet
  BY <1>4, <1>5 DEF Quiet
<1>7. replies[3] = "01" /\ replies[4] = "AA"
  BY <1>2, <1>4, <1>5 DEF Echo
<1>8. AppCommand /\ Dull /\ state # "power"
  BY <1>4, <1>6, <1>7 DEF InitEcho, Dull
<1>9. fn = "sd_init"
  BY <1>2 DEF CallOf, InitLabels
<1> QED  BY <1>1, <1>2, <1>4, <1>8, <1>9, AppTalk

LEMMA InitAppTalk ==
  ASSUME IInv, BInv, inserted, InitApp
  PROVE  BInv'
<1>1. /\ At("init_app") /\ UNCHANGED Kept
      /\ Call("CMD41", <<"40", "00", "00", "00">>, "01", <<"FF">>, "init_opcond")
  BY DEF InitApp
<1>2. /\ pc = "init_app" /\ moving = "no" /\ CardTyped /\ CallOf /\ label = "init_app"
      /\ store = before /\ AtReply
  BY <1>1, Found DEF At
<1>3. cmd.next = "init_app" /\ Answered(r) /\ Quiet
  BY <1>2 DEF AtReply
<1>4. app /\ state # "power" /\ kind # "old" /\ Expecting /\ Dull
  BY <1>3 DEF Answered, Dull
<1>5. Orders' /\ Trailed'
  BY <1>1 DEF Call, Orders, Trailed, Returns
<1>6. fn = "sd_init"
  BY <1>2 DEF CallOf, InitLabels
<1>7. Pinned /\ cmd'.next = "init_opcond" /\ (Before' => BInv')
  BY <1>1, <1>2, <1>4, <1>5, <1>6, InitCall DEF InitLabels
<1>8. Before'
  BY <1>4, <1>7 DEF Before, Pinned
<1> QED  BY <1>7, <1>8

LEMMA InitOpCondTalk ==
  ASSUME IInv, BInv, inserted, InitOpCond
  PROVE  BInv'
<1>1. At("init_opcond") /\ UNCHANGED Kept
  BY DEF InitOpCond
<1>2. /\ pc = "init_opcond" /\ moving = "no" /\ CardTyped /\ CallOf /\ label = "init_opcond"
      /\ store = before /\ AtReply
  BY <1>1, Found DEF At
<1>3. cmd.next = "init_opcond" /\ Answered(r) /\ Quiet
  BY <1>2 DEF AtReply
<1>4. state # "power" /\ kind # "old" /\ Expecting /\ Dull /\ (r = "00" => state = "ready")
  BY <1>3 DEF Answered, Dull
<1>5. fn = "sd_init"
  BY <1>2 DEF CallOf, InitLabels
<1>6. CASE r # "00"
  <2>1. AppCommand
    BY <1>6 DEF InitOpCond
  <2> QED  BY <1>1, <1>2, <1>4, <1>5, <2>1, AppTalk
<1>7. CASE r = "00"
  <2>1. Call("CMD16", <<"00", "00", "02", "00">>, "01", <<"FF">>, "init_length")
    BY <1>7 DEF InitOpCond
  <2>2. Orders' /\ Trailed'
    BY <2>1 DEF Call, Orders, Trailed, Returns
  <2>3. Pinned /\ cmd'.next = "init_length" /\ (Before' => BInv')
    BY <1>1, <1>2, <1>4, <1>5, <2>1, <2>2, InitCall DEF InitLabels
  <2>4. Before'
    BY <1>4, <1>7, <2>3 DEF Before, Pinned
  <2> QED  BY <2>3, <2>4
<1> QED  BY <1>6, <1>7

LEMMA InitLengthTalk ==
  ASSUME IInv, BInv, inserted, InitLength
  PROVE  BInv'
<1>1. At("init_length") /\ UNCHANGED Kept
  BY DEF InitLength
<1>2. /\ pc = "init_length" /\ moving = "no" /\ CardTyped /\ CallOf /\ label = "init_length"
      /\ store = before /\ AtReply
  BY <1>1, Found DEF At
<1>3. cmd.next = "init_length" /\ Answered(r)
  BY <1>2 DEF AtReply
<1>4. r = "00" /\ state = "ready" /\ kind # "old"
  BY <1>3 DEF Answered
<1>5. fn = "sd_init"
  BY <1>2 DEF CallOf, InitLabels
<1>6. Return("0") /\ Pins(TRUE)
  BY <1>4 DEF InitLength
<1>7. Pinned /\ CardTyped' /\ sd_cs' = TRUE
  BY <1>2, <1>6, PinsSet
<1>8. pc' = "none" /\ result' = "0" /\ UNCHANGED <<fn, before>>
  BY <1>1, <1>6 DEF Return, Kept
<1>9. AtNone'
  BY <1>2, <1>4, <1>5, <1>7, <1>8 DEF AtNone, Returned, Pinned
<1> QED  BY <1>7, <1>8, <1>9, ReturnTalk

-----------------------------------------------------------------------------
(* sd_read_block                                                           *)

LEMMA FailTalk ==
  ASSUME IInv, CardTyped, inserted, moving = "no", UNCHANGED Kept, Pins(TRUE), store = before,
         NEW v, Return(v), v # "0", fn # "sd_init"
  PROVE  BInv'
<1>1. Pinned /\ CardTyped' /\ sd_cs' = TRUE
  BY PinsSet
<1>2. pc' = "none" /\ result' = v /\ UNCHANGED <<fn, before>>
  BY DEF Return, Kept
<1>3. AtNone'
  BY <1>1, <1>2 DEF AtNone, Returned, Pinned
<1> QED  BY <1>1, <1>2, <1>3, ReturnTalk

LEMMA ReadCall ==
  ASSUME CallOf, pc \in ReadLabels, store = before, Pinned,
         UNCHANGED <<sd_cs, fn, addr, before>>, pc' \in ReadLabels
  PROVE  CallOf'
<1>1. ~sd_cs /\ fn = "sd_read_block" /\ addr \in Addresses
  BY DEF CallOf, label, ReadLabels
<1> QED  BY <1>1 DEF CallOf, label, Pinned, InitLabels, ReadLabels, WriteLabels

LEMMA ReadR1Talk ==
  ASSUME IInv, BInv, inserted, ReadR1
  PROVE  BInv'
<1>1. At("read_r1") /\ UNCHANGED Kept
  BY DEF ReadR1
<1>2. /\ pc = "read_r1" /\ moving = "no" /\ CardTyped /\ CallOf /\ label = "read_r1"
      /\ store = before /\ AtRead /\ left = <<>>
  BY <1>1, Found DEF At
<1>3. fn = "sd_read_block"
  BY <1>2 DEF CallOf, ReadLabels
<1>4. CASE r # "00"
  <2>1. Return("-1") /\ Pins(TRUE)
    BY <1>4 DEF ReadR1
  <2> QED  BY <1>1, <1>2, <1>3, <2>1, FailTalk
<1>5. CASE r = "00"
  <2>1. Go("read_token", <<"FF">>) /\ KeepPins /\ Talk
    BY <1>5 DEF ReadR1, BInv
  <2>2. /\ left' = <<"FF">> /\ came' = <<>> /\ pc' = "read_token" /\ Pinned /\ CardTyped'
        /\ UNCHANGED <<out, queue, expect, got, sd_cs, fn, addr, buf, before, moving>>
    BY <1>1, <1>2, <2>1, Gone
  <2>3. Expecting /\ Calm /\ (Barren(0) \/ \E n \in Nat, b \in Block : Brings(0, n, b))
    BY <1>2, <1>5 DEF AtRead
  <2>4. Expecting' /\ Calm' /\ (Barren(0)' \/ \E n \in Nat, b \in Block : Brings(0, n, b)')
    BY <2>2, <2>3, SameLine, SameBrings DEF Expecting, Pinned
  <2>5. Filling' /\ Len(left') <= 1 /\ left' # <<>>
    BY <2>2 DEF Filling
  <2>6. AtRead'
    BY <2>2, <2>4, <2>5 DEF AtRead
  <2>7. CallOf'
    BY <1>2, <2>2, ReadCall DEF ReadLabels
  <2> QED  BY <2>2, <2>6, <2>7, Elsewhere DEF Talk, BInv, WriteLabels
<1> QED  BY <1>4, <1>5

LEMMA ReadTokenTalk ==
  ASSUME IInv, BInv, inserted, ReadToken
  PROVE  BInv'
<1>1. At("read_token") /\ UNCHANGED Kept
  BY DEF ReadToken
<1>2. /\ pc = "read_token" /\ moving = "no" /\ CardTyped /\ CallOf /\ label = "read_token"
      /\ store = before /\ AtRead /\ left = <<>> /\ came = replies
  BY <1>1, Found DEF At
<1>3. fn = "sd_read_block"
  BY <1>2 DEF CallOf, ReadLabels
<1>4. /\ Expecting /\ Calm
      /\ IF Last(replies) = "FE"
         THEN \E b \in Block : (kind = "hc" => b = addr) /\ Sends(0, b)
         ELSE Barren(0) \/ \E n \in Nat, b \in Block : Brings(0, n, b)
  BY <1>2 DEF AtRead
<1>5. CASE Last(replies) = "FE"
  <2>1. Go("read_data", Repeat(BLOCK + 2, "FF")) /\ KeepPins /\ Talk
    BY <1>5 DEF ReadToken, BInv
  <2>2. /\ left' = Repeat(BLOCK + 2, "FF") /\ came' = <<>> /\ pc' = "read_data" /\ Pinned
        /\ CardTyped'
        /\ UNCHANGED <<out, queue, expect, got, sd_cs, fn, addr, buf, before, moving>>
    BY <1>1, <1>2, <2>1, Gone
  <2>3. Len(left') = BLOCK + 2 /\ Filling' /\ Len(came') = 0
    <3>1. BLOCK + 2 \in Nat
      BY MediumAssumption
    <3>2. PICK n \in Nat : n = BLOCK + 2
      BY <3>1
    <3>3. left' = [k \in 1 .. n |-> "FF"]
      BY <2>2, <3>2 DEF Repeat
    <3>4. Len(left') = n
      BY <3>3
    <3> QED  BY <2>2, <3>2, <3>3, <3>4 DEF Filling
  <2>4. Len(came') + Len(left') = BLOCK + 2
    <3>1. BLOCK + 2 \in Nat
      BY MediumAssumption
    <3> QED  BY <2>3, <3>1
  <2>5. PICK b \in Block : (kind = "hc" => b = addr) /\ Sends(0, b)
    BY <1>4, <1>5
  <2>6. \A k \in 1 .. BLOCK : store'[b][k] = Comes(k - Len(came))' /\ ~(k <= Len(came'))
    <3>1. \A k \in 1 .. BLOCK : 0 + k = k /\ k - Len(came') = k /\ ~(k <= Len(came'))
      BY <2>3, MediumAssumption
    <3>2. \A k \in 1 .. BLOCK : store[b][k] = Comes(k)
      BY <2>5, <3>1 DEF Sends
    <3>3. \A k \in 1 .. BLOCK : store'[b][k] = Comes(k)'
      BY <2>2, <3>2, SameLine DEF Pinned
    <3> QED  BY <3>1, <3>3 DEF Comes
  <2>7. AtRead'
    <3>1. Expecting' /\ Calm'
      BY <1>4, <2>2, SameLine DEF Expecting
    <3>2. kind' = "hc" => b = addr'
      BY <2>2, <2>5 DEF Pinned
    <3> QED  BY <2>2, <2>3, <2>4, <2>6, <3>1, <3>2 DEF AtRead
  <2>8. CallOf'
    BY <1>2, <2>2, ReadCall DEF ReadLabels
  <2> QED  BY <2>2, <2>7, <2>8, Elsewhere DEF Talk, BInv, WriteLabels
<1>6. CASE Last(replies) # "FE" /\ i < TOKEN_LIMIT
  <2>1. Go("read_token", <<"FF">>) /\ KeepPins /\ Talk
    BY <1>6 DEF ReadToken, BInv
  <2>2. /\ left' = <<"FF">> /\ came' = <<>> /\ pc' = "read_token" /\ Pinned /\ CardTyped'
        /\ UNCHANGED <<out, queue, expect, got, sd_cs, fn, addr, buf, before, moving>>
    BY <1>1, <1>2, <2>1, Gone
  <2>3. Expecting' /\ Calm' /\ (Barren(0)' \/ \E n \in Nat, b \in Block : Brings(0, n, b)')
    BY <1>4, <1>6, <2>2, SameLine, SameBrings DEF Expecting, Pinned
  <2>4. Filling' /\ Len(left') <= 1 /\ left' # <<>>
    BY <2>2 DEF Filling
  <2>5. AtRead'
    BY <2>2, <2>3, <2>4 DEF AtRead
  <2>6. CallOf'
    BY <1>2, <2>2, ReadCall DEF ReadLabels
  <2> QED  BY <2>2, <2>5, <2>6, Elsewhere DEF Talk, BInv, WriteLabels
<1>7. CASE Last(replies) # "FE" /\ ~(i < TOKEN_LIMIT)
  <2>1. Return("-2") /\ Pins(TRUE)
    BY <1>7 DEF ReadToken
  <2> QED  BY <1>1, <1>2, <1>3, <2>1, FailTalk
<1> QED  BY <1>5, <1>6, <1>7

LEMMA ReadDataTalk ==
  ASSUME IInv, BInv, inserted, ReadData
  PROVE  BInv'
<1>1. /\ At("read_data") /\ Pins(TRUE) /\ Go("end", <<"FF">>) /\ buf' = SubSeq(replies, 1, BLOCK)
      /\ UNCHANGED <<fn, addr, moving, before>>
  BY DEF ReadData
<1>2. /\ pc = "read_data" /\ moving = "no" /\ CardTyped /\ CallOf /\ label = "read_data"
      /\ store = before /\ AtRead /\ left = <<>> /\ came = replies
  BY <1>1, Found DEF At
<1>3. fn = "sd_read_block"
  BY <1>2 DEF CallOf, ReadLabels
<1>4. Pinned /\ CardTyped' /\ sd_cs' = TRUE
  BY <1>1, <1>2, PinsSet
<1>5. PICK b \in Block :
        /\ kind = "hc" => b = addr
        /\ \A k \in 1 .. BLOCK :
             store[b][k] = IF k <= Len(replies) THEN replies[k] ELSE Comes(k - Len(replies))
  BY <1>2 DEF AtRead
<1>6. PICK n \in Nat : n = Len(replies) /\ n = BLOCK + 2
  <2>1. Len(replies) + Len(left) = BLOCK + 2 /\ Len(left) = 0 /\ Len(replies) \in Nat
    BY <1>2 DEF AtRead, IInv, RepliesOK
  <2>2. Len(replies) + 0 = BLOCK + 2
    BY <2>1, Zenon
  <2>3. Len(replies) = BLOCK + 2
    BY <2>1, <2>2, MediumAssumption
  <2> QED  BY <2>1, <2>3
<1>7. buf' = store[b]
  <2>1. BLOCK \in Nat /\ replies \in Seq(Names \cup {"??"})
    BY MediumAssumption DEF IInv, RepliesOK
  <2>2. store[b] \in Seq(Contents) /\ Len(store[b]) = BLOCK
    BY <1>2 DEF CardTyped, Whole
  <2>3. \A k \in 1 .. BLOCK : store[b][k] = replies[k]
    <3>1. \A k \in 1 .. BLOCK : k <= n
      BY <1>6, <2>1
    <3> QED  BY <1>5, <1>6, <3>1
  <2>4. PICK s : s = SubSeq(replies, 1, BLOCK)
    OBVIOUS
  <2>5. /\ s \in Seq(Names \cup {"??"}) /\ Len(s) = BLOCK
        /\ \A k \in 1 .. BLOCK : s[k] = replies[k]
    <3>1. PICK q \in Seq(Names \cup {"??"}), m \in Nat :
            q = replies /\ m = BLOCK /\ Len(q) = m + 2
      BY <1>6, <2>1
    <3>2. s = SubSeq(q, 1, m)
      BY <2>4, <3>1
    <3>3. /\ s \in Seq(Names \cup {"??"}) /\ Len(s) = m
          /\ \A k \in 1 .. m : s[k] = q[k]
      BY <3>1, <3>2
    <3> QED  BY <3>1, <3>3
  <2>6. PICK t \in Seq(Contents) : t = store[b] /\ Len(t) = BLOCK
    BY <2>2
  <2>7. s = t
    <3>1. \A k \in 1 .. BLOCK : s[k] = t[k]
      BY <2>3, <2>5, <2>6
    <3> QED  BY <2>1, <2>5, <2>6, <3>1
  <2> QED  BY <1>1, <2>4, <2>6, <2>7
<1>8. pc' = "end"
  BY <1>1 DEF Go
<1>9. AtEnd'
  BY <1>1, <1>2, <1>3, <1>4, <1>5, <1>7, <1>8 DEF AtEnd, Pinned
<1>10. CallOf'
  BY <1>1, <1>3, <1>8 DEF CallOf, label, InitLabels, ReadLabels, WriteLabels
<1> QED  BY <1>4, <1>8, <1>9, <1>10, Elsewhere DEF Talk, BInv, ReadLabels, WriteLabels

LEMMA EndTalk ==
  ASSUME IInv, BInv, inserted, End
  PROVE  BInv'
<1>1. At("end") /\ KeepPins /\ UNCHANGED Kept /\ Return("0")
  BY DEF End
<1>2. pc = "end" /\ moving = "no" /\ CardTyped /\ CallOf /\ label = "end" /\ AtEnd
  BY <1>1, Found DEF At
<1>3. Pinned /\ UNCHANGED <<out, queue, expect, got, sd_cs>> /\ CardTyped'
  BY <1>1, <1>2, KeptPins, KeptTyped
<1>4. pc' = "none" /\ result' = "0" /\ UNCHANGED <<fn, addr, buf, before>>
  BY <1>1 DEF Return, Kept
<1>5. fn \in {"sd_read_block", "sd_write_block"}
  BY <1>2 DEF CallOf
<1>6. AtNone'
  BY <1>2, <1>3, <1>4, <1>5 DEF AtNone, AtEnd, Returned, Pinned, Wrote
<1> QED  BY <1>3, <1>4, <1>6, ReturnTalk

-----------------------------------------------------------------------------
(* sd_write_block                                                          *)

LEMMA WriteCall ==
  ASSUME CallOf, pc \in WriteLabels, Pinned, UNCHANGED <<sd_cs, fn, addr, buf>>,
         pc' \in {"write_resp", "write_busy"}
  PROVE  CallOf'
<1>1. ~sd_cs /\ fn = "sd_write_block" /\ addr \in Addresses /\ Whole(buf)
  BY DEF CallOf, label, WriteLabels
<1> QED  BY <1>1 DEF CallOf, label, Pinned, InitLabels, ReadLabels, WriteLabels, Whole

LEMMA WriteR1Talk ==
  ASSUME IInv, BInv, inserted, WriteR1
  PROVE  BInv'
<1>1. At("write_r1") /\ UNCHANGED Kept
  BY DEF WriteR1
<1>2. /\ pc = "write_r1" /\ moving = "no" /\ CardTyped /\ CallOf /\ label = "write_r1"
      /\ store = before /\ AtWrite /\ left = <<>>
  BY <1>1, Found DEF At
<1>3. fn = "sd_write_block" /\ Whole(buf)
  BY <1>2 DEF CallOf, WriteLabels
<1>4. CASE r # "00"
  <2>1. Return("-1") /\ Pins(TRUE)
    BY <1>4 DEF WriteR1
  <2> QED  BY <1>1, <1>2, <1>3, <2>1, FailTalk
<1>5. CASE r = "00"
  <2>1. Go("write_resp", Row) /\ KeepPins /\ Talk
    BY <1>5 DEF WriteR1, BInv, Row
  <2>2. /\ left' = Row /\ came' = <<>> /\ pc' = "write_resp" /\ Pinned /\ CardTyped'
        /\ UNCHANGED <<out, queue, expect, got, sd_cs, fn, addr, buf, before, moving>>
    BY <1>1, <1>2, <2>1, Gone
  <2>3. expect = "token" /\ Quiet /\ target \in Block /\ (kind = "hc" => target = addr)
    BY <1>2, <1>5 DEF AtWrite
  <2>4. /\ expect' = "token" /\ Quiet' /\ target' \in Block /\ (kind' = "hc" => target' = addr')
        /\ store' = before'
    BY <1>2, <2>2, <2>3, SameLine DEF Pinned
  <2>5. PICK row : row = Row /\ Len(row) = BLOCK + 5
    <3>1. buf \in Seq(Names) /\ Len(buf) = BLOCK
      BY <1>3, NamedNames DEF Whole
    <3> QED  BY <3>1, RowBytes
  <2>6. left' = row /\ Row' = row /\ Len(came') = 0 /\ Len(left') = BLOCK + 5
    BY <2>2, <2>5 DEF Row
  <2>7. PICK p : p = Len(came')
    OBVIOUS
  <2>8. /\ p = 0 /\ p + Len(left') = BLOCK + 5 /\ \A k \in 1 .. Len(left') : left'[k] = row[p + k]
        /\ p \notin 2 .. BLOCK + 3 /\ p # BLOCK + 4 /\ p # BLOCK + 5
    <3>1. BLOCK \in Nat /\ 0 + (BLOCK + 5) = BLOCK + 5
      BY MediumAssumption
    <3>2. p = 0 /\ \A k \in 1 .. Len(left') : p + k = k
      BY <2>6, <2>7, <3>1
    <3> QED  BY <2>6, <3>1, <3>2
  <2>9. AtWrite'
    BY <2>2, <2>4, <2>6, <2>7, <2>8 DEF AtWrite
  <2>10. CallOf'
    BY <1>2, <2>2, WriteCall DEF WriteLabels
  <2> QED  BY <2>2, <2>9, <2>10, Elsewhere DEF Talk, BInv, ReadLabels
<1> QED  BY <1>4, <1>5

LEMMA WriteRespTalk ==
  ASSUME IInv, BInv, inserted, WriteResp
  PROVE  BInv'
<1>1. At("write_resp") /\ UNCHANGED Kept
  BY DEF WriteResp
<1>2. /\ pc = "write_resp" /\ moving = "no" /\ CardTyped /\ CallOf /\ label = "write_resp"
      /\ AtWrite /\ left = <<>> /\ came = replies
  BY <1>1, Found DEF At
<1>3. fn = "sd_write_block"
  BY <1>2 DEF CallOf, WriteLabels
<1>4. PICK p \in Nat : p = Len(came)
  BY <1>2 DEF IInv, RepliesOK
<1>5. /\ p + Len(left) = BLOCK + 5
      /\ p = BLOCK + 5 =>
            /\ Expecting
            /\ \/ Last(came) = "05" /\ Dull /\ Wrote
               \/ Last(came) = "0D" /\ store = before
  BY <1>2, <1>4 DEF AtWrite
<1>6. p = BLOCK + 5
  <2>1. Len(left) = 0
    BY <1>2
  <2>2. p + 0 = BLOCK + 5
    BY <1>5, <2>1, Zenon
  <2> QED  BY <2>2
<1>7. Expecting /\ (Last(replies) = "05" => Dull /\ Wrote)
      /\ (Last(replies) # "05" => store = before)
  BY <1>2, <1>5, <1>6
<1>8. CASE Last(replies) # "05"
  <2>1. Return("-2") /\ Pins(TRUE)
    BY <1>8 DEF WriteResp
  <2> QED  BY <1>1, <1>2, <1>3, <1>7, <1>8, <2>1, FailTalk
<1>9. CASE Last(replies) = "05"
  <2>1. Go("write_busy", <<"FF">>) /\ KeepPins /\ Talk
    BY <1>9 DEF WriteResp, BInv
  <2>2. /\ left' = <<"FF">> /\ came' = <<>> /\ pc' = "write_busy" /\ Pinned /\ CardTyped'
        /\ UNCHANGED <<out, queue, expect, got, sd_cs, fn, addr, buf, before, moving>>
    BY <1>1, <1>2, <2>1, Gone
  <2>3. Filling' /\ Expecting' /\ Dull' /\ Wrote'
    BY <1>7, <1>9, <2>2, SameLine DEF Filling, Expecting, Wrote, Pinned
  <2>4. AtWrite'
    BY <2>2, <2>3 DEF AtWrite
  <2>5. CallOf'
    BY <1>2, <2>2, WriteCall DEF WriteLabels
  <2> QED  BY <2>2, <2>4, <2>5, Elsewhere DEF Talk, BInv, ReadLabels
<1> QED  BY <1>8, <1>9

LEMMA WriteBusyTalk ==
  ASSUME IInv, BInv, inserted, WriteBusy
  PROVE  BInv'
<1>1. At("write_busy") /\ UNCHANGED <<Kept, cmd, i>>
  BY DEF WriteBusy
<1>2. /\ pc = "write_busy" /\ moving = "no" /\ CardTyped /\ CallOf /\ label = "write_busy"
      /\ AtWrite /\ UNCHANGED <<fn, addr, buf, before, moving>>
  BY <1>1, Found DEF At, Kept
<1>3. fn = "sd_write_block" /\ Expecting /\ Dull /\ Wrote
  BY <1>2 DEF CallOf, WriteLabels, AtWrite
<1>4. CASE Last(replies) = "00"
  <2>1. Go("write_busy", <<"FF">>) /\ KeepPins /\ Talk
    BY <1>4 DEF WriteBusy, BInv
  <2>2. /\ left' = <<"FF">> /\ came' = <<>> /\ pc' = "write_busy" /\ Pinned /\ CardTyped'
        /\ UNCHANGED <<out, queue, expect, got, sd_cs, fn, addr, buf, before, moving>>
    BY <1>1, <1>2, <2>1, Gone
  <2>3. Filling' /\ Expecting' /\ Dull' /\ Wrote'
    BY <1>3, <2>2, SameLine DEF Filling, Expecting, Wrote, Pinned
  <2>4. AtWrite'
    BY <2>2, <2>3 DEF AtWrite
  <2>5. CallOf'
    BY <1>2, <2>2, WriteCall DEF WriteLabels
  <2> QED  BY <2>2, <2>4, <2>5, Elsewhere DEF Talk, BInv, ReadLabels
<1>5. CASE Last(replies) # "00"
  <2>1. Go("end", <<"FF">>) /\ Pins(TRUE)
    BY <1>5 DEF WriteBusy
  <2>2. Pinned /\ CardTyped' /\ sd_cs' = TRUE /\ pc' = "end"
    BY <1>2, <2>1, PinsSet DEF Go
  <2>3. AtEnd'
    BY <1>2, <1>3, <2>2 DEF AtEnd, Wrote, Pinned
  <2>4. CallOf'
    BY <1>2, <1>3, <2>2 DEF CallOf, label, InitLabels, ReadLabels, WriteLabels
  <2> QED  BY <2>2, <2>3, <2>4, Elsewhere DEF Talk, BInv, ReadLabels, WriteLabels
<1> QED  BY <1>4, <1>5

-----------------------------------------------------------------------------
(* The callers.                                                            *)

LEMMA Free ==
  ASSUME IInv, BInv, inserted, pc = "none"
  PROVE  moving = "no" /\ CardTyped /\ (sd_cs \/ (Expecting /\ Dull))
<1>1. moving = "no" /\ sd_cs \in BOOLEAN
  BY DEF IInv, PlaceOK, HelperOK
<1>2. CardTyped /\ AtNone
  BY DEF BInv, Talk
<1> QED  BY <1>1, <1>2 DEF AtNone, Dull

LEMMA SdInitTalk ==
  ASSUME IInv, BInv, inserted, SdInit
  PROVE  BInv'
<1>1. /\ pc = "none" /\ fn' = "sd_init" /\ before' = store /\ moving' = moving
      /\ WriteCmd(TRUE, Zero, FALSE) /\ CardSeesPins
      /\ pc' = "init_wake" /\ todo' = Repeat(INIT_BYTES, "FF")
  BY DEF SdInit, Enter, Go
<1>2. moving = "no" /\ CardTyped
  BY <1>1, Free
<1>3. Pinned /\ CardTyped' /\ sd_cs' = TRUE
  BY <1>1, <1>2, PinsRaise
<1>4. CallOf'
  BY <1>1, <1>3 DEF CallOf, label, InitLabels, ReadLabels, WriteLabels, Pinned
<1>5. Wakes'
  <2>1. Len(todo') = INIT_BYTES
    BY <1>1, NamedNames, CardAssumption, RepeatNames DEF Named
  <2>2. Clocked' = 0
    BY <1>1, <1>2 DEF Clocked
  <2>3. 2 * clocks' + 2 * (BITS * INIT_BYTES) - 0 >= 2 * WAKE
    <3>1. clocks' \in Nat /\ WAKE \in Nat /\ BITS \in Nat /\ INIT_BYTES \in Nat
      BY <1>3, BitsAssumption, MediumAssumption, CardAssumption DEF CardTyped
    <3>2. PICK n \in Nat : n = BITS * INIT_BYTES /\ n = INIT_BYTES * BITS
      BY <3>1
    <3>3. WAKE <= n
      BY <3>2, CardAssumption
    <3>4. PICK c \in Nat : c = clocks'
      BY <3>1
    <3>5. 2 * c + 2 * n - 0 >= 2 * WAKE
      BY <3>1, <3>3
    <3> QED  BY <3>2, <3>4, <3>5
  <2>4. 2 * clocks' + 2 * (BITS * Len(todo')) - Clocked' >= 2 * WAKE
    BY <2>1, <2>2, <2>3
  <2> QED  BY <1>3, <2>4 DEF Wakes
<1> QED  BY <1>1, <1>3, <1>4, <1>5, Elsewhere DEF Talk, BInv, ReadLabels, WriteLabels

LEMMA BlockCall ==
  ASSUME IInv, CardTyped, inserted, moving = "no", moving' = moving, sd_cs \/ (Expecting /\ Dull),
         before' = store, NEW a \in Addresses, addr' = a, NEW c, NEW next,
         Call(c, AddressArg(a), "01", <<"FF">>, next),
         \/ c = "CMD17" /\ next = "read_r1" /\ fn' = "sd_read_block"
         \/ c = "CMD24" /\ next = "write_r1" /\ fn' = "sd_write_block" /\ Whole(buf')
  PROVE  BInv'
<1>1. /\ Pins(FALSE) /\ pc' = "cmd_busy"
      /\ cmd' = [frame |-> Frame(c, AddressArg(a), "01"), trail |-> <<"FF">>, next |-> next]
  BY DEF Call, Go
<1>2. Pinned /\ sd_cs' = FALSE
  BY <1>1, PinsLower
<1>3. AddressArg(addr)' = AddressArg(a)
  BY DEF AddressArg
<1>4. Orders' /\ Trailed' /\ Before'
  <2>1. cmd'.next = next /\ cmd'.frame = Frame(c, AddressArg(a), "01") /\ cmd'.trail = <<"FF">>
    BY <1>1
  <2>2. Trailed' /\ Before'
    BY <2>1 DEF Trailed, Before
  <2>3. Orders'
    BY <1>3, <2>1 DEF Orders, Returns, Frame, AddressArg
  <2> QED  BY <2>2, <2>3
<1>5. CallOf'
  BY <1>1, <1>2 DEF CallOf, label, InitLabels, ReadLabels, WriteLabels, Pinned, Whole
<1> QED  BY <1>4, <1>5, CallTalk

LEMMA BlockCallsTalk ==
  ASSUME IInv, BInv, inserted, SdReadBlock \/ SdWriteBlock
  PROVE  BInv'
<1>1. pc = "none"
  BY DEF SdReadBlock, SdWriteBlock, Enter
<1>2. moving = "no" /\ CardTyped /\ (sd_cs \/ (Expecting /\ Dull))
  BY <1>1, Free
<1>3. CASE SdReadBlock
  <2>1. PICK a \in Addresses :
          /\ Enter("sd_read_block", a, <<>>)
          /\ Call("CMD17", AddressArg(a), "01", <<"FF">>, "read_r1")
    BY <1>3 DEF SdReadBlock
  <2>2. fn' = "sd_read_block" /\ addr' = a /\ before' = store /\ moving' = moving
    BY <2>1 DEF Enter
  <2> QED  BY <1>2, <2>1, <2>2, BlockCall
<1>4. CASE SdWriteBlock
  <2>1. PICK a \in Addresses, b \in Buffers :
          /\ Enter("sd_write_block", a, b)
          /\ Call("CMD24", AddressArg(a), "01", <<"FF">>, "write_r1")
    BY <1>4 DEF SdWriteBlock
  <2>2. fn' = "sd_write_block" /\ addr' = a /\ buf' = b /\ before' = store /\ moving' = moving
    BY <2>1 DEF Enter
  <2>3. Whole(buf')
    BY <2>2, CardAssumption DEF Whole
  <2> QED  BY <1>2, <2>1, <2>2, <2>3, BlockCall
<1> QED  BY <1>3, <1>4

-----------------------------------------------------------------------------
(* What happens to driver and card.                                        *)

LEMMA ResetTalk ==
  ASSUME IInv, BInv, inserted, Reset
  PROVE  BInv'
<1>1. /\ sd_cs' = TRUE /\ sd_clk' = FALSE /\ CardSeesPins /\ pc' = "none" /\ result' = "reset"
      /\ fn' = "none" /\ moving' = "no"
  BY DEF Reset, HelperReset
<1>2. CardTyped /\ sd_cs \in BOOLEAN /\ sd_clk \in BOOLEAN
  BY DEF BInv, Talk, IInv, HelperOK
<1>3. Rested' /\ Pinned
  <2>1. CASE ~sd_cs
    <3>1. Deselect
      BY <1>1, <2>1 DEF CardSeesPins
    <3> QED  BY <3>1, BusyKept
  <2>2. CASE sd_cs
    <3>1. UNCHANGED medium
      BY <1>1, <1>2, <2>2 DEF CardSeesPins, Fall
    <3> QED  BY <1>2, <2>2, <3>1 DEF medium, Pinned, CardTyped, Rested, Expecting
  <2> QED  BY <1>2, <2>1, <2>2
<1>4. CardTyped'
  BY <1>2, <1>3 DEF CardTyped, Pinned, Whole
<1>5. AtNone'
  BY <1>1 DEF AtNone, Returned
<1> QED  BY <1>1, <1>4, <1>5, ReturnTalk

(* sx is no matter of the card's.                                          *)
LEMMA ToggleTalk ==
  ASSUME IInv, BInv, inserted, ToggleSpi \/ UNCHANGED vars
  PROVE  BInv'
<1>1. /\ UNCHANGED <<helper, medium, fn, addr, buf, pc, todo, replies, moving, reply, cmd, i,
                     result, before>>
  BY DEF ToggleSpi, vars, driver
<1>2. UNCHANGED <<left, came, Clocked>>
  BY <1>1 DEF left, came, Done, Clocked, Tick, helper
<1>3. Stays
  BY <1>1, <1>2 DEF Stays, line, call, medium, helper
<1>4. Talk /\ Wakes /\ clocks \in Nat
  BY DEF BInv, Talk, CardTyped
<1>5. clocks' = clocks /\ UNCHANGED <<todo, pc, sd_cs, inserted>>
  BY <1>1 DEF medium, helper
<1>6. Talk'
  BY <1>3, <1>4, <1>5, StaysTalk
<1>7. Wakes'
  BY <1>2, <1>4, <1>5 DEF Wakes
<1> QED  BY <1>6, <1>7 DEF BInv

(* A block is written at last: so far the card could only be asked whether *)
(* it is busy.                                                             *)
LEMMA WrittenTalk ==
  ASSUME IInv, BInv, inserted, Written, UNCHANGED driver
  PROVE  BInv'
<1>1. /\ UNCHANGED <<inserted, kind, state, clocks, heard, out, expect, got, app, opcond, target,
                     store, helper, fn, addr, buf, pc, todo, replies, moving, reply, cmd, i,
                     result, before>>
      /\ queue # <<>> /\ Head(queue) = "busy" /\ queue' = Tail(queue)
  BY DEF Written, Busy, driver
<1>2. UNCHANGED <<left, came, Clocked, sd_cs, r>>
  BY <1>1 DEF left, came, Done, Clocked, Tick, helper, r
<1>3. ~Calm
  <2>1. queue \in Seq(Names)
    BY DEF IInv, CardOK
  <2>2. 1 \in 1 .. Len(queue) /\ queue[1] = "busy"
    BY <1>1, <2>1
  <2> QED  BY <2>2 DEF Calm
<1>4. ~Quiet /\ (\A m : ~Silent(m))
  BY <1>3 DEF Quiet, Silent
<1>5. queue = <<"busy">> => queue' = <<>>
  BY <1>1
<1>6. (Dull => Dull') /\ (Rested => Rested') /\ (Expecting <=> Expecting')
  BY <1>1, <1>4, <1>5 DEF Dull, Rested, Expecting
<1>7. /\ CardTyped /\ CallOf /\ AtNone /\ AtBusy /\ AtR1 /\ AtReply /\ AtEcho /\ AtRead
      /\ AtWrite /\ AtEnd /\ Wakes
  BY DEF BInv, Talk
<1>8. CardTyped' /\ CallOf' /\ AtEnd' /\ Wakes'
  BY <1>1, <1>2, <1>6, <1>7 DEF CardTyped, Whole, CallOf, label, AtEnd, Wrote, Wakes
<1>9. AtNone'
  BY <1>1, <1>2, <1>4, <1>7 DEF AtNone, Returned, Wrote
<1>10. AtBusy'
  <2>1. pc = "cmd_busy" => Orders' /\ Before' /\ Trailed'
    BY <1>1, <1>7, OrdersKept, BeforeKept DEF AtBusy, Trailed
  <2> QED  BY <1>1, <1>2, <1>4, <1>6, <1>7, <2>1 DEF AtBusy, Filling
<1>11. AtR1'
  <2>1. ~Sending /\ ~Unanswered
    BY <1>4 DEF Sending, Unanswered
  <2>2. \A m, v : ~Awaited(m, v) /\ ~Follows(m, v)
    BY <1>3, <1>4 DEF Awaited, Follows
  <2>3. ~Polling
    BY <2>2 DEF Polling
  <2> QED  BY <1>1, <1>7, <2>1, <2>3 DEF AtR1
<1>12. AtReply'
  <2>1. \A m, v : ~Follows(m, v)
    BY <1>3, <1>4 DEF Follows
  <2> QED  BY <1>1, <1>4, <1>7, <2>1 DEF AtReply
<1>13. AtEcho'
  BY <1>1, <1>4, <1>7 DEF AtEcho
<1>14. AtRead'
  BY <1>1, <1>2, <1>3, <1>6, <1>7 DEF AtRead, Filling
<1>15. AtWrite'
  BY <1>1, <1>2, <1>4, <1>5, <1>6, <1>7 DEF AtWrite, Filling, Wrote, Row, Last
<1> QED  BY <1>8, <1>9, <1>10, <1>11, <1>12, <1>13, <1>14, <1>15 DEF BInv, Talk

(* The card is ready.                                                      *)
LEMMA InitialisedTalk ==
  ASSUME IInv, BInv, inserted, Initialised, UNCHANGED driver
  PROVE  BInv'
<1>1. /\ UNCHANGED <<inserted, kind, clocks, heard, out, queue, expect, got, app, opcond, target,
                     store, helper, fn, addr, buf, pc, todo, replies, moving, reply, cmd, i,
                     result, before>>
      /\ opcond /\ state = "idle" /\ state' = "ready"
  BY DEF Initialised, driver
<1>2. UNCHANGED <<left, came, Clocked, sd_cs, r>>
  BY <1>1 DEF left, came, Done, Clocked, Tick, helper, r
<1>3. /\ CardTyped /\ CallOf /\ AtNone /\ AtBusy /\ AtR1 /\ AtReply /\ AtEcho /\ AtRead
      /\ AtWrite /\ AtEnd /\ Wakes
  BY DEF BInv, Talk
<1>4. Before => Before'
  BY <1>1 DEF Before
<1>5. \A v : Answered(v) => Answered(v)'
  BY <1>1 DEF Answered, Expecting
<1>6. /\ (Quiet <=> Quiet') /\ (Dull <=> Dull') /\ (Calm <=> Calm')
      /\ \A m : (Silent(m) <=> Silent(m)') /\ (Barren(m) <=> Barren(m)')
      /\ \A k : Comes(k)' = Comes(k)
      /\ \A m, v : Follows(m, v) <=> Follows(m, v)'
      /\ \A m, n, b : (Brings(m, n, b) <=> Brings(m, n, b)') /\ (Sends(m, b) <=> Sends(m, b)')
  BY <1>1, SameLine, SameFollows, SameBrings
<1>7. CardTyped' /\ CallOf' /\ AtEnd' /\ Wakes' /\ (Expecting <=> Expecting')
  BY <1>1, <1>2, <1>3
  DEF CardTyped, Whole, Rested, Expecting, CallOf, label, AtEnd, Wrote, Wakes
<1>8. AtNone'
  BY <1>1, <1>2, <1>3, <1>6, <1>7 DEF AtNone, Returned, Wrote
<1>9. AtBusy'
  <2>1. pc = "cmd_busy" => Orders' /\ Before' /\ Trailed'
    BY <1>1, <1>3, <1>4, OrdersKept DEF AtBusy, Trailed
  <2> QED  BY <1>1, <1>2, <1>3, <1>6, <1>7, <2>1 DEF AtBusy, Filling, Last
<1>10. AtR1'
  <2>1. Sending => Sending'
    BY <1>1, <1>2, <1>4, <1>6, OrdersKept DEF Sending
  <2>2. \A m, v : Awaited(m, v) => Awaited(m, v)'
    BY <1>5, <1>6 DEF Awaited
  <2>3. Polling => Polling'
    BY <1>1, <1>2, <1>5, <1>6, <2>2 DEF Polling, Filling, Last
  <2>4. Unanswered => Unanswered'
    BY <1>1, <1>2, <1>6, <1>7 DEF Unanswered, Filling, Last
  <2> QED  BY <1>1, <1>3, <2>1, <2>3, <2>4 DEF AtR1, Trailed
<1>11. AtReply'
  BY <1>1, <1>2, <1>3, <1>5, <1>6 DEF AtReply, Filling
<1>12. AtEcho'
  BY <1>1, <1>3 DEF AtEcho
<1>13. AtRead'
  BY <1>1, <1>2, <1>3, <1>6, <1>7 DEF AtRead, Filling, Last
<1>14. AtWrite'
  BY <1>1, <1>2, <1>3, <1>6, <1>7 DEF AtWrite, Filling, Wrote, Row, Last
<1> QED  BY <1>7, <1>8, <1>9, <1>10, <1>11, <1>12, <1>13, <1>14 DEF BInv, Talk

(* A card that is out stays out.                                           *)
LEMMA Out ==
  ASSUME inserted' = FALSE
  PROVE  BInv'
BY DEF BInv, Talk, Wakes

LEMMA StaysOut ==
  ASSUME IInv, ~inserted, [Next]_vars
  PROVE  inserted' = FALSE
<1>1. CardSeesPins => inserted' = inserted
  BY DEF CardSeesPins, medium
<1>2. KeepPins \/ UNCHANGED medium \/ UNCHANGED vars => inserted' = inserted
  BY DEF KeepPins, medium, vars
<1>3. Transfer \/ Edge \/ Reset \/ ToggleSpi => inserted' = inserted
  BY <1>1, <1>2
  DEF Transfer, StartTransfer, EndTransfer, BitHigh, BitLow, Edge, Reset, ToggleSpi
<1>4. Control => inserted' = inserted
  <2>1. Control => Proceeds
    BY CmdProceeds, InitProceeds, BlockProceeds DEF Control
  <2> QED  BY <1>1, <1>2, <2>1 DEF Proceeds, Pins
<1>5. SdInit \/ SdReadBlock \/ SdWriteBlock => inserted' = inserted
  BY <1>1 DEF SdInit, SdReadBlock, SdWriteBlock, Call, Pins
<1>6. ~Written /\ ~Initialised /\ ~PulledOut
  BY DEF Written, Initialised, PulledOut
<1>7. inserted \in BOOLEAN
  BY DEF IInv, CardOK
<1> QED  BY <1>2, <1>3, <1>4, <1>5, <1>6, <1>7 DEF Next, Software, CardItself, Environment

-----------------------------------------------------------------------------
(* Every state the program can be in has driver and card so.               *)

LEMMA InitTalk ==
  ASSUME Init
  PROVE  BInv
<1>1. /\ state = "power" /\ clocks = 0 /\ store = FirstStore /\ before = FirstStore /\ sd_cs = TRUE
      /\ expect = "command" /\ got = <<>> /\ out = "FF" /\ queue = <<>>
      /\ pc = "none" /\ fn = "none" /\ result = "none"
  BY DEF Init, HelperStart, MediumStart
<1>2. CardTyped
  BY <1>1, MediumAssumption DEF CardTyped, Whole, Rested, Expecting
<1>3. CallOf /\ AtNone
  BY <1>1 DEF CallOf, label, InitLabels, ReadLabels, WriteLabels, AtNone, Returned
<1>4. /\ AtBusy /\ AtR1 /\ AtReply /\ AtEcho /\ AtRead /\ AtWrite /\ AtEnd /\ Wakes
  BY <1>1 DEF AtBusy, AtR1, AtReply, AtEcho, AtRead, AtWrite, AtEnd, Wakes
<1> QED  BY <1>2, <1>3, <1>4 DEF BInv, Talk

LEMMA ByteInvariant == Spec => []BInv
<1>1. IInv /\ BInv /\ [Next]_vars => BInv'
  <2> SUFFICES ASSUME IInv, BInv, [Next]_vars PROVE BInv'
    OBVIOUS
  <2>1. CASE ~inserted
    BY <2>1, StaysOut, Out
  <2>2. CASE inserted
    <3>1. CASE Transfer \/ Edge
      BY <2>2, <3>1, TransferTalk
    <3>2. CASE Control
      <4>1. CASE CmdBusy \/ CmdR1
        BY <2>2, <4>1, CmdBusyTalk, CmdRetryTalk, CmdAnswerTalk
      <4>2. CASE InitWake \/ InitReset \/ InitCheck \/ InitEcho
        BY <2>2, <4>2, InitWakeTalk, InitResetTalk, InitCheckTalk, InitEchoTalk
      <4>3. CASE InitApp \/ InitOpCond \/ InitLength
        BY <2>2, <4>3, InitAppTalk, InitOpCondTalk, InitLengthTalk
      <4>4. CASE ReadR1 \/ ReadToken \/ ReadData \/ End
        BY <2>2, <4>4, ReadR1Talk, ReadTokenTalk, ReadDataTalk, EndTalk
      <4>5. CASE WriteR1 \/ WriteResp \/ WriteBusy
        BY <2>2, <4>5, WriteR1Talk, WriteRespTalk, WriteBusyTalk
      <4> QED  BY <3>2, <4>1, <4>2, <4>3, <4>4, <4>5 DEF Control
    <3>3. CASE CardItself /\ UNCHANGED driver
      BY <2>2, <3>3, WrittenTalk, InitialisedTalk DEF CardItself
    <3>4. CASE SdInit \/ SdReadBlock \/ SdWriteBlock
      BY <2>2, <3>4, SdInitTalk, BlockCallsTalk
    <3>5. CASE Reset \/ ToggleSpi \/ UNCHANGED vars
      BY <2>2, <3>5, ResetTalk, ToggleTalk
    <3>6. CASE PulledOut
      BY <3>6, Out DEF PulledOut
    <3> QED  BY <3>1, <3>2, <3>3, <3>4, <3>5, <3>6 DEF Next, Software, Environment
  <2> QED  BY <2>1, <2>2
<1> QED  BY <1>1, InitTalk, Invariant, PTL DEF Spec

(* sd_init (sd_card_cgpt.c:162) succeeds with a card it supports, whatever *)
(* state a reset in the middle of any call left the card in, which is then *)
(* ready; it refuses the cards it does not support.                        *)
THEOREM InitTruthfulAlways == Spec => []InitTruthful
<1>1. BInv => InitTruthful
  BY DEF BInv, Talk, AtNone, InitTruthful
<1> QED  BY <1>1, ByteInvariant, PTL

(* sd_read_block and sd_write_block (sd_card_cgpt.c:217 and 243) that      *)
(* return 0 have read, or written, the block they were asked for, whole    *)
(* and no other; and nothing but a write, none that fails among them, ever *)
(* writes, in any mode, however the card delays and refuses.               *)
THEOREM BlockWholeAlways == Spec => []BlockWhole
<1>1. BInv => BlockWhole
  <2> SUFFICES ASSUME BInv PROVE BlockWhole
    OBVIOUS
  <2>1. (pc = "none" /\ inserted) => AtNone
    BY DEF BInv, Talk
  <2>2. Wrote /\ kind = "hc" => store = [before EXCEPT ![addr] = buf]
    BY DEF Wrote
  <2> QED  BY <2>1, <2>2 DEF AtNone, BlockWhole
<1> QED  BY <1>1, ByteInvariant, PTL

==============================================================================
