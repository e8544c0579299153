------------------------------ MODULE SdMedium ------------------------------
(***************************************************************************)
(* The card in the slot, as sd_card_cgpt.c takes it to be: an SD card in   *)
(* SPI mode that answers in time, that may refuse a read or a write, fail  *)
(* to read a block, be busy after a write, take a while to initialise, and *)
(* be pulled out.  It counts the clocks it sees while it is selected, and  *)
(* takes a byte in and puts one out with every BITS of them.  Deselecting  *)
(* it ends what it was about, except that a block is written to the end.   *)
(***************************************************************************)
EXTENDS SdSpiHelper

CONSTANTS
  Block,         \* the blocks of the card, 0 ..
  BLOCK,         \* bytes in a block, 512
  Contents,      \* the bytes there may be in a block
  Addresses,     \* the addresses there may be in a command
  NumberByte,    \* the byte that stands for the four of an address
  FirstStore,    \* what the blocks hold at first
  Kinds,         \* which cards may be in the slot: "hc" is addressed by
                 \* block, "sc" by byte, "old" knows no CMD8
  WAKE,          \* clocks a card needs before its first command, 74
  NCR,           \* bytes it lets pass before it answers a command, at most
  NAC            \* ... before it sends the data of a block, at least one

(* No byte has the name that ByteOf has for bits out of place, or that a   *)
(* queue has for being busy.                                               *)
ASSUME MediumAssumption ==
  /\ FirstStore \in [Block -> Seq(Contents)] /\ \A b \in Block : Len(FirstStore[b]) = BLOCK
  /\ {"??", "busy"} \cap Contents = {}
  /\ BLOCK \in Nat /\ WAKE \in Nat /\ NCR \in Nat /\ NAC \in Nat
  /\ NumberByte \in [Addresses -> Contents]
  /\ \A a, b \in Addresses : NumberByte[a] = NumberByte[b] => a = b

VARIABLES
  inserted, kind,
  state,         \* "power", "idle" or "ready"
  clocks,        \* clocks seen while deselected in state "power"
  heard,         \* bits of the byte coming in
  out,           \* the byte going out
  queue,         \* bytes to go out after it; "busy" stays until written
  expect,        \* "command", "token" or "data"
  got,           \* bytes of the command or the data so far
  app, opcond,   \* CMD55 has come; ACMD41 has started initialisation
  target,        \* the block to write
  store
medium == <<inserted, kind, state, clocks, heard, out, queue, expect, got, app,
            opcond, target, store>>

Commands == {"CMD0", "CMD8", "CMD55", "CMD41", "CMD16", "CMD17", "CMD24"}

(* The address in an argument; of its bytes the last stands for all.       *)
Number(b) == CHOOSE n \in Addresses : NumberByte[n] = b

(* A deselected card, or none, leaves the line to its pull-up.             *)
miso == IF sd_cs \/ ~inserted THEN One
        ELSE Bits(out)[IF sd_clk /\ heard # <<>> THEN Len(heard)
                                                 ELSE Len(heard) + 1]

Repeat(n, b) == [k \in 1 .. n |-> b]
Busy == queue # <<>> /\ Head(queue) = "busy"

(* What goes out next of a row of bytes.                                   *)
PutOut(row) ==
  IF row = <<>> THEN out' = "FF" /\ queue' = <<>>
  ELSE IF Head(row) = "busy" THEN out' = "00" /\ queue' = row
  ELSE out' = Head(row) /\ queue' = Tail(row)

Answer(bytes) == \E n \in 0 .. NCR : PutOut(Repeat(n, "FF") \o bytes)

R1 == IF state = "idle" THEN "01" ELSE "00"

(* The block an address means, none if there is no such block.             *)
Located(n) ==
  IF kind = "sc" THEN {b \in Block : n = b * BLOCK} ELSE {b \in Block : n = b}

-----------------------------------------------------------------------------
(* The commands.  frame is the command, four bytes of argument and a CRC,  *)
(* which counts for the first two only.                                    *)
Legal(frame) ==
  IF frame[1] = "CMD0"
  THEN frame[6] = "95" /\ (state = "power" => clocks >= WAKE)
  ELSE /\ state # "power"
       /\ CASE frame[1] = "CMD8"  -> frame[6] = "87" /\ kind # "old"
            [] frame[1] = "CMD55" -> TRUE
            [] frame[1] = "CMD41" -> app
            [] OTHER              -> state = "ready"

Resets(frame) ==
  /\ frame[1] = "CMD0"
  /\ state' = "idle" /\ opcond' = FALSE
  /\ Answer(<<"01">>)
  /\ UNCHANGED <<expect, target>>

Checks(frame) ==
  /\ frame[1] = "CMD8"
  /\ Answer(<<R1, "00", "00", frame[4], frame[5]>>)
  /\ UNCHANGED <<state, opcond, expect, target>>

Confirms(frame) ==
  /\ frame[1] \in {"CMD55", "CMD16"}
  /\ Answer(<<R1>>)
  /\ UNCHANGED <<state, opcond, expect, target>>

(* The card is ready some time after this command first came; it says so   *)
(* when asked again.                                                       *)
Initialises(frame) ==
  /\ frame[1] = "CMD41"
  /\ opcond' = TRUE
  /\ Answer(<<R1>>)
  /\ UNCHANGED <<state, expect, target>>

Reads(frame) ==
  /\ frame[1] = "CMD17"
  /\ \/ Answer(<<"20">>)
     \/ \E b \in Located(Number(frame[5])), m \in 1 .. NAC :
          \/ Answer(<<"00">> \o Repeat(m, "FF") \o <<"FE">> \o store[b]
                      \o <<"AA", "AA">>)
          \/ Answer(<<"00">> \o Repeat(m, "FF") \o <<"08">>)
  /\ UNCHANGED <<state, opcond, expect, target>>

Writes(frame) ==
  /\ frame[1] = "CMD24"
  /\ \/ Answer(<<"20">>) /\ UNCHANGED <<expect, target>>
     \/ \E b \in Located(Number(frame[5])) :
          Answer(<<"00">>) /\ expect' = "token" /\ target' = b
  /\ UNCHANGED <<state, opcond>>

(* Before CMD0 there is no answer to anything else.                        *)
Refuses ==
  /\ IF state = "power" THEN PutOut(<<>>)
     ELSE Answer(<<IF state = "idle" THEN "05" ELSE "04">>)
  /\ UNCHANGED <<state, opcond, expect, target>>

Command(frame) ==
  /\ IF Legal(frame)
     THEN \/ Resets(frame) \/ Checks(frame) \/ Confirms(frame)
          \/ Initialises(frame) \/ Reads(frame) \/ Writes(frame)
     ELSE Refuses
  /\ app' = (Legal(frame) /\ frame[1] = "CMD55")

-----------------------------------------------------------------------------
(* A byte has come in, and the next one goes out.                          *)
Ignores(b) ==
  /\ \/ Busy
     \/ expect = "token" /\ b # "FE"
     \/ expect = "command" /\ got = <<>> /\ b \notin Commands
  /\ PutOut(queue)
  /\ UNCHANGED <<state, expect, got, app, opcond, target, store>>

Collects(b) ==
  /\ ~Busy
  /\ \/ expect = "command" /\ Len(got) < 5 /\ (got = <<>> => b \in Commands)
     \/ expect = "data" /\ Len(got) < BLOCK + 1
  /\ got' = Append(got, b)
  /\ PutOut(queue)
  /\ UNCHANGED <<state, expect, app, opcond, target, store>>

Obeys(b) ==
  /\ ~Busy /\ expect = "command" /\ Len(got) = 5
  /\ got' = <<>>
  /\ Command(Append(got, b))
  /\ UNCHANGED store

Opens(b) ==
  /\ ~Busy /\ expect = "token" /\ b = "FE"
  /\ expect' = "data" /\ got' = <<>>
  /\ PutOut(queue)
  /\ UNCHANGED <<state, app, opcond, target, store>>

(* The block is complete, its CRC included: it is accepted or not.         *)
Stores(b) ==
  /\ ~Busy /\ expect = "data" /\ Len(got) = BLOCK + 1
  /\ expect' = "command" /\ got' = <<>>
  /\ \/ /\ PutOut(<<"05", "busy">>)
        /\ store' = [store EXCEPT ![target] = SubSeq(got, 1, BLOCK)]
     \/ PutOut(<<"0D">>) /\ UNCHANGED store
  /\ UNCHANGED <<state, app, opcond, target>>

TakeByte(b) == Ignores(b) \/ Collects(b) \/ Obeys(b) \/ Opens(b) \/ Stores(b)

(* What the card makes of the pins; they move only one at a time, save in  *)
(* a reset.                                                                *)
Rise ==
  IF sd_cs
  THEN /\ clocks' = IF clocks < WAKE THEN clocks + 1 ELSE WAKE
       /\ UNCHANGED <<inserted, kind, state, heard, out, queue, expect, got, app,
                      opcond, target, store>>
  ELSE /\ heard' = Append(heard, sd_mosi')
       /\ UNCHANGED <<inserted, kind, state, clocks, out, queue, expect, got, app,
                      opcond, target, store>>

Fall ==
  IF ~sd_cs /\ Len(heard) = BITS
  THEN TakeByte(ByteOf(heard)) /\ heard' = <<>> /\ UNCHANGED <<inserted, kind, clocks>>
  ELSE UNCHANGED medium

Deselect ==
  /\ heard' = <<>> /\ got' = <<>> /\ expect' = "command" /\ out' = "FF"
  /\ queue' = IF \E k \in 1 .. Len(queue) : queue[k] = "busy" THEN <<"busy">> ELSE <<>>
  /\ UNCHANGED <<inserted, kind, state, clocks, app, opcond, target, store>>

Select ==
  /\ PutOut(queue)
  /\ UNCHANGED <<inserted, kind, state, clocks, heard, expect, got, app, opcond,
                 target, store>>

CardSeesPins ==
  IF ~inserted THEN UNCHANGED medium
  ELSE IF sd_cs' # sd_cs THEN IF sd_cs' THEN Deselect ELSE Select
  ELSE IF sd_clk' # sd_clk THEN IF sd_clk' THEN Rise ELSE Fall
  ELSE UNCHANGED medium

-----------------------------------------------------------------------------
(* What the card does by itself.                                           *)
Written ==
  /\ inserted /\ Busy
  /\ queue' = Tail(queue)
  /\ UNCHANGED <<inserted, kind, state, clocks, heard, out, expect, got, app, opcond,
                 target, store, helper>>

Initialised ==
  /\ inserted /\ opcond /\ state = "idle"
  /\ state' = "ready"
  /\ UNCHANGED <<inserted, kind, clocks, heard, out, queue, expect, got, app, opcond,
                 target, store, helper>>

PulledOut ==
  /\ inserted
  /\ inserted' = FALSE
  /\ state' = "power" /\ clocks' = 0
  /\ heard' = <<>> /\ out' = "FF" /\ queue' = <<>>
  /\ expect' = "command" /\ got' = <<>> /\ app' = FALSE /\ opcond' = FALSE
  /\ UNCHANGED <<kind, target, store, helper>>

MediumStart ==
  /\ inserted \in BOOLEAN /\ kind \in Kinds
  /\ state = "power" /\ clocks = 0
  /\ heard = <<>> /\ out = "FF" /\ queue = <<>>
  /\ expect = "command" /\ got = <<>> /\ app = FALSE /\ opcond = FALSE
  /\ target = 0 /\ store = FirstStore

=============================================================================
