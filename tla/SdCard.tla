------------------------------- MODULE SdCard -------------------------------
(***************************************************************************)
(* The SD card driver (sd_card_cgpt.c) over the SPI helper, with a card in *)
(* the slot.  A call is sd_init, sd_read_block or sd_write_block; between  *)
(* calls the monitor may switch between the helper and bit-banging, and    *)
(* button S1 may reset the processor and the helper, but not the card, at  *)
(* any time.  todo holds the bytes a function is going to transfer before  *)
(* it looks at the replies; the delays are left out.                       *)
(***************************************************************************)
EXTENDS SdMedium

CONSTANTS
  INIT_BYTES,    \* bytes sd_init sends to wake the card, 10
  R1_LIMIT,      \* bytes sd_cmd waits for an answer, 8
  TOKEN_LIMIT,   \* bytes sd_read_block waits for the data token, 100000
  Buffers        \* what the caller writes

(* The driver asks a working card for its answer long enough, and sends it *)
(* clocks enough to wake up.                                               *)
ASSUME CardAssumption == /\ NCR < R1_LIMIT /\ NAC <= TOKEN_LIMIT
                         /\ WAKE <= INIT_BYTES * BITS /\ INIT_BYTES \in Nat
                         /\ R1_LIMIT \in Nat
                         /\ Buffers \subseteq Seq(Contents)
                         /\ \A b \in Buffers : Len(b) = BLOCK

VARIABLES
  sd_spi_use_helper,
  fn, addr, buf,             \* the call and its arguments
  pc,                        \* where it is; "none" when there is no call
  todo, replies,             \* bytes to transfer, replies to those that were
  moving, reply,             \* a transfer, and the bits of its reply so far
  cmd,                       \* [args and crc, and what to do after it]
  i,                         \* the loop counter
  result,                    \* of the last call
  before                     \* history: the blocks when the call began
driver == <<sd_spi_use_helper, fn, addr, buf, pc, todo, replies, moving, reply, cmd,
            i, result, before>>
vars == <<helper, medium, driver>>

Last(s) == s[Len(s)]

(* What sd_cmd sends, and what it returns to: next, once trail is sent.    *)
Frame(c, arg, crc) == <<c>> \o arg \o <<crc>>
NoArg == Repeat(4, "00")
NoCmd == [frame |-> <<>>, trail |-> <<>>, next |-> "none"]

-----------------------------------------------------------------------------
(* Transfers.                                                              *)

Transferred(b) ==
  /\ replies' = Append(replies, b)
  /\ todo' = Tail(todo)
  /\ moving' = "no" /\ reply' = <<>>

(* The helper: write the byte, wait while it is busy, read the reply.      *)
StartTransfer ==
  /\ sd_spi_use_helper /\ todo # <<>> /\ moving = "no"
  /\ WriteTx(Head(todo))
  /\ moving' = "helper"
  /\ UNCHANGED <<medium, sd_spi_use_helper, fn, addr, buf, pc, todo, replies, reply,
                 cmd, i, result, before>>

(* Definitions named Mut.. are mutants: a definition with a bug a careless *)
(* edit of the code could make, used only to see a property refuse it.     *)
MutHelperUnpolled == TRUE

HelperDone == ~busy

EndTransfer ==
  /\ moving = "helper" /\ HelperDone
  /\ Transferred(ByteOf(sd_rx))
  /\ UNCHANGED <<helper, medium, sd_spi_use_helper, fn, addr, buf, pc, cmd, i, result,
                 before>>

(* Bit-banging: set mosi, raise the clock, sample miso, lower the clock.   *)
BitHigh ==
  /\ ~sd_spi_use_helper /\ todo # <<>> /\ moving \in {"no", "low"}
  /\ WriteCmd(sd_cs, Bits(Head(todo))[Len(reply) + 1], TRUE)
  /\ CardSeesPins
  /\ moving' = "high"
  /\ UNCHANGED <<sd_spi_use_helper, fn, addr, buf, pc, todo, replies, reply, cmd, i,
                 result, before>>

BitLow ==
  /\ moving = "high"
  /\ WriteCmd(sd_cs, sd_mosi, FALSE)
  /\ CardSeesPins
  /\ LET bits == Append(reply, miso) IN
     IF Len(bits) = BITS THEN Transferred(ByteOf(bits))
     ELSE reply' = bits /\ moving' = "low" /\ UNCHANGED <<todo, replies>>
  /\ UNCHANGED <<sd_spi_use_helper, fn, addr, buf, pc, cmd, i, result, before>>

Transfer == StartTransfer \/ EndTransfer \/ BitHigh \/ BitLow

-----------------------------------------------------------------------------
(* Steps of the functions, taken when there is nothing left to transfer.   *)

At(label) == pc = label /\ todo = <<>> /\ moving = "no"
Go(label, bytes) ==
  pc' = label /\ todo' = bytes /\ replies' = <<>> /\ result' = "none"
Pins(cs) == WriteCmd(cs, sd_mosi, sd_clk) /\ CardSeesPins
KeepPins == UNCHANGED <<helper, medium>>
Kept == <<sd_spi_use_helper, fn, addr, buf, moving, reply, before>>

Return(value) ==
  /\ pc' = "none" /\ todo' = <<>> /\ replies' = <<>> /\ result' = value
  /\ UNCHANGED <<cmd, i>>

(* sd_cmd pulls cs low and waits until the card is not busy.               *)
Call(c, arg, crc, trail, next) ==
  /\ Pins(FALSE)
  /\ Go("cmd_busy", <<"FF", "FF">>)
  /\ cmd' = [frame |-> Frame(c, arg, crc), trail |-> trail, next |-> next]
  /\ UNCHANGED i

CmdBusy ==
  /\ At("cmd_busy")
  /\ IF Last(replies) # "FF"
     THEN Go("cmd_busy", <<"FF">>) /\ UNCHANGED i
     ELSE Go("cmd_r1", Append(cmd.frame, "FF")) /\ i' = 1
  /\ KeepPins /\ UNCHANGED <<Kept, cmd>>

(* Of the bytes a card may answer with, these have bit 7 clear.            *)
IsR1(b) == b \in {"00", "01", "04", "05", "08", "20"}

CmdR1 ==
  /\ At("cmd_r1")
  /\ IF ~IsR1(Last(replies)) /\ i < R1_LIMIT
     THEN Go("cmd_r1", <<"FF">>) /\ i' = i + 1 /\ UNCHANGED cmd
     ELSE /\ Go(cmd.next, cmd.trail) /\ UNCHANGED i
          /\ cmd' = [cmd EXCEPT !.frame = <<IF IsR1(Last(replies)) THEN Last(replies)
                                            ELSE "FF">>]
  /\ KeepPins /\ UNCHANGED Kept

(* What the last sd_cmd returned.                                          *)
r == cmd.frame[1]

-----------------------------------------------------------------------------
(* sd_init                                                                 *)

InitWake ==
  /\ At("init_wake")
  /\ Call("CMD0", NoArg, "95", <<"FF">>, "init_reset")
  /\ UNCHANGED Kept

(* The trailing byte of the other commands is also sent after CMD8.        *)
MutInitResetTrails ==
  /\ At("init_reset")
  /\ IF r # "01" THEN Return("-1") /\ KeepPins
     ELSE Call("CMD8", <<"00", "00", "01", "AA">>, "87", <<"FF">>, "init_check")
  /\ UNCHANGED Kept

InitReset ==
  /\ At("init_reset")
  /\ IF r # "01" THEN Return("-1") /\ KeepPins
     ELSE Call("CMD8", <<"00", "00", "01", "AA">>, "87", <<>>, "init_check")
  /\ UNCHANGED Kept

InitCheck ==
  /\ At("init_check")
  /\ IF r # "01" THEN Return("-3")
     ELSE Go("init_echo", Repeat(4, "FF")) /\ UNCHANGED <<cmd, i>>
  /\ KeepPins /\ UNCHANGED Kept

AppCommand == Call("CMD55", NoArg, "01", <<"FF">>, "init_app")

InitEcho ==
  /\ At("init_echo")
  /\ IF replies[3] # "01" \/ replies[4] # "AA" THEN Return("-2") /\ KeepPins
     ELSE AppCommand
  /\ UNCHANGED Kept

InitApp ==
  /\ At("init_app")
  /\ Call("CMD41", <<"40", "00", "00", "00">>, "01", <<"FF">>, "init_opcond")
  /\ UNCHANGED Kept

InitOpCond ==
  /\ At("init_opcond")
  /\ IF r # "00" THEN AppCommand
     ELSE Call("CMD16", <<"00", "00", "02", "00">>, "01", <<"FF">>, "init_length")
  /\ UNCHANGED Kept

InitLength ==
  /\ At("init_length")
  /\ IF r # "00" THEN Return("-4") /\ KeepPins ELSE Return("0") /\ Pins(TRUE)
  /\ UNCHANGED Kept

-----------------------------------------------------------------------------
(* sd_read_block                                                           *)

(* Two bytes are let pass before the token is looked for.                  *)
MutReadR1Skips ==
  /\ At("read_r1")
  /\ IF r # "00" THEN Return("-1") /\ Pins(TRUE)
     ELSE /\ Go("read_token", <<"FF", "FF">>) /\ i' = 1
          /\ KeepPins /\ UNCHANGED cmd
  /\ UNCHANGED Kept

ReadR1 ==
  /\ At("read_r1")
  /\ IF r # "00" THEN Return("-1") /\ Pins(TRUE)
     ELSE /\ Go("read_token", <<"FF">>) /\ i' = 1
          /\ KeepPins /\ UNCHANGED cmd
  /\ UNCHANGED Kept

ReadToken ==
  /\ At("read_token")
  /\ IF Last(replies) = "FE"
     THEN /\ Go("read_data", Repeat(BLOCK + 2, "FF"))
          /\ KeepPins /\ UNCHANGED <<cmd, i>>
     ELSE IF i < TOKEN_LIMIT
     THEN /\ Go("read_token", <<"FF">>) /\ i' = i + 1
          /\ KeepPins /\ UNCHANGED cmd
     ELSE Return("-2") /\ Pins(TRUE)
  /\ UNCHANGED Kept

(* The block is read, its CRC discarded; one more byte goes by deselected. *)
ReadData ==
  /\ At("read_data")
  /\ buf' = SubSeq(replies, 1, BLOCK)
  /\ Pins(TRUE)
  /\ Go("end", <<"FF">>)
  /\ UNCHANGED <<sd_spi_use_helper, fn, addr, moving, reply, before, cmd, i>>

End == At("end") /\ Return("0") /\ KeepPins /\ UNCHANGED Kept

-----------------------------------------------------------------------------
(* sd_write_block                                                          *)

WriteR1 ==
  /\ At("write_r1")
  /\ IF r # "00" THEN Return("-1") /\ Pins(TRUE)
     ELSE /\ Go("write_resp", <<"FF", "FE">> \o buf \o <<"FF", "FF", "FF">>)
          /\ KeepPins /\ UNCHANGED <<cmd, i>>
  /\ UNCHANGED Kept

WriteResp ==
  /\ At("write_resp")
  /\ IF Last(replies) # "05" THEN Return("-2") /\ Pins(TRUE)
     ELSE Go("write_busy", <<"FF">>) /\ KeepPins /\ UNCHANGED <<cmd, i>>
  /\ UNCHANGED Kept

(* The test of the busy loop the wrong way round.                          *)
MutWriteBusyInverted ==
  /\ At("write_busy")
  /\ IF Last(replies) # "00" THEN Go("write_busy", <<"FF">>) /\ KeepPins
     ELSE Go("end", <<"FF">>) /\ Pins(TRUE)
  /\ UNCHANGED <<Kept, cmd, i>>

WriteBusy ==
  /\ At("write_busy")
  /\ IF Last(replies) = "00" THEN Go("write_busy", <<"FF">>) /\ KeepPins
     ELSE Go("end", <<"FF">>) /\ Pins(TRUE)
  /\ UNCHANGED <<Kept, cmd, i>>

Control ==
  \/ CmdBusy \/ CmdR1
  \/ InitWake \/ InitReset \/ InitCheck \/ InitEcho \/ InitApp \/ InitOpCond
  \/ InitLength
  \/ ReadR1 \/ ReadToken \/ ReadData \/ End
  \/ WriteR1 \/ WriteResp \/ WriteBusy

-----------------------------------------------------------------------------
(* The callers in the monitor.                                             *)

Enter(f, a, b) ==
  /\ pc = "none"
  /\ fn' = f /\ addr' = a /\ buf' = b /\ before' = store
  /\ UNCHANGED <<sd_spi_use_helper, moving, reply>>

(* The pins are set with cs high first, and the card is sent clocks.       *)
SdInit ==
  /\ Enter("sd_init", 0, buf)
  /\ WriteCmd(TRUE, Zero, FALSE) /\ CardSeesPins
  /\ Go("init_wake", Repeat(INIT_BYTES, "FF"))
  /\ UNCHANGED <<cmd, i>>

AddressArg(a) == <<"00", "00", "00", NumberByte[a]>>

SdReadBlock ==
  \E a \in Addresses :
    /\ Enter("sd_read_block", a, <<>>)
    /\ Call("CMD17", AddressArg(a), "01", <<"FF">>, "read_r1")

SdWriteBlock ==
  \E a \in Addresses, b \in Buffers :
    /\ Enter("sd_write_block", a, b)
    /\ Call("CMD24", AddressArg(a), "01", <<"FF">>, "write_r1")

(* The command sx.                                                         *)
ToggleSpi ==
  /\ pc = "none"
  /\ sd_spi_use_helper' = ~sd_spi_use_helper
  /\ UNCHANGED <<helper, medium, fn, addr, buf, pc, todo, replies, moving, reply, cmd,
                 i, result, before>>

Edge ==
  /\ HelperEdge(miso)
  /\ CardSeesPins
  /\ UNCHANGED driver

(* Software starts anew; sd_spi_use_helper, which has an initial value, is *)
(* not loaded again.                                                       *)
Reset ==
  /\ HelperReset /\ CardSeesPins
  /\ pc' = "none" /\ todo' = <<>> /\ replies' = <<>> /\ result' = "reset"
  /\ moving' = "no" /\ reply' = <<>>
  /\ fn' = "none" /\ addr' = 0 /\ buf' = <<>> /\ cmd' = NoCmd /\ i' = 0
  /\ UNCHANGED <<sd_spi_use_helper, before>>

Software == Transfer \/ Control
CardItself == Written \/ Initialised
Environment ==
  \/ SdInit \/ SdReadBlock \/ SdWriteBlock \/ ToggleSpi \/ Reset
  \/ PulledOut /\ UNCHANGED driver

Init ==
  /\ HelperStart /\ MediumStart
  /\ sd_spi_use_helper = TRUE
  /\ fn = "none" /\ addr = 0 /\ buf = <<>>
  /\ pc = "none" /\ todo = <<>> /\ replies = <<>> /\ moving = "no" /\ reply = <<>>
  /\ cmd = NoCmd /\ i = 0 /\ result = "none" /\ before = FirstStore

Next == Software \/ Edge \/ (CardItself /\ UNCHANGED driver) \/ Environment

(* Software runs, the helper is clocked, and the card comes to the end of  *)
(* what it does.                                                           *)
Fairness ==
  /\ WF_vars(Software) /\ WF_vars(Edge)
  /\ WF_vars(Written /\ UNCHANGED driver)
  /\ WF_vars(Initialised /\ UNCHANGED driver)

Spec == Init /\ [][Next]_vars /\ Fairness

-----------------------------------------------------------------------------
(* Properties.                                                             *)

Returned(f, value) == fn = f /\ pc = "none" /\ result = value

(* A read that returns 0 has read the block it was asked for, whole; a     *)
(* write that returns 0 has written its block and no other; and a call     *)
(* that fails, or any call but a write, has written nothing.  So of a card *)
(* that is addressed by block and that stayed in; one that is pulled out   *)
(* while it sends a block goes unnoticed, for the CRC is discarded.        *)
BlockWhole ==
  (pc = "none" /\ inserted /\ kind = "hc") =>
    /\ Returned("sd_read_block", "0") => buf = store[addr]
    /\ Returned("sd_write_block", "0") => store = [before EXCEPT ![addr] = buf]
    /\ ~Returned("sd_write_block", "0") /\ result # "reset" => store = before

(* Whatever the mode, and however it was switched, the driver and a card   *)
(* that is selected agree where a byte begins; software finds the helper   *)
(* idle when it uses its pins, so no write is dropped; and a call that     *)
(* succeeds lets go of the card.                                           *)
InStep ==
  /\ moving = "no" => heard = <<>> /\ ~sd_clk /\ ~busy
  /\ inserted => \A k \in 1 .. Len(replies) : replies[k] # "??"
  /\ \A k \in 1 .. Len(got) : got[k] # "??"
  /\ pc = "none" /\ result = "0" => sd_cs

(* sd_init succeeds with a card it supports, whatever state a reset in the *)
(* middle of any call, or a former failure, left the card in, and the card *)
(* is then ready; it refuses the cards it does not support.                *)
InitTruthful ==
  (fn = "sd_init" /\ pc = "none" /\ inserted) =>
    /\ result = "0" <=> kind # "old"
    /\ result = "0" => state = "ready"

(* Every call returns, unless the card is pulled out of sd_init, whose     *)
(* loop over ACMD41 has no limit.                                          *)
CallReturns ==
  pc # "none" ~> (pc = "none" \/ (fn = "sd_init" /\ ~inserted))

=============================================================================
