------------------------------ MODULE MCSdCard ------------------------------
(***************************************************************************)
(* A card of two blocks of two bytes, and bytes of two bits.  What a block *)
(* holds looks like a token, an idle line or a busy one.                   *)
(***************************************************************************)
EXTENDS SdCard

MCFirstStore == [b \in Block |-> IF b = 0 THEN <<"FE", "FF">> ELSE <<"00", "FE">>]
MCBuffers == {<<"FE", "00">>}
MCNumberByte == [a \in Addresses |-> IF a = 0 THEN "00" ELSE IF a = 1 THEN "01" ELSE "02"]

=============================================================================
