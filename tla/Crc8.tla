-------------------------------- MODULE Crc8 --------------------------------
(***************************************************************************)
(* crc8_maxim of util.c: polynomial 0x07, register zero, high bit first.   *)
(* Functions, and not operators, so that TLC evaluates each step once.     *)
(***************************************************************************)
EXTENDS Integers, Sequences

Octet == 0 .. 255

(* The exclusive or of two octets, from the high bit down. *)
XorOctet ==
  [x \in Octet, y \in Octet |->
    LET high[n \in 0 .. 8] ==
          IF n = 0 THEN 0
          ELSE high[n - 1] * 2 + ((x \div 2^(8 - n) + y \div 2^(8 - n)) % 2)
    IN high[8]]

(* One round of the inner loop; the cast to uint8_t drops the carry. *)
ShiftBit ==
  [crc \in Octet |-> IF crc >= 128 THEN XorOctet[(crc * 2) % 256, 7] ELSE crc * 2]

(* Its eight rounds. *)
AfterByte ==
  [crc \in Octet |->
    LET round[n \in 0 .. 8] == IF n = 0 THEN crc ELSE ShiftBit[round[n - 1]]
    IN round[8]]

crc8_maxim(data) ==
  LET reg[i \in 0 .. Len(data)] ==
        IF i = 0 THEN 0 ELSE AfterByte[XorOctet[reg[i - 1], data[i]]]
  IN reg[Len(data)]
=============================================================================
