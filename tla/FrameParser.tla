---------------------------- MODULE FrameParser -----------------------------
(***************************************************************************)
(* ai_link_rx_byte of ai_link.c: the state machine that finds the AI box's *)
(* frames, sync0 sync1 | len | type | payload | crc, in a stream of bytes. *)
(* One operator per case of its switch; rx_byte is one call.               *)
(*                                                                         *)
(* A variable that no later call reads before it is written again is put   *)
(* back to zero where the code leaves an old value in it.                  *)
(***************************************************************************)
EXTENDS Naturals, Sequences

CONSTANTS
  Bytes,            \* values of a byte that reach the parser
  Sync0, Sync1,     \* AI_SYNC0, AI_SYNC1
  PayloadMax,       \* PAYLOAD_MAX
  Crc(_),           \* crc8_maxim of a sequence of bytes
  NoFrame           \* no frame

ASSUME BytesAssumption == Bytes \subseteq Nat /\ {Sync0, Sync1} \subseteq Bytes
ASSUME PayloadAssumption == PayloadMax \in Nat \ {0}
ASSUME NoFrameAssumption ==
  NoFrame \notin [type : Bytes, pay : Seq(Bytes)]
(* As a length byte Sync0 is too large. *)
ASSUME SyncAssumption == Sync0 > PayloadMax /\ Sync0 # Sync1

VARIABLES
  s_st,             \* where the parser is in a frame
  s_len,            \* the frame's length byte
  s_type,           \* the frame's type byte
  s_pay,            \* the payload bytes stored so far; s_idx is their number
  s_crc_acc,        \* the checksum the frame must end with
  handled           \* the frame this call gave handle_frame, or NoFrame

parser == <<s_st, s_len, s_type, s_pay, s_crc_acc, handled>>

ParserTypeOK ==
  /\ s_st \in {"SYNC0", "SYNC1", "LEN", "TYPE", "PAY", "CRC"}
  /\ s_len \in Bytes \cup {0}
  /\ s_type \in Bytes \cup {0}
  /\ s_pay \in Seq(Bytes)
  /\ s_st \in {"SYNC0", "SYNC1", "LEN", "TYPE"} => s_pay = <<>>
  /\ Len(s_pay) <= PayloadMax
  /\ s_st = "PAY" => Len(s_pay) < s_len /\ s_len <= PayloadMax
  /\ s_st = "CRC" => Len(s_pay) = s_len
  /\ s_st = "CRC" => s_crc_acc = Crc(<<s_len, s_type>> \o s_pay)
  /\ handled \in [type : Bytes \cup {0}, pay : Seq(Bytes)] \cup {NoFrame}

(* Back to SYNC0, nothing of the frame kept. *)
Idle ==
  /\ s_st' = "SYNC0"
  /\ s_len' = 0
  /\ s_type' = 0
  /\ s_pay' = <<>>
  /\ s_crc_acc' = 0

ai_link_init ==
  /\ s_st = "SYNC0"
  /\ s_len = 0
  /\ s_type = 0
  /\ s_pay = <<>>
  /\ s_crc_acc = 0
  /\ handled = NoFrame

-----------------------------------------------------------------------------
rx_sync0(b) ==
  /\ s_st = "SYNC0"
  /\ s_st' = IF b = Sync0 THEN "SYNC1" ELSE "SYNC0"
  /\ handled' = NoFrame
  /\ UNCHANGED <<s_len, s_type, s_pay, s_crc_acc>>

(* Anything but Sync1, another Sync0 included, gives the frame up. *)
rx_sync1(b) ==
  /\ s_st = "SYNC1"
  /\ s_st' = IF b = Sync1 THEN "LEN" ELSE "SYNC0"
  /\ handled' = NoFrame
  /\ UNCHANGED <<s_len, s_type, s_pay, s_crc_acc>>

rx_len(b) ==
  /\ s_st = "LEN"
  /\ s_st' = "TYPE"
  /\ s_len' = b
  /\ s_crc_acc' = b
  /\ handled' = NoFrame
  /\ UNCHANGED <<s_type, s_pay>>

(* A slip: a first payload byte is waited for, even where there is none. *)
rx_type_waits(b) ==
  /\ s_st = "TYPE"
  /\ handled' = NoFrame
  /\ \/ /\ s_len > PayloadMax
        /\ Idle
     \/ /\ s_len <= PayloadMax
        /\ s_st' = "PAY"
        /\ s_type' = b
        /\ UNCHANGED <<s_len, s_pay, s_crc_acc>>

(* A length that is too large is only given up here, one byte after it. *)
rx_type(b) ==
  /\ s_st = "TYPE"
  /\ handled' = NoFrame
  /\ \/ /\ s_len = 0
        /\ s_st' = "CRC"
        /\ s_type' = b
        /\ s_crc_acc' = Crc(<<s_len, b>>)
        /\ UNCHANGED <<s_len, s_pay>>
     \/ /\ s_len > PayloadMax
        /\ Idle
     \/ /\ s_len \in 1 .. PayloadMax
        /\ s_st' = "PAY"
        /\ s_type' = b
        /\ UNCHANGED <<s_len, s_pay, s_crc_acc>>

(* A slip: one byte too many is taken for the payload. *)
rx_pay_late(b) ==
  /\ s_st = "PAY"
  /\ handled' = NoFrame
  /\ s_pay' = Append(s_pay, b)
  /\ \/ /\ Len(s_pay) < s_len
        /\ UNCHANGED <<s_st, s_crc_acc>>
     \/ /\ Len(s_pay) = s_len
        /\ s_st' = "CRC"
        /\ s_crc_acc' = Crc(<<s_len, s_type>> \o s_pay)
  /\ UNCHANGED <<s_len, s_type>>

rx_pay(b) ==
  /\ s_st = "PAY"
  /\ handled' = NoFrame
  /\ s_pay' = Append(s_pay, b)
  /\ \/ /\ Len(s_pay) + 1 < s_len
        /\ UNCHANGED <<s_st, s_crc_acc>>
     \/ /\ Len(s_pay) + 1 >= s_len
        /\ s_st' = "CRC"
        /\ s_crc_acc' = Crc(<<s_len, s_type>> \o s_pay')
  /\ UNCHANGED <<s_len, s_type>>

(* A slip: the frame is handled whatever it ends with. *)
rx_crc_blind(b) ==
  /\ s_st = "CRC"
  /\ handled' = [type |-> s_type, pay |-> s_pay]
  /\ Idle

(* Right or wrong, the checksum byte ends the frame. *)
rx_crc(b) ==
  /\ s_st = "CRC"
  /\ handled' = IF b = s_crc_acc THEN [type |-> s_type, pay |-> s_pay] ELSE NoFrame
  /\ Idle

ai_link_rx_byte(b) ==
  rx_sync0(b) \/ rx_sync1(b) \/ rx_len(b) \/ rx_type(b) \/ rx_pay(b) \/ rx_crc(b)
=============================================================================
