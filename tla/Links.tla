------------------------------- MODULE Links --------------------------------
(***************************************************************************)
(* The AI box's frames on their way to handle_frame: the parser of         *)
(* ai_link.c behind the link that feeds it.  Only one link may (the        *)
(* comment of net_link_rx_byte), and which one is chosen at the start: the *)
(* UART, byte by byte with noise among them, or the TCP port, which hands  *)
(* over whole buffers but whose client can hang up inside a frame and call *)
(* again.  Neither tells the parser, which nothing ever resets.            *)
(*                                                                         *)
(* A disturbance is a byte of noise or a frame that was cut.  Once the     *)
(* line has settled there is no new one, and the sender goes on.           *)
(***************************************************************************)
EXTENDS FrameParser, NetLink

CONSTANTS
  Frames,           \* what the AI box sends: type and payload
  NoiseBytes        \* bytes the UART can deliver by mistake

(* What the sender puts on the wire. *)
Covered(f) == <<Len(f.pay), f.type>> \o f.pay
Encode(f) == <<Sync0, Sync1>> \o Covered(f) \o <<Crc(Covered(f))>>
Wire == [f \in Frames |-> Encode(f)]

ASSUME FramesAssumption ==
  /\ Frames \subseteq [type : Bytes, pay : Seq(Bytes)]
  /\ \A f \in Frames :
       /\ Len(f.pay) <= PayloadMax
       /\ \A i \in 1 .. Len(Wire[f]) : Wire[f][i] \in Bytes
ASSUME NoiseAssumption == NoiseBytes \subseteq Bytes

(* No frame has, after its first byte, what a parser out of step could take *)
(* for the start of the next frame: the sync bytes in a row, or the first  *)
(* of them at the frame's end.                                             *)
NoStartInTail ==
  \A f \in Frames : \A i \in 2 .. Len(Wire[f]) :
    Wire[f][i] = Sync0 => i < Len(Wire[f]) /\ Wire[f][i + 1] # Sync1

VARIABLES
  link,             \* the link that is wired: "uart" or "net"
  cur, pos,         \* the frame being sent and how many of its bytes arrived
  settled,          \* no disturbance from now on
  since,            \* ghost: bytes received since the parser last waited
  lost              \* ghost: whole frames since a disturbance not handled

stream == <<cur, pos, settled, since, lost>>
vars == <<parser, net, link, stream>>

TypeOK ==
  /\ ParserTypeOK
  /\ NetTypeOK
  /\ link \in {"uart", "net"}
  /\ cur \in Frames \cup {NoFrame}
  /\ pos \in 0 .. PayloadMax + 4
  /\ pos > 0 <=> cur # NoFrame
  /\ settled \in BOOLEAN
  /\ since \in Seq(Bytes)
  /\ lost \in Nat

Init ==
  /\ ai_link_init
  /\ NetInit
  /\ link \in {"uart", "net"}
  /\ cur = NoFrame
  /\ pos = 0
  /\ settled = FALSE
  /\ since = <<>>
  /\ lost = 0

-----------------------------------------------------------------------------
(* One byte to the parser.  since starts with the byte that wakes it. *)
Receive(b) ==
  /\ ai_link_rx_byte(b)
  /\ since' = IF s_st' = "SYNC0" /\ handled' = NoFrame THEN <<>>
              ELSE IF s_st = "SYNC0" THEN <<b>> ELSE Append(since, b)

(* The next byte of the sender's stream. *)
SentByte ==
  \E f \in (IF pos = 0 THEN Frames ELSE {cur}) :
    LET whole == pos + 1 = Len(Wire[f])
    IN /\ Receive(Wire[f][pos + 1])
       /\ pos' = IF whole THEN 0 ELSE pos + 1
       /\ cur' = IF whole THEN NoFrame ELSE f
       /\ lost' = IF whole /\ handled' # f THEN lost + 1 ELSE lost

(* The rest of the frame that was being sent never comes. *)
Disturbed ==
  /\ cur' = NoFrame
  /\ pos' = 0
  /\ lost' = 0

-----------------------------------------------------------------------------
(* The UART's receive interrupt. *)
UartByte ==
  /\ link = "uart"
  /\ SentByte
  /\ UNCHANGED <<net, link, settled>>

UartNoise ==
  /\ link = "uart"
  /\ ~settled
  /\ \E b \in NoiseBytes : Receive(b)
  /\ Disturbed
  /\ UNCHANGED <<net, link, settled>>

(* A step of the poll in which no byte moves. *)
StillNet == link = "net" /\ UNCHANGED <<parser, link, stream>>

NetTick == StillNet /\ ClockTick
NetDial == StillNet /\ Dial
NetSend == StillNet /\ ClientSend
NetHangUp == StillNet /\ ~settled /\ HangUp
NetTop == StillNet /\ PollTop
NetPort == StillNet /\ PortStep
NetCheck == StillNet /\ PollCheck

NetFeed ==
  /\ link = "net"
  /\ FeedOne
  /\ SentByte
  /\ UNCHANGED <<link, settled>>

NetClosed ==
  /\ link = "net"
  /\ PortClosed
  /\ Disturbed
  /\ UNCHANGED <<parser, link, settled, since>>

Settle ==
  /\ ~settled
  /\ settled' = TRUE
  /\ UNCHANGED <<parser, net, link, cur, pos, since, lost>>

Next ==
  \/ UartByte \/ UartNoise \/ Settle
  \/ NetTick \/ NetDial \/ NetSend \/ NetHangUp
  \/ NetTop \/ NetPort \/ NetFeed \/ NetClosed \/ NetCheck

(* The main loop goes on; a settled AI box keeps calling and sending.      *)
Loop == NetTop \/ NetPort \/ NetFeed \/ NetClosed \/ NetCheck
Fairness ==
  /\ WF_vars(Loop)
  /\ WF_vars(settled /\ UartByte)
  /\ WF_vars(settled /\ NetDial)
  /\ WF_vars(settled /\ NetSend)

Spec == Init /\ [][Next]_vars /\ Fairness

-----------------------------------------------------------------------------
(* Whatever the line does, handle_frame sees only a frame that arrived in  *)
(* one piece: both sync bytes, a length in range, that many payload bytes  *)
(* and the checksum over all of them, and nothing in between.              *)
HandledIsIntact ==
  handled # NoFrame =>
    /\ since = Encode(handled)
    /\ Len(handled.pay) <= PayloadMax

(* The parser is as far in the frame that is being sent as the sender is,  *)
(* with the right contents.                                                *)
InStep ==
  \/ pos = 0 /\ s_st = "SYNC0"
  \/ pos = 1 /\ s_st = "SYNC1"
  \/ pos = 2 /\ s_st = "LEN"
  \/ pos = 3 /\ s_st = "TYPE" /\ s_len = Len(cur.pay)
  \/ /\ pos >= 4
     /\ s_st = IF pos = Len(cur.pay) + 4 THEN "CRC" ELSE "PAY"
     /\ s_len = Len(cur.pay)
     /\ s_type = cur.type
     /\ Len(s_pay) = pos - 4
     /\ \A j \in 1 .. pos - 4 : s_pay[j] = cur.pay[j]

(* No noise from now on, and no client that has already hung up. *)
Calm == settled /\ peer # "closed"

(* The link is a channel of frames: until the line is disturbed, and again *)
(* from when the parser is back in step, each frame sent is handled once   *)
(* and as it was sent, and nothing else is (ai_link_rx_byte).  That holds  *)
(* whatever bytes the frames carry.                                        *)
Channel ==
  INSTANCE FrameChannel
    WITH Anything <- [type : Bytes \cup {0}, pay : Seq(Bytes)] \cup {NoFrame},
         None <- NoFrame, sending <- cur, delivered <- handled, inStep <- InStep,
         calm <- Calm

IsFrameChannel == Channel!Spec

(* After a disturbance the parser can be anywhere in a frame that is not   *)
(* there, and no one resets it.  The frames it swallows before it is back  *)
(* in step are no more than fit into the longest frame it can be waiting   *)
(* for: type, payload and checksum, against frames of five bytes or more   *)
(* in which it cannot find a false start (NoStartInTail).                  *)
LossIsBounded == lost <= (PayloadMax + 6) \div 5

(* On a settled line frames reach handle_frame again and again, over the   *)
(* UART and over a connection that was cut and opened anew.                *)
Recovers == settled ~> handled # NoFrame
=============================================================================
