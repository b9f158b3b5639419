------------------------------ MODULE NetLink -------------------------------
(***************************************************************************)
(* net_link.c over the TCP port of net_port_fsp_example.c, one poll of the *)
(* main loop at a time: the loop reads the time, the port accepts, or      *)
(* receives what waits and stamps it, or finds the connection closed, and  *)
(* the link compares the stamp with the time the loop had read before.     *)
(* The bytes received are fed to the parser one by one; what they are is   *)
(* for the module that composes the two.                                   *)
(*                                                                         *)
(* The socket library and the client are external.  accept on the          *)
(* listening socket is taken to return at once when nobody calls.          *)
(***************************************************************************)
EXTENDS Integers

CONSTANTS
  NetTimeout,       \* APP_CFG_AI_TIMEOUT_MS * 5
  ClockMod,         \* uint32_t counts modulo ClockMod
  MaxLag,           \* bound: ticks from one reading of the time to the next
  WaitingMax        \* bound: bytes that wait in the socket; at most sizeof(buf)

ASSUME NetAssumption ==
  /\ NetTimeout \in Nat /\ MaxLag \in Nat /\ WaitingMax \in Nat
  /\ ClockMod \in Nat /\ ClockMod > NetTimeout + 2 * MaxLag + 1

VARIABLES
  clock,            \* the hardware time, time_ms_get()
  lag,              \* ticks since the loop read it
  n_pc,             \* where the poll is
  now_ms,           \* net_link_poll's argument
  s_connected,      \* net_link.c
  s_last_rx_ms,     \* net_link.c
  s_client,         \* net_port_fsp_example.c: a client was accepted
  chunk,            \* bytes of the receive buffer still to feed
  peer,             \* the client: not there, there, or gone with its end closed
  waiting,          \* bytes it has sent that were not received
  quiet             \* ghost: ticks since the last byte was received

net == <<clock, lag, n_pc, now_ms, s_connected, s_last_rx_ms, s_client, chunk,
         peer, waiting, quiet>>

Clock == 0 .. ClockMod - 1
QuietCap == NetTimeout + 2 * MaxLag + 1

NetTypeOK ==
  /\ clock \in Clock /\ now_ms \in Clock /\ s_last_rx_ms \in Clock
  /\ lag \in 0 .. MaxLag
  /\ n_pc \in {"top", "port", "feed", "check"}
  /\ s_connected \in BOOLEAN /\ s_client \in BOOLEAN
  /\ chunk \in 0 .. WaitingMax
  /\ n_pc = "feed" => chunk > 0
  /\ peer \in {"away", "open", "closed"}
  /\ waiting \in 0 .. WaitingMax
  /\ quiet \in 0 .. QuietCap

(* net_link_init and net_port_init; the clock has been running. *)
NetInit ==
  /\ clock = 1
  /\ lag = 0
  /\ n_pc = "top"
  /\ now_ms = 0
  /\ s_connected = FALSE
  /\ s_last_rx_ms = 0
  /\ s_client = FALSE
  /\ chunk = 0
  /\ peer = "away"
  /\ waiting = 0
  /\ quiet = QuietCap

-----------------------------------------------------------------------------
(* The timer.  Time spent feeding bytes is charged to the steps around it.  *)
ClockTick ==
  /\ lag < MaxLag
  /\ n_pc # "feed"
  /\ clock' = (clock + 1) % ClockMod
  /\ lag' = lag + 1
  /\ quiet' = IF quiet < QuietCap THEN quiet + 1 ELSE QuietCap
  /\ UNCHANGED <<n_pc, now_ms, s_connected, s_last_rx_ms, s_client, chunk, peer,
                 waiting>>

(* The client connects, sends, and closes its end. *)
Dial ==
  /\ peer = "away"
  /\ peer' = "open"
  /\ UNCHANGED <<clock, lag, n_pc, now_ms, s_connected, s_last_rx_ms, s_client,
                 chunk, waiting, quiet>>

ClientSend ==
  /\ peer = "open"
  /\ waiting < WaitingMax
  /\ waiting' = waiting + 1
  /\ UNCHANGED <<clock, lag, n_pc, now_ms, s_connected, s_last_rx_ms, s_client,
                 chunk, peer, quiet>>

HangUp ==
  /\ peer = "open"
  /\ peer' = "closed"
  /\ UNCHANGED <<clock, lag, n_pc, now_ms, s_connected, s_last_rx_ms, s_client,
                 chunk, waiting, quiet>>

-----------------------------------------------------------------------------
(* app_main reads the time for this turn and calls net_link_poll with it. *)
PollTop ==
  /\ n_pc = "top"
  /\ n_pc' = "port"
  /\ now_ms' = clock
  /\ lag' = 0
  /\ UNCHANGED <<clock, s_connected, s_last_rx_ms, s_client, chunk, peer, waiting,
                 quiet>>

(* net_port_poll without a client: accept one, and receive in the next poll. *)
PortAccept ==
  /\ n_pc = "port"
  /\ ~s_client
  /\ s_client' = (peer # "away")
  /\ n_pc' = "check"
  /\ UNCHANGED <<clock, lag, now_ms, s_connected, s_last_rx_ms, chunk, peer, waiting,
                 quiet>>

(* recv times out. *)
PortTimeout ==
  /\ n_pc = "port"
  /\ s_client
  /\ waiting = 0
  /\ peer # "closed"
  /\ n_pc' = "check"
  /\ UNCHANGED <<clock, lag, now_ms, s_connected, s_last_rx_ms, s_client, chunk, peer,
                 waiting, quiet>>

(* A slip: the failed socket is kept, and fails again in every poll. *)
PortClosedKept ==
  /\ n_pc = "port"
  /\ s_client
  /\ waiting = 0
  /\ peer = "closed"
  /\ n_pc' = "check"
  /\ UNCHANGED <<clock, lag, now_ms, s_connected, s_last_rx_ms, s_client, chunk, peer,
                 waiting, quiet>>

(* recv fails: the socket is closed; s_connected is not told. *)
PortClosed ==
  /\ n_pc = "port"
  /\ s_client
  /\ waiting = 0
  /\ peer = "closed"
  /\ s_client' = FALSE
  /\ peer' = "away"
  /\ n_pc' = "check"
  /\ UNCHANGED <<clock, lag, now_ms, s_connected, s_last_rx_ms, chunk, waiting, quiet>>

(* A slip: the stamp is the time the loop read, not the time of the bytes. *)
StampOfTurn == s_last_rx_ms' = now_ms

(* The time of the bytes, which can be later than the loop's. *)
StampOfBytes == s_last_rx_ms' = clock

(* recv delivers: net_link_rx_buffer stamps, then starts to feed. *)
PortReceive ==
  /\ n_pc = "port"
  /\ s_client
  /\ waiting > 0
  /\ StampOfBytes
  /\ s_connected' = TRUE
  /\ chunk' = waiting
  /\ waiting' = 0
  /\ quiet' = 0
  /\ n_pc' = "feed"
  /\ UNCHANGED <<clock, lag, now_ms, s_client, peer>>

(* One round of net_link_rx_buffer's loop, with the parser's step beside it. *)
FeedOne ==
  /\ n_pc = "feed"
  /\ chunk' = chunk - 1
  /\ n_pc' = IF chunk = 1 THEN "check" ELSE "feed"
  /\ UNCHANGED <<clock, lag, now_ms, s_connected, s_last_rx_ms, s_client, peer, waiting,
                 quiet>>

(* A slip: the test asks for the client's silence to have lasted longer. *)
TimedOutLate ==
  /\ s_last_rx_ms # 0
  /\ (now_ms - s_last_rx_ms) % ClockMod > NetTimeout + MaxLag + 1

(* Unsigned: a stamp later than now_ms is a very long time ago. *)
TimedOut ==
  /\ s_last_rx_ms # 0
  /\ (now_ms - s_last_rx_ms) % ClockMod > NetTimeout

(* The rest of net_link_poll; then the rest of the loop's turn. *)
PollCheck ==
  /\ n_pc = "check"
  /\ s_connected' = (s_connected /\ ~TimedOut)
  /\ n_pc' = "top"
  /\ UNCHANGED <<clock, lag, now_ms, s_last_rx_ms, s_client, chunk, peer, waiting, quiet>>

PortStep == PortAccept \/ PortTimeout \/ PortReceive

-----------------------------------------------------------------------------
(* While the link reports a client and the stamp is not the reserved 0, a  *)
(* byte has been received within the timeout and two turns of the loop.    *)
MarkedIsRecent ==
  s_connected /\ s_last_rx_ms # 0 => quiet <= NetTimeout + 2 * MaxLag

(* The link stops reporting a client only after more than the timeout      *)
(* without a byte, or in the turn that received one after reading the time.*)
StampAfterNow == (now_ms - s_last_rx_ms) % ClockMod >= ClockMod - MaxLag

LostOnlyIfSilent ==
  [][s_connected /\ ~s_connected' => quiet > NetTimeout \/ StampAfterNow]_net
=============================================================================
