---------------------------- MODULE FrameChannel -----------------------------
(***************************************************************************)
(* What a frame parser promises its sender: while the two are in step, the *)
(* receiver is given every frame once, whole, at its last byte, and given  *)
(* nothing else; and they stay in step until the line is disturbed, which  *)
(* a calm line is not.  Out of step nothing is promised.                   *)
(***************************************************************************)
CONSTANTS
  Frames,           \* what the sender sends
  Anything,         \* what a receiver out of step may be given
  None              \* no frame

VARIABLES
  sending,          \* the frame on the line, or None
  delivered,        \* what the last byte gave the receiver, or None
  inStep,           \* the parser is where the sender is
  calm              \* the line is not disturbed from now on

vars == <<sending, delivered, inStep, calm>>

Init ==
  /\ sending = None
  /\ delivered = None
  /\ inStep = TRUE
  /\ calm = FALSE

Receiver == delivered' \in Anything /\ inStep' \in BOOLEAN

(* A byte inside a frame, the first one included. *)
Byte(f) ==
  /\ sending \in {None, f}
  /\ sending' = f
  /\ Receiver
  /\ inStep => delivered' = None /\ inStep'
  /\ UNCHANGED calm

(* The last byte of a frame. *)
Last ==
  /\ sending # None
  /\ sending' = None
  /\ Receiver
  /\ inStep => delivered' = sending /\ inStep'
  /\ UNCHANGED calm

(* Noise, or a frame that was cut.  It may have been the last disturbance. *)
Disturb ==
  /\ ~calm
  /\ calm' \in BOOLEAN
  /\ sending' = None
  /\ Receiver

CalmDown ==
  /\ ~calm
  /\ calm' = TRUE
  /\ UNCHANGED <<sending, delivered, inStep>>

Next == (\E f \in Frames : Byte(f)) \/ Last \/ Disturb \/ CalmDown

Spec == Init /\ [][Next]_vars
=============================================================================
