------------------------------ MODULE ByteQueue ------------------------------
(***************************************************************************)
(* What a byte buffer between one writer and one reader promises: a queue  *)
(* of at most Size bytes.  A call is an offer or a request; it takes       *)
(* effect at one moment between its beginning and its return.              *)
(***************************************************************************)
EXTENDS Naturals, Sequences

CONSTANTS
  Bytes,            \* values of a byte
  Size,             \* bytes the queue holds at most
  None              \* no byte

VARIABLES
  queue,            \* the bytes waiting, oldest first
  offer,            \* the byte a call of push is offering, or None
  accepted,         \* what the last push returned
  asking,           \* a call of pop is under way
  taken             \* what the last pop returned: a byte, or None if it failed

vars == <<queue, offer, accepted, asking, taken>>

Init ==
  /\ queue = <<>>
  /\ offer = None
  /\ accepted = FALSE
  /\ asking = FALSE
  /\ taken = None

Offer(b) ==
  /\ offer = None
  /\ offer' = b
  /\ UNCHANGED <<queue, accepted, asking, taken>>

Accept ==
  /\ offer # None
  /\ Len(queue) < Size
  /\ queue' = Append(queue, offer)
  /\ offer' = None
  /\ accepted' = TRUE
  /\ UNCHANGED <<asking, taken>>

(* A byte is refused only when the queue is full at that moment. *)
Refuse ==
  /\ offer # None
  /\ Len(queue) = Size
  /\ offer' = None
  /\ accepted' = FALSE
  /\ UNCHANGED <<queue, asking, taken>>

Ask ==
  /\ ~asking
  /\ asking' = TRUE
  /\ UNCHANGED <<queue, offer, accepted, taken>>

Take ==
  /\ asking
  /\ queue # <<>>
  /\ taken' = Head(queue)
  /\ queue' = Tail(queue)
  /\ asking' = FALSE
  /\ UNCHANGED <<offer, accepted>>

(* A pop fails only when the queue is empty at that moment. *)
FindEmpty ==
  /\ asking
  /\ queue = <<>>
  /\ taken' = None
  /\ asking' = FALSE
  /\ UNCHANGED <<queue, offer, accepted>>

Next ==
  \/ \E b \in Bytes : Offer(b)
  \/ Accept
  \/ Refuse
  \/ Ask
  \/ Take
  \/ FindEmpty

Spec == Init /\ [][Next]_vars
=============================================================================
