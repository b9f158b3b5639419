------------------------------- MODULE RingBuf -------------------------------
(***************************************************************************)
(* ringbuf_t of util.c between one writer and one reader, one of which may *)
(* be a receive or transmit interrupt: each call is offered load by load   *)
(* and store by store, in the order of the source, so that the other side  *)
(* can come between any two.  The buffer has no lock; that it needs none   *)
(* is what the refinement of ByteQueue says.                               *)
(***************************************************************************)
EXTENDS Integers, Sequences

CONSTANTS
  Bytes,            \* values of a byte
  None,             \* no byte
  Cap,              \* rb->cap
  SizeMod           \* size_t counts modulo SizeMod

ASSUME NoneAssumption == None \notin Bytes
ASSUME CapAssumption == Cap \in Nat \ {0} /\ SizeMod \in Nat /\ SizeMod > Cap

VARIABLES
  buf,              \* rb->buf, None where nothing was written yet
  head,             \* rb->head, the writer's
  tail,             \* rb->tail, the reader's
  w_pc,             \* where the writer's call is
  w_byte,           \* its argument b
  w_ok,             \* what ringbuf_push returned last
  r_pc,             \* where the reader's call is
  r_byte,           \* the byte it has copied
  r_out,            \* what ringbuf_pop delivered last, None for false
  r_count,          \* what ringbuf_count returned last
  r_seen,           \* the head its comparison has loaded
  ready             \* ghost: pops the last count still promises

ring == <<buf, head, tail>>
writer == <<w_pc, w_byte, w_ok>>
reader == <<r_pc, r_byte, r_out, r_count, r_seen>>
vars == <<ring, writer, reader, ready>>

Index == 0 .. Cap - 1
Byte == Bytes \cup {None}

TypeOK ==
  /\ buf \in [Index -> Byte]
  /\ head \in Index
  /\ tail \in Index
  /\ w_pc \in {"idle", "test", "store", "publish"}
  /\ w_byte \in Byte
  /\ w_ok \in BOOLEAN
  /\ r_pc \in {"idle", "test", "copy", "advance", "above", "below"}
  /\ r_byte \in Byte
  /\ r_out \in Byte
  /\ r_count \in 0 .. SizeMod - 1
  /\ r_seen \in Index
  /\ ready \in Nat

(* ringbuf_init *)
Init ==
  /\ buf = [i \in Index |-> None]
  /\ head = 0
  /\ tail = 0
  /\ w_pc = "idle"
  /\ w_byte = None
  /\ w_ok = FALSE
  /\ r_pc = "idle"
  /\ r_byte = None
  /\ r_out = None
  /\ r_count = 0
  /\ r_seen = 0
  /\ ready = 0

-----------------------------------------------------------------------------
(* A slip: the index runs to the capacity before it wraps. *)
SuccLate(i) == (i + 1) % (Cap + 1)

Succ(i) == (i + 1) % Cap

(* A slip: full is tested by the reader's next index. *)
FullLate == head = Succ(tail)

Full == Succ(head) = tail
Empty == head = tail

WriterOnly == UNCHANGED <<tail, reader, ready>>
ReaderOnly == UNCHANGED <<buf, head, writer>>

(* ringbuf_push(rb, b) *)
PushCall(b) ==
  /\ w_pc = "idle"
  /\ w_pc' = "test"
  /\ w_byte' = b
  /\ WriterOnly
  /\ UNCHANGED <<buf, head, w_ok>>

PushFull ==
  /\ w_pc = "test"
  /\ Full
  /\ w_pc' = "idle"
  /\ w_byte' = None
  /\ w_ok' = FALSE
  /\ WriterOnly
  /\ UNCHANGED <<buf, head>>

PushRoom ==
  /\ w_pc = "test"
  /\ ~Full
  /\ w_pc' = "store"
  /\ WriterOnly
  /\ UNCHANGED <<buf, head, w_byte, w_ok>>

PushStore ==
  /\ w_pc = "store"
  /\ buf' = [buf EXCEPT ![head] = w_byte]
  /\ w_pc' = "publish"
  /\ WriterOnly
  /\ UNCHANGED <<head, w_byte, w_ok>>

PushPublish ==
  /\ w_pc = "publish"
  /\ head' = Succ(head)
  /\ w_pc' = "idle"
  /\ w_byte' = None
  /\ w_ok' = TRUE
  /\ WriterOnly
  /\ UNCHANGED buf

-----------------------------------------------------------------------------
(* ringbuf_pop(rb, &b) *)
PopCall ==
  /\ r_pc = "idle"
  /\ r_pc' = "test"
  /\ ReaderOnly
  /\ UNCHANGED <<tail, r_byte, r_out, r_count, r_seen, ready>>

PopEmpty ==
  /\ r_pc = "test"
  /\ Empty
  /\ r_pc' = "idle"
  /\ r_out' = None
  /\ ReaderOnly
  /\ UNCHANGED <<tail, r_byte, r_count, r_seen, ready>>

PopSome ==
  /\ r_pc = "test"
  /\ ~Empty
  /\ r_pc' = "copy"
  /\ ReaderOnly
  /\ UNCHANGED <<tail, r_byte, r_out, r_count, r_seen, ready>>

PopCopy ==
  /\ r_pc = "copy"
  /\ r_byte' = buf[tail]
  /\ r_pc' = "advance"
  /\ ReaderOnly
  /\ UNCHANGED <<tail, r_out, r_count, r_seen, ready>>

PopAdvance ==
  /\ r_pc = "advance"
  /\ tail' = Succ(tail)
  /\ r_out' = r_byte
  /\ r_byte' = None
  /\ r_pc' = "idle"
  /\ ready' = IF ready = 0 THEN 0 ELSE ready - 1
  /\ ReaderOnly
  /\ UNCHANGED <<r_count, r_seen>>

(* ringbuf_count(rb), called by the reader: the comparison loads head, and *)
(* the subtraction uses that value or loads it again.                      *)
CountCall ==
  /\ r_pc = "idle"
  /\ r_pc' = IF head >= tail THEN "above" ELSE "below"
  /\ r_seen' = head
  /\ ReaderOnly
  /\ UNCHANGED <<tail, r_byte, r_out, r_count, ready>>

(* A slip: the free places are counted. *)
CountedFree(h) == IF r_pc = "above" THEN (Cap - (h - tail)) % SizeMod
                                    ELSE (tail - h) % SizeMod

Counted(h) == IF r_pc = "above" THEN (h - tail) % SizeMod
                                ELSE (Cap - tail + h) % SizeMod

(* A head that has wrapped since the comparison gives a count that promises *)
(* nothing.                                                                 *)
CountReturn ==
  /\ r_pc \in {"above", "below"}
  /\ \E h \in {r_seen, head} :
       /\ r_count' = Counted(h)
       /\ ready' = IF r_pc = "above" /\ h < tail THEN 0 ELSE Counted(h)
  /\ r_pc' = "idle"
  /\ ReaderOnly
  /\ UNCHANGED <<tail, r_byte, r_out, r_seen>>

-----------------------------------------------------------------------------
Push == PushFull \/ PushRoom \/ PushStore \/ PushPublish
Pop == PopEmpty \/ PopSome \/ PopCopy \/ PopAdvance

Next ==
  \/ \E b \in Bytes : PushCall(b)
  \/ Push
  \/ PopCall
  \/ Pop
  \/ CountCall
  \/ CountReturn

Spec == Init /\ [][Next]_vars

-----------------------------------------------------------------------------
(* The bytes waiting: from tail up to head, around the end of the buffer. *)
Waiting == IF head >= tail THEN head - tail ELSE Cap - tail + head
Place(i) == IF tail + i < Cap THEN tail + i ELSE tail + i - Cap
Queued == [i \in 1 .. Waiting |-> buf[Place(i - 1)]]

(* The buffer is a queue of Cap - 1 bytes: bytes come out in the order they *)
(* went in, none twice and none lost, a push is refused only when Cap - 1   *)
(* are waiting, and a pop fails only when none is; although neither side    *)
(* waits for the other (ringbuf_push, ringbuf_pop).                         *)
Queue == INSTANCE ByteQueue
           WITH Size <- Cap - 1, queue <- Queued, offer <- w_byte, accepted <- w_ok,
                asking <- r_pc \in {"test", "copy", "advance"}, taken <- r_out

IsByteQueue == Queue!Spec

(* What ringbuf_count returns may be popped without asking again, whatever *)
(* the writer does meanwhile; except where head wrapped inside the count.  *)
CountIsPoppable == ready <= Waiting
=============================================================================
