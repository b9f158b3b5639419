---------------------------- MODULE RingBufProofs ----------------------------
(***************************************************************************)
(* Theorems about RingBuf, for every capacity and set of bytes: types, the *)
(* meaning of a count, and that the buffer implements ByteQueue.           *)
(***************************************************************************)
EXTENDS RingBuf, SequenceTheorems, TLAPS

(* What a push has established at each place: there is room until it is    *)
(* published, and the place at head holds its byte.                        *)
WriterInv ==
  /\ w_pc = "idle" => w_byte = None
  /\ w_pc # "idle" => w_byte \in Bytes
  /\ w_pc \in {"store", "publish"} => ~Full
  /\ w_pc = "publish" => buf[head] = w_byte

(* What a pop has established: there is a byte until tail moves past it. *)
ReaderInv ==
  /\ r_pc \in {"copy", "advance"} => ~Empty
  /\ r_pc = "advance" => r_byte = buf[tail]

(* A head loaded earlier is at most as far ahead of tail as head is now. *)
CountInv ==
  /\ ready <= Waiting
  /\ r_pc = "above" => tail <= r_seen /\ r_seen - tail <= Waiting
  /\ r_pc = "below" => r_seen <= head /\ head < tail

(* The inductive invariant. *)
IInv == TypeOK /\ WriterInv /\ ReaderInv /\ CountInv

-----------------------------------------------------------------------------
(* The remainder of an index, of its successor and of a count. *)
LEMMA SuccIs ==
  ASSUME NEW i \in Index
  PROVE  /\ Succ(i) \in Index
         /\ Succ(i) = IF i + 1 = Cap THEN 0 ELSE i + 1
<1>1. i + 1 \in 1 .. Cap
  BY CapAssumption DEF Index
<1>2. CASE i + 1 = Cap
  <2>1. Cap % Cap = 0
    BY CapAssumption
  <2> QED
    BY <1>2, <2>1, CapAssumption DEF Succ, Index
<1>3. CASE i + 1 < Cap
  <2>1. (i + 1) % Cap = i + 1
    BY <1>1, <1>3, CapAssumption
  <2> QED
    BY <1>3, <2>1, CapAssumption DEF Succ, Index
<1> QED
  BY <1>1, <1>2, <1>3, CapAssumption

LEMMA SizeRange ==
  ASSUME NEW n \in Int
  PROVE  /\ n % SizeMod \in 0 .. SizeMod - 1
         /\ n \in 0 .. Cap => n % SizeMod = n
BY CapAssumption

(* How many bytes wait, when the buffer is full and when it is empty. *)
LEMMA WaitingIs ==
  ASSUME head \in Index, tail \in Index
  PROVE  /\ Waiting \in 0 .. Cap - 1
         /\ Full <=> Waiting = Cap - 1
         /\ Empty <=> Waiting = 0
<1>1. Waiting \in 0 .. Cap - 1
  BY CapAssumption DEF Waiting, Index
<1>2. Full <=> Waiting = Cap - 1
  BY SuccIs, CapAssumption DEF Full, Waiting, Index
<1>3. Empty <=> Waiting = 0
  BY CapAssumption DEF Empty, Waiting, Index
<1> QED
  BY <1>1, <1>2, <1>3

-----------------------------------------------------------------------------
LEMMA InitInv == Init => IInv
<1> SUFFICES ASSUME Init PROVE IInv
  OBVIOUS
<1>1. 0 \in Index /\ 0 \in 0 .. SizeMod - 1 /\ None \in Byte
  BY CapAssumption DEF Index, Byte
<1>2. TypeOK
  BY <1>1 DEF Init, TypeOK
<1> QED
  BY <1>2, CapAssumption DEF Init, IInv, WriterInv, ReaderInv, CountInv, Waiting

(* The steps of a push. *)
LEMMA PushInv ==
  ASSUME IInv, Push \/ \E b \in Bytes : PushCall(b)
  PROVE  IInv'
<1> USE DEF IInv
<1>1. head \in Index /\ tail \in Index /\ r_seen \in Index
  BY DEF TypeOK
<1>2. ASSUME NEW b \in Bytes, PushCall(b) PROVE IInv'
  BY <1>2, NoneAssumption
  DEF PushCall, WriterOnly, reader, TypeOK, WriterInv, ReaderInv, CountInv, Full, Empty,
      Waiting, Byte
<1>3. CASE PushFull
  BY <1>3 DEF PushFull, WriterOnly, reader, TypeOK, WriterInv, ReaderInv, CountInv, Full,
      Empty, Waiting, Byte
<1>4. CASE PushRoom
  BY <1>4 DEF PushRoom, WriterOnly, reader, TypeOK, WriterInv, ReaderInv, CountInv, Full,
      Empty, Waiting
<1>5. CASE PushStore
  <2>1. buf' \in [Index -> Byte] /\ buf'[head] = w_byte
        /\ \A i \in Index : i # head => buf'[i] = buf[i]
    BY <1>1, <1>5 DEF PushStore, TypeOK
  <2>2. UNCHANGED <<head, tail, w_byte, w_ok, reader, ready>> /\ w_pc = "store"
        /\ w_pc' = "publish"
    BY <1>5 DEF PushStore, WriterOnly
  <2>3. TypeOK'
    BY <2>1, <2>2 DEF TypeOK, reader
  <2>4. WriterInv'
    BY <2>1, <2>2 DEF WriterInv, Full
  <2>5. ReaderInv'
    BY <1>1, <2>1, <2>2 DEF ReaderInv, Empty, reader
  <2>6. CountInv'
    BY <2>2 DEF CountInv, Waiting, reader
  <2> QED
    BY <2>3, <2>4, <2>5, <2>6
<1>6. CASE PushPublish
  <2>1. head' = Succ(head) /\ head' \in Index /\ w_byte' = None /\ w_pc' = "idle"
        /\ w_ok' = TRUE /\ UNCHANGED <<buf, tail, reader, ready>> /\ ~Full
    BY <1>1, <1>6, SuccIs DEF PushPublish, WriterOnly, WriterInv
  <2>2. TypeOK' /\ WriterInv'
    BY <2>1 DEF TypeOK, WriterInv, reader, Byte
  <2>3. head' # tail /\ Waiting' = Waiting + 1
    BY <1>1, <2>1, SuccIs, CapAssumption DEF Full, Waiting, Index
  <2>4. ReaderInv'
    BY <2>1, <2>3 DEF ReaderInv, Empty, reader
  <2>5. CountInv'
    <3>1. ready' <= Waiting'
      BY <1>1, <2>1, <2>3, WaitingIs DEF CountInv, TypeOK
    <3>2. r_pc' = "above" => tail' <= r_seen' /\ r_seen' - tail' <= Waiting'
      BY <1>1, <2>1, <2>3, WaitingIs, CapAssumption DEF CountInv, reader, Index
    <3>3. r_pc' = "below" => r_seen' <= head' /\ head' < tail'
      BY <1>1, <2>1, SuccIs, CapAssumption DEF CountInv, reader, Full, Index
    <3> QED
      BY <3>1, <3>2, <3>3 DEF CountInv
  <2> QED
    BY <2>2, <2>4, <2>5
<1> QED
  BY <1>2, <1>3, <1>4, <1>5, <1>6 DEF Push

(* The steps of a pop. *)
LEMMA PopInv ==
  ASSUME IInv, Pop \/ PopCall
  PROVE  IInv'
<1> USE DEF IInv
<1>1. head \in Index /\ tail \in Index /\ r_seen \in Index
  BY DEF TypeOK
<1>2. CASE PopCall
  BY <1>2 DEF PopCall, ReaderOnly, writer, TypeOK, WriterInv, ReaderInv, CountInv, Full,
      Empty, Waiting
<1>3. CASE PopEmpty
  BY <1>3 DEF PopEmpty, ReaderOnly, writer, TypeOK, WriterInv, ReaderInv, CountInv, Full,
      Empty, Waiting, Byte
<1>4. CASE PopSome
  BY <1>4 DEF PopSome, ReaderOnly, writer, TypeOK, WriterInv, ReaderInv, CountInv, Full,
      Empty, Waiting
<1>5. CASE PopCopy
  BY <1>1, <1>5 DEF PopCopy, ReaderOnly, writer, TypeOK, WriterInv, ReaderInv, CountInv,
      Full, Empty, Waiting
<1>6. CASE PopAdvance
  <2>1. tail' = Succ(tail) /\ tail' \in Index /\ r_out' = r_byte /\ r_byte' = None
        /\ r_pc' = "idle" /\ ready' = (IF ready = 0 THEN 0 ELSE ready - 1)
        /\ UNCHANGED <<buf, head, writer, r_count, r_seen>> /\ ~Empty
    BY <1>1, <1>6, SuccIs DEF PopAdvance, ReaderOnly, ReaderInv
  <2>2. TypeOK'
    BY <2>1 DEF TypeOK, writer, Byte
  <2>3. Waiting' = Waiting - 1
    BY <1>1, <2>1, SuccIs, CapAssumption DEF Empty, Waiting, Index
  <2>4. ~Full => ~Full'
    <3>1. Waiting' \in 0 .. Cap - 1 /\ (Full' <=> Waiting' = Cap - 1)
      BY <1>1, <2>1, <2>2, SuccIs, CapAssumption DEF Full, Waiting, Index
    <3> QED
      BY <1>1, <2>3, <3>1, WaitingIs, CapAssumption
  <2>5. WriterInv'
    BY <2>1, <2>4 DEF WriterInv, writer
  <2>6. ReaderInv'
    BY <2>1 DEF ReaderInv
  <2>7. CountInv'
    BY <1>1, <2>1, <2>3, WaitingIs, CapAssumption DEF CountInv, TypeOK
  <2> QED
    BY <2>2, <2>5, <2>6, <2>7
<1> QED
  BY <1>2, <1>3, <1>4, <1>5, <1>6 DEF Pop

(* The steps of a count. *)
LEMMA CountingInv ==
  ASSUME IInv, CountCall \/ CountReturn
  PROVE  IInv'
<1> USE DEF IInv
<1>1. head \in Index /\ tail \in Index /\ r_seen \in Index
  BY DEF TypeOK
<1>2. CASE CountCall
  <2>1. Waiting = IF head >= tail THEN head - tail ELSE Cap - tail + head
    BY DEF Waiting
  <2>2. CountInv'
    BY <1>1, <1>2, <2>1, CapAssumption
    DEF CountCall, ReaderOnly, writer, CountInv, Waiting, Index
  <2> QED
    BY <1>1, <1>2, <2>2
    DEF CountCall, ReaderOnly, writer, TypeOK, WriterInv, ReaderInv, Full
<1>3. CASE CountReturn
  <2>1. UNCHANGED <<buf, head, tail, writer, r_byte, r_out, r_seen>> /\ r_pc' = "idle"
    BY <1>3 DEF CountReturn, ReaderOnly
  <2>2. PICK h \in {r_seen, head} :
          /\ r_count' = Counted(h)
          /\ ready' = IF r_pc = "above" /\ h < tail THEN 0 ELSE Counted(h)
    BY <1>3 DEF CountReturn
  <2>3. h \in Index
    BY <1>1, <2>2
  <2>4. h - tail \in Int /\ Cap - tail + h \in Int
    BY <1>1, <2>3, CapAssumption DEF Index
  <2>5. Counted(h) \in 0 .. SizeMod - 1
    BY <2>4, SizeRange DEF Counted
  <2>6. ready' \in Nat /\ ready' <= Waiting
    <3>1. CASE r_pc = "above" /\ h < tail
      BY <1>1, <2>2, <3>1, WaitingIs, CapAssumption
    <3>2. CASE r_pc = "above" /\ ~(h < tail)
      <4>1. h - tail \in 0 .. Cap /\ h - tail <= Waiting
        BY <1>1, <2>2, <2>3, <3>2, CapAssumption DEF CountInv, Waiting, Index
      <4>2. ready' = h - tail
        BY <2>2, <2>4, <3>2, <4>1, SizeRange DEF Counted
      <4> QED
        BY <4>1, <4>2, CapAssumption
    <3>3. CASE r_pc = "below"
      <4>1. Cap - tail + h \in 0 .. Cap /\ Cap - tail + h <= Waiting
        BY <1>1, <2>2, <2>3, <3>3, CapAssumption DEF CountInv, Waiting, Index
      <4>2. ready' = Cap - tail + h
        BY <2>2, <2>4, <3>3, <4>1, SizeRange DEF Counted
      <4> QED
        BY <4>1, <4>2, CapAssumption
    <3> QED
      BY <1>3, <3>1, <3>2, <3>3 DEF CountReturn
  <2>7. TypeOK'
    BY <2>1, <2>2, <2>5, <2>6 DEF TypeOK, writer
  <2> QED
    BY <2>1, <2>6, <2>7 DEF WriterInv, ReaderInv, CountInv, Waiting, Full, writer
<1> QED
  BY <1>2, <1>3

LEMMA StepInv == IInv /\ [Next]_vars => IInv'
<1> SUFFICES ASSUME IInv, [Next]_vars PROVE IInv'
  OBVIOUS
<1>1. CASE Next
  BY <1>1, PushInv, PopInv, CountingInv DEF Next
<1>2. CASE UNCHANGED vars
  BY <1>2 DEF vars, ring, writer, reader, IInv, TypeOK, WriterInv, ReaderInv, CountInv,
              Full, Empty, Waiting
<1> QED
  BY <1>1, <1>2

LEMMA Invariance == Spec => []IInv
BY InitInv, StepInv, PTL DEF Spec

-----------------------------------------------------------------------------
(* The places of the bytes that wait: all different, and never the free    *)
(* place at head.                                                          *)
LEMMA PlaceIs ==
  ASSUME head \in Index, tail \in Index, NEW i \in 0 .. Cap - 1
  PROVE  /\ Place(i) \in Index
         /\ i < Waiting => Place(i) # head
         /\ i = Waiting => Place(i) = head
         /\ i = 0 => Place(i) = tail
BY CapAssumption DEF Place, Index, Waiting

(* The abstract queue and what it holds. *)
LEMMA QueuedIs ==
  ASSUME TypeOK
  PROVE  /\ Queued \in Seq(Byte)
         /\ Len(Queued) = Waiting
         /\ \A i \in 1 .. Waiting : Queued[i] = buf[Place(i - 1)]
<1>1. Waiting \in Nat /\ Waiting <= Cap - 1
  BY WaitingIs, CapAssumption DEF TypeOK
<1>2. \A i \in 1 .. Waiting : i - 1 \in 0 .. Cap - 1
  BY <1>1, CapAssumption
<1>3. \A i \in 1 .. Waiting : buf[Place(i - 1)] \in Byte
  BY <1>2, PlaceIs DEF TypeOK
<1>4. Queued \in [1 .. Waiting -> Byte]
  BY <1>3 DEF Queued
<1> QED
  BY <1>1, <1>4 DEF Queued

(* Publishing the byte at head appends it. *)
LEMMA QueueAppends ==
  ASSUME IInv, IInv', PushPublish
  PROVE  Len(Queued) < Cap - 1 /\ Queued' = Append(Queued, w_byte)
<1>1. head' = Succ(head) /\ UNCHANGED <<buf, tail>> /\ ~Full /\ buf[head] = w_byte
  BY DEF PushPublish, WriterOnly, IInv, WriterInv
<1>2. head \in Index /\ tail \in Index
  BY DEF IInv, TypeOK
<1>3. Waiting \in 0 .. Cap - 2 /\ Waiting' = Waiting + 1
  BY <1>1, <1>2, SuccIs, WaitingIs, CapAssumption DEF Full, Waiting, Index
<1>4. \A i \in 0 .. Cap - 1 : Place(i)' = Place(i)
  BY <1>1 DEF Place
<1>5. Queued' = [i \in 1 .. Waiting + 1 |-> buf[Place(i - 1)]]
  BY <1>1, <1>3 DEF Queued, Place
<1>6. Place(Waiting) = head
  BY <1>2, <1>3, PlaceIs, CapAssumption
<1>7. Queued \in Seq(Byte) /\ Len(Queued) = Waiting /\ w_byte \in Byte
      /\ \A i \in 1 .. Waiting : Queued[i] = buf[Place(i - 1)]
  BY QueuedIs DEF IInv, TypeOK
<1>8. \A i \in 1 .. Waiting + 1 : buf[Place(i - 1)] \in Byte
  BY <1>2, <1>3, PlaceIs, CapAssumption DEF IInv, TypeOK
<1>9. Queued' \in Seq(Byte) /\ Len(Queued') = Waiting + 1
  BY <1>3, <1>5, <1>8
<1>10. Append(Queued, w_byte) \in Seq(Byte) /\ Len(Append(Queued, w_byte)) = Waiting + 1
  BY <1>7
<1>11. \A i \in 1 .. Waiting + 1 : Queued'[i] = Append(Queued, w_byte)[i]
  <2> TAKE i \in 1 .. Waiting + 1
  <2>1. Queued'[i] = buf[Place(i - 1)]
    BY <1>5
  <2>2. CASE i \in 1 .. Waiting
    <3>1. Append(Queued, w_byte)[i] = Queued[i]
      BY <1>7, <2>2
    <3> QED
      BY <1>7, <2>1, <2>2, <3>1
  <2>3. CASE i = Waiting + 1
    <3>1. Append(Queued, w_byte)[i] = w_byte
      BY <1>3, <1>7, <2>3
    <3>2. i - 1 = Waiting
      BY <1>3, <2>3
    <3> QED
      BY <1>1, <1>6, <2>1, <3>1, <3>2
  <2>4. i \in 1 .. Waiting \/ i = Waiting + 1
    BY <1>3, CapAssumption
  <2> QED
    BY <2>2, <2>3, <2>4
<1>12. Queued' = Append(Queued, w_byte)
  BY <1>9, <1>10, <1>11, SeqEqual
<1> QED
  BY <1>3, <1>7, <1>12, CapAssumption

(* Moving tail past the first byte takes it off. *)
LEMMA QueueTakes ==
  ASSUME IInv, IInv', PopAdvance
  PROVE  Queued # <<>> /\ Head(Queued) = r_byte /\ Queued' = Tail(Queued)
<1>1. tail' = Succ(tail) /\ UNCHANGED <<buf, head>> /\ ~Empty /\ r_byte = buf[tail]
  BY DEF PopAdvance, ReaderOnly, IInv, ReaderInv
<1>2. head \in Index /\ tail \in Index /\ tail' \in Index
  BY DEF IInv, TypeOK
<1>3. Waiting \in 1 .. Cap - 1 /\ Waiting' = Waiting - 1
  BY <1>1, <1>2, SuccIs, WaitingIs, CapAssumption DEF Empty, Waiting, Index
<1>4. \A i \in 0 .. Cap - 2 : Place(i)' = Place(i + 1)
  BY <1>1, <1>2, SuccIs, CapAssumption DEF Place, Index
<1>5. Len(Queued) = Waiting /\ Queued \in Seq(Byte)
      /\ \A i \in 1 .. Waiting : Queued[i] = buf[Place(i - 1)]
  BY QueuedIs DEF IInv
<1>6. Queued[1] = buf[tail]
  BY <1>2, <1>3, <1>5, PlaceIs, CapAssumption
<1>7. Queued # <<>> /\ Head(Queued) = Queued[1]
  BY <1>3, <1>5
<1>8. Tail(Queued) \in Seq(Byte) /\ Len(Tail(Queued)) = Waiting - 1
      /\ \A i \in 1 .. Waiting - 1 : Tail(Queued)[i] = Queued[i + 1]
  BY <1>3, <1>5, <1>7, HeadTailProperties
<1>9. Queued' = [i \in 1 .. Waiting - 1 |-> buf[Place(i - 1)']]
  BY <1>1, <1>3 DEF Queued, Place
<1>10. \A i \in 1 .. Waiting - 1 : buf[Place(i - 1)'] = Tail(Queued)[i]
  <2> TAKE i \in 1 .. Waiting - 1
  <2>1. i - 1 \in 0 .. Cap - 2 /\ i + 1 \in 1 .. Waiting
    BY <1>3, CapAssumption
  <2> QED
    BY <1>4, <1>5, <1>8, <2>1
<1>11. \A i \in 1 .. Waiting - 1 : Tail(Queued)[i] \in Byte
  BY <1>5, <1>8, <1>3
<1>12. Queued' \in Seq(Byte) /\ Len(Queued') = Waiting - 1
  <2>1. Waiting - 1 \in Nat
    BY <1>3, CapAssumption
  <2>2. \A i \in 1 .. Waiting - 1 : buf[Place(i - 1)'] \in Byte
    BY <1>10, <1>11
  <2>3. Queued' \in [1 .. Waiting - 1 -> Byte]
    BY <1>9, <2>2
  <2> QED
    BY <2>1, <2>3
<1>13. Queued' = Tail(Queued)
  BY <1>8, <1>9, <1>10, <1>12, SeqEqual
<1> QED
  BY <1>1, <1>6, <1>7, <1>13

(* Everything else leaves the queue alone, the store at head included. *)
LEMMA QueueKept ==
  ASSUME IInv, UNCHANGED <<head, tail>>, UNCHANGED buf \/ PushStore
  PROVE  Queued' = Queued
<1>1. Waiting' = Waiting /\ \A i \in 0 .. Cap - 1 : Place(i)' = Place(i)
  BY DEF Waiting, Place
<1>2. head \in Index /\ tail \in Index /\ buf \in [Index -> Byte]
  BY DEF IInv, TypeOK
<1>3. \A i \in 1 .. Waiting : buf'[Place(i - 1)] = buf[Place(i - 1)]
  <2> TAKE i \in 1 .. Waiting
  <2>1. i - 1 \in 0 .. Cap - 1 /\ i - 1 < Waiting
    BY <1>2, WaitingIs, CapAssumption
  <2>2. Place(i - 1) \in Index /\ Place(i - 1) # head
    BY <1>2, <2>1, PlaceIs
  <2> QED
    BY <1>2, <2>2 DEF PushStore
<1>4. Queued' = [i \in 1 .. Waiting |-> buf'[Place(i - 1)]]
  BY <1>1 DEF Queued, Place
<1> QED
  BY <1>3, <1>4 DEF Queued

-----------------------------------------------------------------------------
(* The step of the queue that a step of the buffer is, or none. *)
LEMMA RefinementStep ==
  ASSUME IInv, IInv', [Next]_vars
  PROVE  [Queue!Next]_Queue!vars
<1> USE DEF Queue!vars, Queue!Next
<1> DEFINE Asking == r_pc \in {"test", "copy", "advance"}
<1>1. Len(Queued) = Waiting /\ Waiting \in Nat /\ (Full <=> Waiting = Cap - 1)
      /\ (Empty <=> Waiting = 0) /\ (Waiting = 0 <=> Queued = <<>>)
  BY QueuedIs, WaitingIs DEF IInv, TypeOK
<1>2. ASSUME NEW b \in Bytes, PushCall(b) PROVE Queue!Offer(b)
  <2>1. Queued' = Queued
    BY <1>2, QueueKept DEF PushCall, WriterOnly
  <2> QED
    BY <1>2, <2>1 DEF PushCall, WriterOnly, reader, Queue!Offer, IInv, WriterInv
<1>3. CASE PushFull
  <2>1. Queued' = Queued
    BY <1>3, QueueKept DEF PushFull, WriterOnly
  <2>2. w_byte # None /\ Len(Queued) = Cap - 1
    BY <1>1, <1>3, NoneAssumption DEF PushFull, IInv, WriterInv
  <2>3. Queue!Refuse
    BY <1>3, <2>1, <2>2 DEF PushFull, WriterOnly, reader, Queue!Refuse
  <2> QED
    BY <2>3
<1>4. CASE PushRoom \/ PushStore
  <2>1. Queued' = Queued
    BY <1>4, QueueKept DEF PushRoom, PushStore, WriterOnly
  <2> QED
    BY <1>4, <2>1 DEF PushRoom, PushStore, WriterOnly, reader
<1>5. CASE PushPublish
  <2>1. Len(Queued) < Cap - 1 /\ Queued' = Append(Queued, w_byte)
    BY <1>5, QueueAppends
  <2>2. w_byte # None
    BY <1>5, NoneAssumption DEF PushPublish, IInv, WriterInv
  <2>3. Queue!Accept
    BY <1>5, <2>1, <2>2 DEF PushPublish, WriterOnly, reader, Queue!Accept
  <2> QED
    BY <2>3
<1>6. CASE PopCall
  <2>1. Queued' = Queued
    BY <1>6, QueueKept DEF PopCall, ReaderOnly
  <2>2. Queue!Ask
    BY <1>6, <2>1 DEF PopCall, ReaderOnly, writer, Queue!Ask
  <2> QED
    BY <2>2
<1>7. CASE PopEmpty
  <2>1. Queued' = Queued
    BY <1>7, QueueKept DEF PopEmpty, ReaderOnly
  <2>2. Queued = <<>>
    BY <1>1, <1>7 DEF PopEmpty
  <2>3. Queue!FindEmpty
    BY <1>7, <2>1, <2>2 DEF PopEmpty, ReaderOnly, writer, Queue!FindEmpty
  <2> QED
    BY <2>3
<1>8. CASE PopSome \/ PopCopy
  <2>1. Queued' = Queued
    BY <1>8, QueueKept DEF PopSome, PopCopy, ReaderOnly
  <2> QED
    BY <1>8, <2>1 DEF PopSome, PopCopy, ReaderOnly, writer
<1>9. CASE PopAdvance
  <2>1. Queued # <<>> /\ Head(Queued) = r_byte /\ Queued' = Tail(Queued)
    BY <1>9, QueueTakes
  <2>2. Queue!Take
    BY <1>9, <2>1 DEF PopAdvance, ReaderOnly, writer, Queue!Take
  <2> QED
    BY <2>2
<1>10. CASE CountCall \/ CountReturn
  <2>1. Queued' = Queued
    BY <1>10, QueueKept DEF CountCall, CountReturn, ReaderOnly
  <2>2. UNCHANGED <<w_byte, w_ok, r_out>> /\ ~Asking /\ ~Asking'
    BY <1>10 DEF CountCall, CountReturn, ReaderOnly, writer
  <2> QED
    BY <2>1, <2>2
<1>11. CASE UNCHANGED vars
  <2>1. Queued' = Queued
    BY <1>11, QueueKept DEF vars, ring
  <2> QED
    BY <1>11, <2>1 DEF vars, ring, writer, reader
<1> QED
  BY <1>2, <1>3, <1>4, <1>5, <1>6, <1>7, <1>8, <1>9, <1>10, <1>11 DEF Next, Push, Pop

(* An empty buffer is an empty queue. *)
LEMMA RefinementInit == Init => Queue!Init
<1> SUFFICES ASSUME Init PROVE Queue!Init
  OBVIOUS
<1>1. Waiting = 0
  BY CapAssumption DEF Init, Waiting
<1>2. Queued = <<>>
  BY <1>1 DEF Queued
<1> QED
  BY <1>2 DEF Init, Queue!Init

-----------------------------------------------------------------------------
(* The indices, the places and both calls keep their types, for every *)
(* capacity and every width of size_t above it.                       *)
THEOREM TypeCorrect == Spec => []TypeOK
<1>1. IInv => TypeOK
  BY DEF IInv
<1> QED
  BY <1>1, Invariance, PTL

(* What ringbuf_count returned can be popped, whatever is pushed meanwhile, *)
(* unless head wrapped between its two loads.                               *)
THEOREM CountKeepsItsPromise == Spec => []CountIsPoppable
<1>1. IInv => CountIsPoppable
  BY DEF IInv, CountInv, CountIsPoppable
<1> QED
  BY <1>1, Invariance, PTL

(* ringbuf_push and ringbuf_pop implement a queue of Cap - 1 bytes, with no *)
(* lock between an interrupt and the loop.                                  *)
THEOREM ImplementsByteQueue == Spec => IsByteQueue
<1>1. IInv /\ IInv' /\ [Next]_vars => [Queue!Next]_Queue!vars
  BY RefinementStep
<1> QED
  BY <1>1, Invariance, RefinementInit, PTL DEF Spec, IsByteQueue, Queue!Spec
=============================================================================
