---------------------------- MODULE LinksProofs -----------------------------
(***************************************************************************)
(* Theorems about Links, for every checksum, payload size, set of frames,  *)
(* noise, timeout and clock: types, that only intact frames are handled,   *)
(* how many frames a disturbance can cost, and when a client is reported.  *)
(***************************************************************************)
EXTENDS Links, SequenceTheorems, TLAPS

-----------------------------------------------------------------------------
(* The age of a time stamp on the clock that wraps. *)
Old(t, u) == (t - u) % ClockMod

LEMMA OldCases ==
  ASSUME NEW t \in Clock, NEW u \in Clock
  PROVE  /\ Old(t, u) \in Clock
         /\ Old(t, u) = IF t >= u THEN t - u ELSE t - u + ClockMod
BY NetAssumption DEF Old, Clock

(* The clock's next value is one tick older, until the age itself wraps. *)
LEMMA OldNext ==
  ASSUME NEW t \in Clock, NEW u \in Clock, Old(t, u) + 1 < ClockMod
  PROVE  /\ (t + 1) % ClockMod \in Clock
         /\ Old((t + 1) % ClockMod, u) = Old(t, u) + 1
<1> DEFINE n == (t + 1) % ClockMod
<1>1. n \in Clock /\ n = IF t + 1 = ClockMod THEN 0 ELSE t + 1
  BY NetAssumption DEF Clock
<1>2. Old(n, u) = IF n >= u THEN n - u ELSE n - u + ClockMod
  BY <1>1, OldCases
<1>3. Old(t, u) = IF t >= u THEN t - u ELSE t - u + ClockMod
  BY OldCases
<1> HIDE DEF n
<1> QED
  BY <1>1, <1>2, <1>3, NetAssumption DEF Clock, n

(* Seen from an earlier reading of the clock a stamp is that much younger, *)
(* or it is newer than the reading.                                        *)
LEMMA OldEarlier ==
  ASSUME NEW t \in Clock, NEW now \in Clock, NEW u \in Clock
  PROVE  Old(now, u) = IF Old(t, u) >= Old(t, now) THEN Old(t, u) - Old(t, now)
                       ELSE ClockMod - (Old(t, now) - Old(t, u))
<1>1. Old(t, u) = IF t >= u THEN t - u ELSE t - u + ClockMod
  BY OldCases
<1>2. Old(t, now) = IF t >= now THEN t - now ELSE t - now + ClockMod
  BY OldCases
<1>3. Old(now, u) = IF now >= u THEN now - u ELSE now - u + ClockMod
  BY OldCases
<1> QED
  BY <1>1, <1>2, <1>3, NetAssumption DEF Clock

-----------------------------------------------------------------------------
(***************************************************************************)
(* The loop's reading is lag ticks old.  quiet is the age of the stamp     *)
(* while it counts, and while a client is reported it stays below the cap: *)
(* the last check saw a stamp within the timeout, and a turn adds MaxLag.  *)
(***************************************************************************)
ReadingInv == n_pc # "top" => Old(clock, now_ms) = lag
AgeInv == quiet < QuietCap => Old(clock, s_last_rx_ms) = quiet
ReportInv ==
  s_connected /\ s_last_rx_ms # 0 =>
    quiet <= NetTimeout + lag + (IF n_pc = "top" THEN 0 ELSE MaxLag)

NetInv == NetTypeOK /\ ReadingInv /\ AgeInv /\ ReportInv

LEMMA InitNet == NetInit => NetInv
<1> SUFFICES ASSUME NetInit PROVE NetInv
  OBVIOUS
<1>1. QuietCap \in Nat /\ ClockMod \in Nat /\ ClockMod > 1 /\ MaxLag \in Nat
      /\ WaitingMax \in Nat
  BY NetAssumption DEF QuietCap
<1>2. NetTypeOK
  <2>1. s_connected \in BOOLEAN /\ s_client \in BOOLEAN
    BY Zenon DEF NetInit
  <2>2. /\ clock \in Clock /\ now_ms \in Clock /\ s_last_rx_ms \in Clock
        /\ lag \in 0 .. MaxLag /\ chunk \in 0 .. WaitingMax
        /\ waiting \in 0 .. WaitingMax /\ quiet \in 0 .. QuietCap
    BY <1>1 DEF NetInit, Clock
  <2>3. n_pc = "top" /\ peer = "away"
    BY DEF NetInit
  <2> QED
    BY <2>1, <2>2, <2>3 DEF NetTypeOK
<1>3. ReadingInv /\ AgeInv /\ ReportInv
  BY <1>1 DEF NetInit, ReadingInv, AgeInv, ReportInv
<1> QED
  BY <1>2, <1>3 DEF NetInv

(* The steps of the net, as they occur in Links. *)
NetNext ==
  \/ ClockTick \/ Dial \/ ClientSend \/ HangUp
  \/ PollTop \/ PortStep \/ FeedOne \/ PortClosed \/ PollCheck

LEMMA NetOfNext == [Next]_vars => NetNext \/ UNCHANGED net
BY DEF Next, vars, UartByte, UartNoise, Settle, NetTick, NetDial, NetSend, NetHangUp,
       NetTop, NetPort, NetFeed, NetClosed, NetCheck, StillNet, NetNext

(* What a check sees. *)
LEMMA CheckSees ==
  ASSUME NetInv, n_pc = "check", s_connected, s_last_rx_ms # 0
  PROVE  /\ quiet \in Nat /\ lag \in Nat /\ lag <= MaxLag
         /\ Old(now_ms, s_last_rx_ms) = IF quiet >= lag THEN quiet - lag
                                       ELSE ClockMod - (lag - quiet)
<1>1. quiet < QuietCap
  BY NetAssumption DEF NetInv, NetTypeOK, ReportInv, QuietCap
<1>2. Old(clock, s_last_rx_ms) = quiet /\ Old(clock, now_ms) = lag
  BY <1>1 DEF NetInv, AgeInv, ReadingInv
<1>3. clock \in Clock /\ now_ms \in Clock /\ s_last_rx_ms \in Clock
      /\ quiet \in Nat /\ lag \in Nat /\ lag <= MaxLag
  BY NetAssumption DEF NetInv, NetTypeOK, QuietCap
<1> QED
  BY <1>2, <1>3, OldEarlier

LEMMA NextNet == NetInv /\ (NetNext \/ UNCHANGED net) => NetInv'
<1> SUFFICES ASSUME NetInv, NetNext \/ UNCHANGED net PROVE NetInv'
  OBVIOUS
<1>0. /\ clock \in Clock /\ now_ms \in Clock /\ s_last_rx_ms \in Clock
      /\ lag \in Nat /\ lag <= MaxLag /\ quiet \in Nat /\ quiet <= QuietCap
      /\ QuietCap \in Nat /\ QuietCap = NetTimeout + 2 * MaxLag + 1
      /\ QuietCap < ClockMod
      /\ Old(clock, clock) = 0
  BY NetAssumption, OldCases DEF NetInv, NetTypeOK, QuietCap, Clock
<1>1. CASE ClockTick
  <2>1. NetTypeOK'
    BY <1>0, <1>1, NetAssumption DEF ClockTick, NetInv, NetTypeOK, Clock
  <2>2. ReadingInv'
    <3>1. CASE n_pc = "top"
      BY <1>1, <3>1 DEF ClockTick, ReadingInv
    <3>2. CASE n_pc # "top"
      <4>1. Old(clock, now_ms) = lag /\ lag + 1 < ClockMod
        BY <1>0, <1>1, <3>2, NetAssumption DEF NetInv, ReadingInv, ClockTick
      <4>2. Old((clock + 1) % ClockMod, now_ms) = lag + 1
        BY <1>0, <4>1, OldNext
      <4> QED
        BY <1>1, <4>2 DEF ClockTick, ReadingInv, Old
    <3> QED
      BY <3>1, <3>2
  <2>3. AgeInv'
    <3> SUFFICES ASSUME quiet' < QuietCap PROVE Old(clock', s_last_rx_ms') = quiet'
      BY DEF AgeInv, QuietCap
    <3>1. quiet < QuietCap /\ quiet' = quiet + 1
      BY <1>0, <1>1 DEF ClockTick
    <3>2. Old(clock, s_last_rx_ms) = quiet /\ quiet + 1 < ClockMod
      BY <1>0, <3>1, NetAssumption DEF NetInv, AgeInv
    <3>3. Old((clock + 1) % ClockMod, s_last_rx_ms) = quiet + 1
      BY <1>0, <3>2, OldNext
    <3> QED
      BY <1>1, <3>1, <3>3 DEF ClockTick
  <2>4. ReportInv'
    BY <1>0, <1>1, NetAssumption DEF ClockTick, NetInv, ReportInv
  <2> QED
    BY <2>1, <2>2, <2>3, <2>4 DEF NetInv
<1>2. CASE Dial \/ ClientSend \/ HangUp
  <2>1. NetTypeOK'
    BY <1>2, NetAssumption DEF Dial, ClientSend, HangUp, NetInv, NetTypeOK, QuietCap, Clock
  <2> QED
    BY <1>2, <2>1 DEF Dial, ClientSend, HangUp, NetInv, ReadingInv, AgeInv, ReportInv, Old,
                      QuietCap
<1>3. CASE PollTop
  <2>1. NetTypeOK'
    BY <1>0, <1>3, NetAssumption DEF PollTop, NetInv, NetTypeOK, QuietCap
  <2>2. ReadingInv' /\ AgeInv'
    BY <1>0, <1>3 DEF PollTop, NetInv, ReadingInv, AgeInv, Old, QuietCap
  <2>3. ReportInv'
    BY <1>0, <1>3, NetAssumption DEF PollTop, NetInv, ReportInv
  <2> QED
    BY <2>1, <2>2, <2>3 DEF NetInv
<1>4. CASE PortAccept \/ PortTimeout \/ PortClosed
  <2>1. s_client' \in BOOLEAN
    BY <1>4, Zenon DEF PortAccept, PortTimeout, PortClosed, NetInv, NetTypeOK
  <2>2. NetTypeOK'
    BY <1>4, <2>1 DEF PortAccept, PortTimeout, PortClosed, NetInv, NetTypeOK, QuietCap, Clock
  <2> QED
    BY <1>4, <2>2 DEF PortAccept, PortTimeout, PortClosed, NetInv, ReadingInv, AgeInv,
                      ReportInv, Old, QuietCap
<1>5. CASE PortReceive
  <2>1. NetTypeOK'
    BY <1>0, <1>5, NetAssumption DEF PortReceive, StampOfBytes, NetInv, NetTypeOK, QuietCap
  <2>2. ReadingInv' /\ AgeInv'
    BY <1>0, <1>5 DEF PortReceive, StampOfBytes, NetInv, ReadingInv, AgeInv, Old, QuietCap
  <2>3. ReportInv'
    BY <1>0, <1>5, NetAssumption DEF PortReceive, ReportInv
  <2> QED
    BY <2>1, <2>2, <2>3 DEF NetInv
<1>6. CASE FeedOne
  <2>1. NetTypeOK'
    BY <1>6, NetAssumption DEF FeedOne, NetInv, NetTypeOK, QuietCap, Clock
  <2> QED
    BY <1>6, <2>1 DEF FeedOne, NetInv, ReadingInv, AgeInv, ReportInv, Old, QuietCap
<1>7. CASE PollCheck
  <2>1. NetTypeOK' /\ ReadingInv' /\ AgeInv'
    BY <1>7 DEF PollCheck, NetInv, NetTypeOK, ReadingInv, AgeInv, Old, QuietCap
  <2>2. ReportInv'
    <3> SUFFICES ASSUME s_connected', s_last_rx_ms' # 0
                 PROVE  quiet' <= NetTimeout + lag'
      BY <1>0, <1>7, NetAssumption DEF PollCheck, ReportInv
    <3>1. s_connected /\ s_last_rx_ms # 0 /\ n_pc = "check"
          /\ quiet' = quiet /\ lag' = lag
      BY <1>7 DEF PollCheck
    <3>2. Old(now_ms, s_last_rx_ms) <= NetTimeout
      <4>1. ~(Old(now_ms, s_last_rx_ms) > NetTimeout)
        BY <1>7, <3>1 DEF PollCheck, TimedOut, Old
      <4>2. Old(now_ms, s_last_rx_ms) \in Clock
        BY <1>0, OldCases
      <4> QED
        BY <4>1, <4>2, NetAssumption DEF Clock
    <3>3. Old(now_ms, s_last_rx_ms) = IF quiet >= lag THEN quiet - lag
                                     ELSE ClockMod - (lag - quiet)
      BY <3>1, CheckSees
    <3> QED
      BY <1>0, <3>1, <3>2, <3>3, NetAssumption
  <2> QED
    BY <2>1, <2>2 DEF NetInv
<1>8. CASE UNCHANGED net
  BY <1>8 DEF net, NetInv, NetTypeOK, ReadingInv, AgeInv, ReportInv, Old, QuietCap
<1> QED
  BY <1>1, <1>2, <1>3, <1>4, <1>5, <1>6, <1>7, <1>8 DEF NetNext, PortStep

LEMMA NetAlways == Spec => []NetInv
<1>1. Init => NetInv
  BY InitNet DEF Init
<1>2. NetInv /\ [Next]_vars => NetInv'
  BY NetOfNext, NextNet
<1> QED
  BY <1>1, <1>2, PTL DEF Spec

(* While the link reports a client and the stamp is not the reserved 0, a  *)
(* byte has been received within the timeout and two turns of the loop.    *)
THEOREM MarkIsRecent == Spec => []MarkedIsRecent
<1>1. NetInv => MarkedIsRecent
  BY NetAssumption DEF NetInv, NetTypeOK, ReportInv, MarkedIsRecent, QuietCap
<1> QED
  BY <1>1, NetAlways, PTL

(* A client is given up only after more than the timeout without a byte,   *)
(* or in the turn that received one after reading the time.                *)
THEOREM LostIfSilent == Spec => LostOnlyIfSilent
<1>1. NetInv /\ [Next]_vars =>
        [s_connected /\ ~s_connected' => quiet > NetTimeout \/ StampAfterNow]_net
  <2> SUFFICES ASSUME NetInv, [Next]_vars, s_connected, ~s_connected'
               PROVE  quiet > NetTimeout \/ StampAfterNow
    OBVIOUS
  <2>1. PollCheck
    BY NetOfNext DEF NetNext, net, ClockTick, Dial, ClientSend, HangUp, PollTop, PortStep,
       PortAccept, PortTimeout, PortReceive, PortClosed, FeedOne
  <2>2. s_last_rx_ms # 0 /\ Old(now_ms, s_last_rx_ms) > NetTimeout /\ n_pc = "check"
    BY <2>1 DEF PollCheck, TimedOut, Old
  <2>3. /\ quiet \in Nat /\ lag \in Nat /\ lag <= MaxLag
        /\ Old(now_ms, s_last_rx_ms) = IF quiet >= lag THEN quiet - lag
                                      ELSE ClockMod - (lag - quiet)
    BY <2>2, CheckSees
  <2>4. CASE quiet >= lag
    BY <2>2, <2>3, <2>4, NetAssumption
  <2>5. CASE ~(quiet >= lag)
    <3>1. Old(now_ms, s_last_rx_ms) >= ClockMod - MaxLag
      BY <2>3, <2>5, NetAssumption
    <3> QED
      BY <3>1 DEF StampAfterNow, Old
  <2> QED
    BY <2>4, <2>5
<1> QED
  BY <1>1, NetAlways, PTL DEF Spec, LostOnlyIfSilent

-----------------------------------------------------------------------------
(* The bytes of a frame on the wire, one by one. *)
LEMMA WireShape ==
  ASSUME NEW f \in Frames
  PROVE  /\ f.pay \in Seq(Bytes) /\ f.type \in Bytes
         /\ Len(f.pay) \in Nat /\ Len(f.pay) <= PayloadMax
         /\ Len(Wire[f]) = Len(f.pay) + 5
         /\ Wire[f][1] = Sync0 /\ Wire[f][2] = Sync1
         /\ Wire[f][3] = Len(f.pay) /\ Wire[f][4] = f.type
         /\ \A j \in 1 .. Len(f.pay) : Wire[f][j + 4] = f.pay[j]
         /\ Wire[f][Len(f.pay) + 5] = Crc(<<Len(f.pay), f.type>> \o f.pay)
<1> DEFINE n == Len(f.pay)
           c == Covered(f)
           S == Nat \cup {Crc(c)}
<1>1. f.pay \in Seq(Bytes) /\ f.type \in Bytes /\ n \in Nat /\ n <= PayloadMax
  BY FramesAssumption, LenProperties
<1>2. f.pay \in Seq(S) /\ f.type \in S /\ n \in S /\ Sync0 \in S /\ Sync1 \in S
  BY <1>1, BytesAssumption, SeqMonotonic
<1>3. /\ <<n, f.type>> \in Seq(S) /\ Len(<<n, f.type>>) = 2
      /\ <<n, f.type>>[1] = n /\ <<n, f.type>>[2] = f.type
      /\ <<Sync0, Sync1>> \in Seq(S) /\ Len(<<Sync0, Sync1>>) = 2
      /\ <<Sync0, Sync1>>[1] = Sync0 /\ <<Sync0, Sync1>>[2] = Sync1
      /\ <<Crc(c)>> \in Seq(S) /\ Len(<<Crc(c)>>) = 1 /\ <<Crc(c)>>[1] = Crc(c)
  BY <1>2
<1>4. c \in Seq(S) /\ Len(c) = n + 2 /\ c[1] = n /\ c[2] = f.type
      /\ \A j \in 1 .. n : c[j + 2] = f.pay[j]
  BY <1>1, <1>2, <1>3, ConcatProperties DEF Covered
<1> DEFINE h == <<Sync0, Sync1>> \o c
<1>5. h \in Seq(S) /\ Len(h) = n + 4 /\ h[1] = Sync0 /\ h[2] = Sync1
      /\ \A j \in 1 .. n + 2 : h[j + 2] = c[j]
  BY <1>1, <1>3, <1>4, ConcatProperties
<1> DEFINE w == h \o <<Crc(c)>>
<1>6. Len(w) = n + 5 /\ (\A j \in 1 .. n + 4 : w[j] = h[j]) /\ w[n + 5] = Crc(c)
  BY <1>1, <1>3, <1>5, ConcatProperties
<1>7. Wire[f] = w
  BY DEF Wire, Encode
<1>8. c = <<n, f.type>> \o f.pay
  BY DEF Covered
<1> HIDE DEF n, c, S, h, w
<1>9. w[1] = Sync0 /\ w[2] = Sync1 /\ w[3] = n /\ w[4] = f.type
  <2>1. h[1 + 2] = c[1] /\ h[2 + 2] = c[2]
    BY <1>1, <1>5
  <2> QED
    BY <1>1, <1>4, <1>5, <1>6, <2>1
<1>10. ASSUME NEW j \in 1 .. n PROVE w[j + 4] = f.pay[j]
  <2>1. w[j + 4] = h[j + 4]
    BY <1>1, <1>6
  <2>2. h[(j + 2) + 2] = c[j + 2]
    BY <1>1, <1>5
  <2> QED
    BY <1>1, <1>4, <2>1, <2>2
<1> QED
  BY <1>1, <1>6, <1>7, <1>8, <1>9, <1>10 DEF n

(* Every byte the sender puts on the wire is one. *)
LEMMA WireBytes ==
  ASSUME NEW f \in Frames, NEW i \in 1 .. Len(Wire[f])
  PROVE  Wire[f][i] \in Bytes
BY FramesAssumption

(* Short sequences, byte by byte. *)
LEMMA AppendSecond ==
  ASSUME NEW a \in Nat, NEW b \in Nat
  PROVE  Append(<<a>>, b) = <<a, b>>
<1> DEFINE s == Append(<<a>>, b)
<1>1. <<a>> \in Seq(Nat) /\ <<a, b>> \in Seq(Nat)
  OBVIOUS
<1>2. s \in Seq(Nat) /\ Len(s) = 2
      /\ s[1] = a /\ s[2] = b
  BY <1>1, AppendProperties
<1>3. \A i \in 1 .. 2 : s[i] = <<a, b>>[i]
  BY <1>2
<1>4. Len(<<a, b>>) = 2
  OBVIOUS
<1> QED
  BY <1>1, <1>2, <1>3, <1>4, SeqEqual

LEMMA AppendThird ==
  ASSUME NEW a \in Nat, NEW b \in Nat, NEW c \in Nat
  PROVE  Append(<<a, b>>, c) = <<a, b, c>>
<1> DEFINE s == Append(<<a, b>>, c)
<1>1. <<a, b>> \in Seq(Nat) /\ <<a, b, c>> \in Seq(Nat)
  OBVIOUS
<1>2. s \in Seq(Nat) /\ Len(s) = 3
      /\ s[1] = a /\ s[2] = b /\ s[3] = c
  BY <1>1, AppendProperties
<1>3. \A i \in 1 .. 3 : s[i] = <<a, b, c>>[i]
  BY <1>2
<1>4. Len(<<a, b, c>>) = 3
  OBVIOUS
<1> QED
  BY <1>1, <1>2, <1>3, <1>4, SeqEqual

LEMMA AppendFourth ==
  ASSUME NEW a \in Nat, NEW b \in Nat, NEW c \in Nat, NEW d \in Nat
  PROVE  Append(<<a, b, c>>, d) = <<a, b, c, d>>
<1> DEFINE s == Append(<<a, b, c>>, d)
<1>1. <<a, b, c>> \in Seq(Nat) /\ <<a, b, c, d>> \in Seq(Nat)
  OBVIOUS
<1>2. s \in Seq(Nat) /\ Len(s) = 4
      /\ s[1] = a /\ s[2] = b /\ s[3] = c /\ s[4] = d
  BY <1>1, AppendProperties
<1>3. \A i \in 1 .. 4 : s[i] = <<a, b, c, d>>[i]
  BY <1>2
<1>4. Len(<<a, b, c, d>>) = 4
  OBVIOUS
<1> QED
  BY <1>1, <1>2, <1>3, <1>4, SeqEqual

LEMMA ConcatPairs ==
  ASSUME NEW a \in Nat, NEW b \in Nat, NEW c \in Nat, NEW d \in Nat
  PROVE  <<a, b>> \o <<c, d>> = <<a, b, c, d>>
<1> DEFINE s == <<a, b>> \o <<c, d>>
<1>1. <<a, b>> \in Seq(Nat) /\ <<c, d>> \in Seq(Nat) /\ <<a, b, c, d>> \in Seq(Nat)
  OBVIOUS
<1>2. s \in Seq(Nat) /\ Len(s) = 4
      /\ s[1] = a /\ s[2] = b /\ s[3] = c /\ s[4] = d
  BY <1>1, ConcatProperties
<1>3. \A i \in 1 .. 4 : s[i] = <<a, b, c, d>>[i]
  BY <1>2
<1>4. Len(<<a, b, c, d>>) = 4
  OBVIOUS
<1> QED
  BY <1>1, <1>2, <1>3, <1>4, SeqEqual

(* A byte at the end of three parts. *)
LEMMA GrowLast ==
  ASSUME NEW x \in Seq(Nat), NEW y \in Seq(Nat), NEW s \in Seq(Nat), NEW b \in Nat
  PROVE  Append(x \o (y \o s), b) = x \o (y \o Append(s, b))
<1>1. <<b>> \in Seq(Nat) /\ y \o s \in Seq(Nat) /\ x \o (y \o s) \in Seq(Nat)
  BY ConcatProperties
<1>2. Append(s, b) = s \o <<b>>
  BY AppendIsConcat
<1>3. Append(x \o (y \o s), b) = (x \o (y \o s)) \o <<b>>
  BY <1>1, AppendIsConcat
<1>4. (x \o (y \o s)) \o <<b>> = x \o ((y \o s) \o <<b>>)
  BY <1>1, ConcatAssociative
<1>5. (y \o s) \o <<b>> = y \o (s \o <<b>>)
  BY <1>1, ConcatAssociative
<1> QED
  BY <1>2, <1>3, <1>4, <1>5

-----------------------------------------------------------------------------
(* One call of the parser keeps its types. *)
LEMMA ParserTypes ==
  ASSUME ParserTypeOK, NEW b \in Bytes, ai_link_rx_byte(b)
  PROVE  ParserTypeOK'
<1>0. b \in Nat /\ s_len \in Nat /\ PayloadMax \in Nat \ {0} /\ Len(s_pay) \in Nat
      /\ <<>> \in Seq(Bytes) /\ Len(<<>>) = 0
  BY BytesAssumption, PayloadAssumption, LenProperties DEF ParserTypeOK
<1>1. CASE rx_sync0(b) \/ rx_sync1(b) \/ rx_len(b)
  BY <1>1, <1>0 DEF rx_sync0, rx_sync1, rx_len, ParserTypeOK
<1>2. CASE rx_type(b)
  <2>1. s_pay = <<>>
    BY <1>2 DEF rx_type, ParserTypeOK
  <2>2. CASE s_len = 0 /\ s_st' = "CRC" /\ s_type' = b /\ s_crc_acc' = Crc(<<s_len, b>>)
             /\ UNCHANGED <<s_len, s_pay>>
    <3>1. <<s_len', s_type'>> \o s_pay' = <<s_len, b>>
      BY <1>0, <2>1, <2>2, ConcatEmptySeq
    <3> QED
      BY <1>0, <1>2, <2>1, <2>2, <3>1 DEF rx_type, ParserTypeOK
  <2>3. CASE s_len > PayloadMax /\ Idle
    BY <1>0, <1>2, <2>3 DEF rx_type, Idle, ParserTypeOK
  <2>4. CASE s_len \in 1 .. PayloadMax /\ s_st' = "PAY" /\ s_type' = b
             /\ UNCHANGED <<s_len, s_pay, s_crc_acc>>
    BY <1>0, <1>2, <2>1, <2>4 DEF rx_type, ParserTypeOK
  <2> QED
    BY <1>2, <2>2, <2>3, <2>4 DEF rx_type
<1>3. CASE rx_pay(b)
  <2>1. s_pay' \in Seq(Bytes) /\ Len(s_pay') = Len(s_pay) + 1
    BY <1>3, AppendProperties DEF rx_pay, ParserTypeOK
  <2>2. s_st = "PAY" /\ handled' = NoFrame /\ s_len' = s_len /\ s_type' = s_type
    BY <1>3 DEF rx_pay
  <2>3. Len(s_pay) < s_len /\ s_len <= PayloadMax
    BY <2>2 DEF ParserTypeOK
  <2>4. CASE Len(s_pay) + 1 < s_len /\ s_st' = "PAY"
    BY <1>0, <2>1, <2>2, <2>3, <2>4 DEF ParserTypeOK
  <2>5. CASE Len(s_pay) + 1 >= s_len /\ s_st' = "CRC"
             /\ s_crc_acc' = Crc(<<s_len, s_type>> \o s_pay')
    BY <1>0, <2>1, <2>2, <2>3, <2>5 DEF ParserTypeOK
  <2> QED
    BY <1>3, <2>2, <2>4, <2>5 DEF rx_pay
<1>4. CASE rx_crc(b)
  BY <1>0, <1>4 DEF rx_crc, Idle, ParserTypeOK
<1> QED
  BY <1>1, <1>2, <1>3, <1>4 DEF ai_link_rx_byte

(***************************************************************************)
(* What has arrived since the parser woke up is what it knows of a frame.  *)
(***************************************************************************)
ShapeInv ==
  /\ s_st = "SYNC1" => since = <<Sync0>>
  /\ s_st = "LEN" => since = <<Sync0, Sync1>>
  /\ s_st = "TYPE" => since = <<Sync0, Sync1, s_len>>
  /\ s_st \in {"PAY", "CRC"} => since = <<Sync0, Sync1>> \o (<<s_len, s_type>> \o s_pay)
  /\ HandledIsIntact

LEMMA ReceiveShape ==
  ASSUME ParserTypeOK, ShapeInv, since \in Seq(Bytes), NEW b \in Bytes, Receive(b)
  PROVE  since' \in Seq(Bytes) /\ ShapeInv'
<1>0. /\ b \in Nat /\ s_len \in Nat /\ s_type \in Nat /\ s_pay \in Seq(Nat)
      /\ Sync0 \in Nat /\ Sync1 \in Nat /\ <<>> \in Seq(Bytes)
  <2>1. s_pay \in Seq(Nat)
    BY BytesAssumption, SeqMonotonic DEF ParserTypeOK
  <2>2. /\ \A x \in Bytes : x \in Nat
        /\ b \in Bytes /\ Sync0 \in Bytes /\ Sync1 \in Bytes
    BY BytesAssumption
  <2>3. s_len \in Nat /\ s_type \in Nat
    BY <2>2 DEF ParserTypeOK
  <2> QED
    BY <2>1, <2>2, <2>3, EmptySeq
<1>a. /\ ai_link_rx_byte(b)
      /\ since' = IF s_st' = "SYNC0" /\ handled' = NoFrame THEN <<>>
                  ELSE IF s_st = "SYNC0" THEN <<b>> ELSE Append(since, b)
  BY DEF Receive
<1>1. since' \in Seq(Bytes)
  BY <1>0, <1>a, AppendProperties
<1>2. CASE rx_sync0(b) \/ rx_sync1(b) \/ rx_len(b)
  <2>1. handled' = NoFrame
    BY <1>2 DEF rx_sync0, rx_sync1, rx_len
  <2>2. s_st' = "SYNC1" => since' = <<Sync0>>
    BY <1>a, <1>2 DEF rx_sync0, rx_sync1, rx_len
  <2>3. ASSUME s_st' = "LEN" PROVE since' = <<Sync0, Sync1>>
    <3>1. since' = Append(<<Sync0>>, Sync1)
      BY <1>a, <1>2, <2>3 DEF rx_sync0, rx_sync1, rx_len, ShapeInv
    <3> QED
      BY <1>0, <3>1, AppendSecond
  <2>4. ASSUME s_st' = "TYPE" PROVE since' = <<Sync0, Sync1, s_len'>>
    <3>1. since' = Append(<<Sync0, Sync1>>, b) /\ s_len' = b
      BY <1>a, <1>2, <2>4 DEF rx_sync0, rx_sync1, rx_len, ShapeInv
    <3> QED
      BY <1>0, <3>1, AppendThird
  <2>5. s_st' \in {"SYNC0", "SYNC1", "LEN", "TYPE"}
    BY <1>2 DEF rx_sync0, rx_sync1, rx_len
  <2> QED
    BY <1>1, <2>1, <2>2, <2>3, <2>4, <2>5 DEF ShapeInv, HandledIsIntact
<1>3. CASE rx_type(b)
  <2>1. handled' = NoFrame /\ s_st = "TYPE" /\ s_pay = <<>> /\ since = <<Sync0, Sync1, s_len>>
    BY <1>3 DEF rx_type, ParserTypeOK, ShapeInv
  <2>2. CASE s_st' = "SYNC0"
    BY <1>1, <2>1, <2>2 DEF ShapeInv, HandledIsIntact
  <2>3. CASE s_st' \in {"PAY", "CRC"}
    <3>1. s_len' = s_len /\ s_type' = b /\ s_pay' = <<>>
      BY <1>3, <2>1, <2>3 DEF rx_type, Idle
    <3>2. since' = <<Sync0, Sync1, s_len, b>>
      <4>1. since' = Append(<<Sync0, Sync1, s_len>>, b)
        BY <1>a, <2>1, <2>3
      <4> QED
        BY <1>0, <4>1, AppendFourth
    <3>3. <<s_len, b>> \o <<>> = <<s_len, b>>
      BY <1>0, ConcatEmptySeq
    <3>4. <<Sync0, Sync1>> \o <<s_len, b>> = <<Sync0, Sync1, s_len, b>>
      BY <1>0, ConcatPairs
    <3> QED
      BY <1>1, <2>1, <2>3, <3>1, <3>2, <3>3, <3>4 DEF ShapeInv, HandledIsIntact
  <2> QED
    BY <1>3, <2>2, <2>3 DEF rx_type, Idle
<1>4. CASE rx_pay(b)
  <2>1. handled' = NoFrame /\ s_st = "PAY" /\ s_st' \in {"PAY", "CRC"}
        /\ s_len' = s_len /\ s_type' = s_type /\ s_pay' = Append(s_pay, b)
    BY <1>4 DEF rx_pay
  <2>2. since' = Append(<<Sync0, Sync1>> \o (<<s_len, s_type>> \o s_pay), b)
    BY <1>a, <2>1 DEF ShapeInv
  <2>3. <<Sync0, Sync1>> \in Seq(Nat) /\ <<s_len, s_type>> \in Seq(Nat)
    BY <1>0
  <2>4. since' = <<Sync0, Sync1>> \o (<<s_len, s_type>> \o Append(s_pay, b))
    BY <1>0, <2>2, <2>3, GrowLast
  <2> QED
    BY <1>1, <2>1, <2>4 DEF ShapeInv, HandledIsIntact
<1>5. CASE rx_crc(b)
  <2>1. s_st = "CRC" /\ s_st' = "SYNC0"
    BY <1>5 DEF rx_crc, Idle
  <2>2. ASSUME handled' # NoFrame PROVE since' = Encode(handled') /\ Len(handled'.pay) <= PayloadMax
    <3>1. handled' = [type |-> s_type, pay |-> s_pay] /\ b = s_crc_acc
      BY <1>5, <2>2 DEF rx_crc
    <3>2. Covered(handled') = <<s_len, s_type>> \o s_pay
      BY <2>1, <3>1 DEF Covered, ParserTypeOK
    <3>3. b = Crc(Covered(handled'))
      BY <2>1, <3>1, <3>2 DEF ParserTypeOK
    <3>4. since' = Append(<<Sync0, Sync1>> \o Covered(handled'), b)
      BY <1>a, <2>1, <2>2, <3>2 DEF ShapeInv
    <3>5. <<Sync0, Sync1>> \o Covered(handled') \in Seq(Nat)
      <4>1. <<s_len, s_type>> \o s_pay \in Seq(Nat)
        BY <1>0, ConcatProperties
      <4> QED
        BY <1>0, <3>2, <4>1, ConcatProperties
    <3>6. since' = <<Sync0, Sync1>> \o Covered(handled') \o <<b>>
      BY <1>0, <3>4, <3>5, AppendIsConcat
    <3>7. Len(handled'.pay) <= PayloadMax
      BY <3>1 DEF ParserTypeOK
    <3> QED
      BY <3>3, <3>6, <3>7 DEF Encode
  <2> QED
    BY <1>1, <2>1, <2>2 DEF ShapeInv, HandledIsIntact
<1> QED
  BY <1>a, <1>2, <1>3, <1>4, <1>5 DEF ai_link_rx_byte

-----------------------------------------------------------------------------
(***************************************************************************)
(* A parser that is not in step with the sender is inside a frame that is  *)
(* not there, whose end is no more than Left bytes away (Loose), or waits  *)
(* for a start while a frame goes by (Missing).                            *)
(***************************************************************************)
Sending == pos > 0 => pos < Len(cur.pay) + 5

Left ==
  CASE s_st \in {"SYNC1", "CRC"} -> 1
    [] s_st = "LEN" -> 2
    [] s_st = "TYPE" -> IF s_len > PayloadMax THEN 1 ELSE s_len + 2
    [] s_st = "PAY" -> s_len - Len(s_pay) + 1
    [] s_st = "SYNC0" -> 0

Loose ==
  /\ s_st # "SYNC0"
  /\ s_st \in {"SYNC1", "LEN"} => pos = 0
  /\ 5 * lost + pos + Left <= PayloadMax + 2

Missing ==
  /\ \/ s_st = "SYNC0"
     \/ s_st = "SYNC1" /\ pos > 1 /\ Wire[cur][pos] = Sync0
  /\ pos > 0
  /\ lost + 1 <= (PayloadMax + 6) \div 5

LossInv == LossIsBounded /\ (InStep \/ Loose \/ Missing)

LinkInv == TypeOK /\ ShapeInv /\ Sending

(* How many frames fit. *)
LEMMA Fits ==
  ASSUME NEW n \in Nat, 5 * n <= PayloadMax + 6
  PROVE  n <= (PayloadMax + 6) \div 5
BY PayloadAssumption

LEMMA FitsConverse ==
  ASSUME NEW n \in Nat, n <= (PayloadMax + 6) \div 5
  PROVE  5 * n <= PayloadMax + 6
BY PayloadAssumption

LEMMA LeftBound == ParserTypeOK => Left \in Int /\ Left <= PayloadMax + 2
<1> SUFFICES ASSUME ParserTypeOK PROVE Left \in Int /\ Left <= PayloadMax + 2
  OBVIOUS
<1>1. s_len \in Nat /\ Len(s_pay) \in Nat /\ PayloadMax \in Nat \ {0}
  BY BytesAssumption, PayloadAssumption, LenProperties DEF ParserTypeOK
<1>2. s_st \in {"SYNC0", "SYNC1", "LEN", "TYPE", "PAY", "CRC"}
      /\ (s_st = "PAY" => s_len <= PayloadMax)
  BY DEF ParserTypeOK
<1> QED
  BY <1>1, <1>2 DEF Left

(* The weight that Loose bounds, after a disturbance and after a byte. *)
LEMMA WeightAtStart ==
  ASSUME NEW a, NEW p, NEW l \in Int, a = 0, p = 0, l <= PayloadMax + 2
  PROVE  5 * a + p + l <= PayloadMax + 2
BY PayloadAssumption

LEMMA WeightAfterByte ==
  ASSUME NEW a \in Nat, NEW p \in Nat, NEW l \in Nat,
         NEW aa, NEW pp, NEW ll \in Nat,
         5 * a + p + l <= PayloadMax + 2, ll + 1 <= l,
         \/ pp = p + 1 /\ aa = a
         \/ pp = 0 /\ p >= 4 /\ (aa = a \/ aa = a + 1)
  PROVE  /\ aa \in Nat /\ pp \in Nat
         /\ 5 * aa + pp + ll <= PayloadMax + 2
         /\ 5 * aa <= PayloadMax + 6
<1>1. CASE pp = p + 1 /\ aa = a
  BY <1>1, PayloadAssumption
<1>2. CASE pp = 0 /\ p >= 4 /\ aa = a
  BY <1>2, PayloadAssumption
<1>3. CASE pp = 0 /\ p >= 4 /\ aa = a + 1
  BY <1>3, PayloadAssumption
<1> QED
  BY <1>1, <1>2, <1>3

(* A disturbance leaves the parser anywhere, with nothing lost yet. *)
LEMMA DisturbedLoss ==
  ASSUME ParserTypeOK', Disturbed
  PROVE  LossInv'
<1>1. pos' = 0 /\ lost' = 0 /\ PayloadMax \in Nat
  BY PayloadAssumption DEF Disturbed
<1>2. Left' \in Int /\ Left' <= PayloadMax + 2
  <2>1. (ParserTypeOK => Left \in Int /\ Left <= PayloadMax + 2)'
    BY LeftBound, PTL
  <2> QED
    BY <2>1
<1>4. LossIsBounded'
  BY <1>1, Fits DEF LossIsBounded
<1>5. CASE s_st' = "SYNC0"
  BY <1>1, <1>4, <1>5 DEF InStep, LossInv
<1>6. CASE s_st' # "SYNC0"
  <2> DEFINE l == Left
  <2>1. 5 * lost' + pos' + l' <= PayloadMax + 2
    <3> HIDE DEF l
    <3>1. l' \in Int /\ l' <= PayloadMax + 2
      BY <1>2 DEF l
    <3> QED
      BY <1>1, <3>1, WeightAtStart
  <2>2. Loose'
    BY <1>1, <1>6, <2>1 DEF Loose
  <2> QED
    BY <1>4, <2>2 DEF LossInv
<1> QED
  BY <1>5, <1>6

(* What SentByte does to the stream, for the frame f it sends a byte of. *)
Sends(f) ==
  /\ f \in Frames
  /\ pos \in Nat /\ pos < Len(f.pay) + 5
  /\ pos > 0 => cur = f
  /\ ai_link_rx_byte(Wire[f][pos + 1])
  /\ pos' = IF pos = Len(f.pay) + 4 THEN 0 ELSE pos + 1
  /\ pos < Len(f.pay) + 4 => cur' = f
  /\ lost' = IF pos = Len(f.pay) + 4 /\ handled' # f THEN lost + 1 ELSE lost

LEMMA SentSends ==
  ASSUME TypeOK, Sending, SentByte
  PROVE  \E f \in Frames :
           /\ Sends(f) /\ Receive(Wire[f][pos + 1])
           /\ cur' = IF pos = Len(f.pay) + 4 THEN NoFrame ELSE f
<1>1. PICK f \in (IF pos = 0 THEN Frames ELSE {cur}) :
        LET whole == pos + 1 = Len(Wire[f])
        IN /\ Receive(Wire[f][pos + 1])
           /\ pos' = IF whole THEN 0 ELSE pos + 1
           /\ cur' = IF whole THEN NoFrame ELSE f
           /\ lost' = IF whole /\ handled' # f THEN lost + 1 ELSE lost
  BY DEF SentByte
<1>2. pos \in Nat /\ (pos > 0 => cur \in Frames)
  BY PayloadAssumption DEF TypeOK
<1>3. f \in Frames /\ (pos > 0 => cur = f)
  BY <1>1, <1>2
<1>4. Len(f.pay) \in Nat /\ Len(Wire[f]) = Len(f.pay) + 5
  BY <1>3, WireShape
<1>5. pos < Len(f.pay) + 5
  BY <1>2, <1>3, <1>4 DEF Sending
<1>6. (pos + 1 = Len(Wire[f])) <=> (pos = Len(f.pay) + 4)
  BY <1>2, <1>4
<1>7. ai_link_rx_byte(Wire[f][pos + 1])
  BY <1>1 DEF Receive
<1>8. pos < Len(f.pay) + 4 => cur' = f
  BY <1>1, <1>2, <1>4, <1>6
<1>9. /\ pos' = IF pos = Len(f.pay) + 4 THEN 0 ELSE pos + 1
      /\ lost' = IF pos = Len(f.pay) + 4 /\ handled' # f THEN lost + 1 ELSE lost
  BY <1>1, <1>6
<1>10. Sends(f)
  BY <1>2, <1>3, <1>5, <1>7, <1>8, <1>9 DEF Sends
<1>11. /\ Receive(Wire[f][pos + 1])
       /\ cur' = IF pos = Len(f.pay) + 4 THEN NoFrame ELSE f
  BY <1>1, <1>6
<1> QED
  BY <1>3, <1>10, <1>11

(* A parser in step stays in step, and handles the frame at its end only. *)
LEMMA InStepKept ==
  ASSUME ParserTypeOK, InStep, NEW f \in Frames, Sends(f)
  PROVE  /\ InStep' /\ lost' = lost
         /\ handled' = IF pos = Len(f.pay) + 4 THEN f ELSE NoFrame
<1> DEFINE n == Len(f.pay)
           b == Wire[f][pos + 1]
<1>0. /\ n \in Nat /\ n <= PayloadMax /\ f.pay \in Seq(Bytes) /\ f.type \in Bytes
      /\ pos \in Nat /\ pos < n + 5 /\ (pos > 0 => cur = f)
      /\ pos' = (IF pos = n + 4 THEN 0 ELSE pos + 1) /\ (pos < n + 4 => cur' = f)
      /\ lost' = IF pos = n + 4 /\ handled' # f THEN lost + 1 ELSE lost
      /\ PayloadMax \in Nat
  BY WireShape, PayloadAssumption DEF Sends
<1>1. ai_link_rx_byte(b)
  BY DEF Sends
<1>2. CASE pos = 0 /\ s_st = "SYNC0"
  <2>1. b = Sync0
    <3>1. pos + 1 = 1
      BY <1>2
    <3>2. Wire[f][1] = Sync0
      BY WireShape
    <3> QED
      BY <3>1, <3>2
  <2>2. s_st' = "SYNC1" /\ handled' = NoFrame
    BY <1>1, <1>2, <2>1 DEF ai_link_rx_byte, rx_sync0, rx_sync1, rx_len, rx_type, rx_pay, rx_crc
  <2> QED
    BY <1>0, <1>2, <2>2 DEF InStep
<1>3. CASE pos = 1 /\ s_st = "SYNC1"
  <2>1. b = Sync1
    <3>1. pos + 1 = 2
      BY <1>3
    <3>2. Wire[f][2] = Sync1
      BY WireShape
    <3> QED
      BY <3>1, <3>2
  <2>2. s_st' = "LEN" /\ handled' = NoFrame
    BY <1>1, <1>3, <2>1 DEF ai_link_rx_byte, rx_sync0, rx_sync1, rx_len, rx_type, rx_pay, rx_crc
  <2> QED
    BY <1>0, <1>3, <2>2 DEF InStep
<1>4. CASE pos = 2 /\ s_st = "LEN"
  <2>1. b = n
    <3>1. pos + 1 = 3
      BY <1>4
    <3>2. Wire[f][3] = n
      BY WireShape
    <3> QED
      BY <3>1, <3>2
  <2>2. s_st' = "TYPE" /\ s_len' = n /\ handled' = NoFrame
    BY <1>1, <1>4, <2>1 DEF ai_link_rx_byte, rx_sync0, rx_sync1, rx_len, rx_type, rx_pay, rx_crc
  <2> QED
    BY <1>0, <1>4, <2>2 DEF InStep
<1>5. CASE pos = 3 /\ s_st = "TYPE" /\ s_len = Len(cur.pay)
  <2>1. b = f.type /\ cur = f /\ s_len = n
    <3>1. pos + 1 = 4
      BY <1>5
    <3>2. Wire[f][4] = f.type
      BY WireShape
    <3> QED
      BY <1>0, <1>5, <3>1, <3>2
  <2>2. rx_type(b)
    BY <1>1, <1>5 DEF ai_link_rx_byte, rx_sync0, rx_sync1, rx_len, rx_type, rx_pay, rx_crc
  <2>3. s_pay = <<>>
    BY <1>5 DEF ParserTypeOK
  <2>4. /\ s_st' = IF n = 0 THEN "CRC" ELSE "PAY"
        /\ s_len' = n /\ s_type' = f.type /\ s_pay' = <<>> /\ handled' = NoFrame
    BY <1>0, <2>1, <2>2, <2>3 DEF rx_type
  <2>5. pos' = 4 /\ cur' = f /\ lost' = lost
    BY <1>0, <1>5
  <2>6. Len(s_pay') = 0
    BY <2>4, EmptySeq
  <2> QED
    BY <1>0, <2>4, <2>5, <2>6 DEF InStep
<1>6. CASE /\ pos >= 4
           /\ s_st = IF pos = Len(cur.pay) + 4 THEN "CRC" ELSE "PAY"
           /\ s_len = Len(cur.pay)
           /\ s_type = cur.type
           /\ Len(s_pay) = pos - 4
           /\ \A j \in 1 .. pos - 4 : s_pay[j] = cur.pay[j]
  <2>1. cur = f /\ s_len = n /\ s_type = f.type /\ s_pay \in Seq(Bytes)
    BY <1>0, <1>6 DEF ParserTypeOK
  <2>2. CASE pos = n + 4
    <3>1. s_pay = f.pay
      <4>1. Len(s_pay) = n /\ \A j \in 1 .. n : s_pay[j] = f.pay[j]
        BY <1>0, <1>6, <2>1, <2>2
      <4> QED
        BY <1>0, <2>1, <4>1, SeqEqual
    <3>2. s_st = "CRC" /\ rx_crc(b)
      BY <1>1, <1>6, <2>1, <2>2
         DEF ai_link_rx_byte, rx_sync0, rx_sync1, rx_len, rx_type, rx_pay, rx_crc
    <3>3. b = Crc(<<n, f.type>> \o f.pay)
      <4>1. pos + 1 = n + 5
        BY <1>0, <2>2
      <4> QED
        BY <4>1, WireShape
    <3>4. s_crc_acc = b
      BY <2>1, <3>1, <3>2, <3>3 DEF ParserTypeOK
    <3>5. handled' = [type |-> f.type, pay |-> f.pay] /\ s_st' = "SYNC0"
      BY <2>1, <3>1, <3>2, <3>4 DEF rx_crc, Idle
    <3>6. f = [type |-> f.type, pay |-> f.pay]
      BY FramesAssumption
    <3>7. pos' = 0 /\ lost' = lost
      BY <1>0, <2>2, <3>5, <3>6
    <3> QED
      BY <2>2, <3>5, <3>6, <3>7 DEF InStep
  <2>3. CASE pos # n + 4
    <3>1. s_st = "PAY" /\ rx_pay(b)
      BY <1>1, <1>6, <2>1, <2>3
         DEF ai_link_rx_byte, rx_sync0, rx_sync1, rx_len, rx_type, rx_pay, rx_crc
    <3>2. b = f.pay[pos - 3]
      <4>1. pos - 3 \in 1 .. n /\ (pos - 3) + 4 = pos + 1
        BY <1>0, <1>6, <2>3
      <4> QED
        BY <4>1, WireShape
    <3>3. pos' = pos + 1 /\ cur' = f /\ lost' = lost
      BY <1>0, <2>3
    <3>4. /\ s_len' = n /\ s_type' = f.type /\ s_pay' = Append(s_pay, b)
          /\ handled' = NoFrame
          /\ s_st' = IF pos - 4 + 1 < n THEN "PAY" ELSE "CRC"
      BY <1>0, <1>6, <2>1, <3>1 DEF rx_pay
    <3>5. s_st' = IF pos' = n + 4 THEN "CRC" ELSE "PAY"
      BY <1>0, <2>3, <3>3, <3>4
    <3>6. Len(s_pay') = pos' - 4 /\ \A j \in 1 .. pos' - 4 : s_pay'[j] = f.pay[j]
      <4>1. b \in Bytes
        <5>1. pos + 1 \in 1 .. Len(Wire[f])
          <6>1. Len(Wire[f]) = n + 5
            BY WireShape
          <6> QED
            BY <1>0, <6>1
        <5> QED
          BY <5>1, WireBytes
      <4>2. /\ Len(s_pay') = Len(s_pay) + 1
            /\ \A j \in 1 .. Len(s_pay) : s_pay'[j] = s_pay[j]
            /\ s_pay'[Len(s_pay) + 1] = b
        BY <2>1, <3>4, <4>1, AppendProperties
      <4> HIDE DEF b
      <4> QED
        BY <1>0, <1>6, <2>1, <3>2, <3>3, <4>2
    <3>7. pos' >= 4
      BY <1>0, <1>6, <3>3
    <3> QED
      BY <2>3, <3>3, <3>4, <3>5, <3>6, <3>7 DEF InStep
  <2> QED
    BY <2>2, <2>3
<1> QED
  BY <1>2, <1>3, <1>4, <1>5, <1>6 DEF InStep

(* A parser that waits again: in step at a frame's start, or one more lost. *)
LEMMA Awaiting ==
  ASSUME NEW f \in Frames, Sends(f), lost \in Nat, s_st' = "SYNC0",
         lost + 1 <= (PayloadMax + 6) \div 5
  PROVE  LossIsBounded' /\ (InStep' \/ Missing')
<1> DEFINE n == Len(f.pay)
<1>1. /\ n \in Nat /\ pos \in Nat
      /\ pos' = (IF pos = n + 4 THEN 0 ELSE pos + 1)
      /\ lost' = IF pos = n + 4 /\ handled' # f THEN lost + 1 ELSE lost
  BY WireShape DEF Sends
<1>2. lost' <= (PayloadMax + 6) \div 5
  BY <1>1, PayloadAssumption
<1>3. CASE pos = n + 4
  BY <1>1, <1>2, <1>3 DEF LossIsBounded, InStep
<1>4. CASE pos # n + 4
  <2>1. pos' > 0 /\ lost' = lost
    BY <1>1, <1>4
  <2> QED
    BY <1>2, <2>1 DEF LossIsBounded, Missing
<1> QED
  BY <1>3, <1>4

(* A frame that goes by does not wake a parser that waits inside it. *)
LEMMA MissingKept ==
  ASSUME NoStartInTail, ParserTypeOK, Missing, lost \in Nat, NEW f \in Frames, Sends(f)
  PROVE  LossIsBounded' /\ (InStep' \/ Missing')
<1> DEFINE n == Len(f.pay)
           b == Wire[f][pos + 1]
<1>0. /\ n \in Nat /\ pos \in Nat /\ pos > 0 /\ pos < n + 5 /\ cur = f
      /\ Len(Wire[f]) = n + 5
      /\ pos' = (IF pos = n + 4 THEN 0 ELSE pos + 1) /\ (pos < n + 4 => cur' = f)
      /\ lost' = (IF pos = n + 4 /\ handled' # f THEN lost + 1 ELSE lost)
      /\ ai_link_rx_byte(b)
      /\ lost + 1 <= (PayloadMax + 6) \div 5
  BY WireShape DEF Sends, Missing
<1>1. CASE s_st = "SYNC0" /\ b = Sync0
  <2>1. pos + 1 \in 2 .. Len(Wire[f])
    BY <1>0
  <2>2. pos + 1 < Len(Wire[f])
    BY <1>1, <2>1 DEF NoStartInTail
  <2>3. pos' = pos + 1 /\ cur' = f /\ lost' = lost
    BY <1>0, <2>2
  <2>4. s_st' = "SYNC1"
    BY <1>0, <1>1 DEF ai_link_rx_byte, rx_sync0, rx_sync1, rx_len, rx_type, rx_pay, rx_crc
  <2>5. Missing'
    <3>1. Wire'[cur'][pos'] = Sync0
      BY <1>1, <2>3 DEF Wire, Encode, Covered
    <3> QED
      BY <1>0, <2>3, <2>4, <3>1 DEF Missing
  <2> QED
    BY <1>0, <2>3, <2>5, PayloadAssumption DEF LossIsBounded
<1>2. CASE s_st = "SYNC0" /\ b # Sync0
  <2>1. s_st' = "SYNC0"
    BY <1>0, <1>2 DEF ai_link_rx_byte, rx_sync0, rx_sync1, rx_len, rx_type, rx_pay, rx_crc
  <2> QED
    BY <1>0, <2>1, Awaiting
<1>3. CASE s_st = "SYNC1"
  <2>1. pos \in 2 .. Len(Wire[f]) /\ Wire[f][pos] = Sync0
    BY <1>0, <1>3 DEF Missing
  <2>2. b # Sync1
    BY <2>1 DEF NoStartInTail
  <2>3. s_st' = "SYNC0"
    BY <1>0, <1>3, <2>2 DEF ai_link_rx_byte, rx_sync0, rx_sync1, rx_len, rx_type, rx_pay, rx_crc
  <2> QED
    BY <1>0, <2>3, Awaiting
<1> QED
  BY <1>1, <1>2, <1>3 DEF Missing

(* Out of step, a byte brings the end of the frame that is not there nearer *)
(* at least as fast as whole frames go by.                                 *)
LEMMA LooseKept ==
  ASSUME ParserTypeOK, Loose, lost \in Nat, NEW f \in Frames, Sends(f)
  PROVE  LossIsBounded' /\ (InStep' \/ Loose' \/ Missing')
<1> DEFINE n == Len(f.pay)
           b == Wire[f][pos + 1]
<1>0. /\ n \in Nat /\ pos \in Nat /\ pos < n + 5 /\ lost \in Nat
      /\ pos' = (IF pos = n + 4 THEN 0 ELSE pos + 1)
      /\ lost' = IF pos = n + 4 /\ handled' # f THEN lost + 1 ELSE lost
      /\ PayloadMax \in Nat \ {0} /\ Len(s_pay) \in Nat /\ s_len \in Nat /\ b \in Nat
      /\ Sync0 \in Nat /\ b \in Bytes
  <2>1. pos + 1 \in 1 .. Len(Wire[f])
    <3>1. Len(Wire[f]) = n + 5 /\ n \in Nat
      BY WireShape
    <3> QED
      BY <3>1 DEF Sends
  <2>2. b \in Bytes
    BY <2>1, WireBytes
  <2>3. Len(s_pay) \in Nat
    BY LenProperties DEF ParserTypeOK
  <2>4. s_len \in Nat /\ Sync0 \in Nat
    <3>1. (\A x \in Bytes : x \in Nat) /\ Sync0 \in Bytes
      BY BytesAssumption
    <3>2. s_len \in Bytes \cup {0}
      BY DEF ParserTypeOK
    <3> QED
      BY <3>1, <3>2
  <2>5. b \in Nat
    <3> HIDE DEF b
    <3> QED
      BY <2>2, BytesAssumption
  <2> QED
    BY <2>2, <2>3, <2>4, <2>5, WireShape, PayloadAssumption DEF Sends
<1>1. ai_link_rx_byte(b)
  BY DEF Sends
<1> DEFINE l == Left
           Out == 5 * lost + 5 <= PayloadMax + 6
<1>2. ASSUME s_st' = "SYNC0", Out PROVE LossIsBounded' /\ (InStep' \/ Missing')
  BY <1>0, <1>2, Fits, Awaiting
(* A parser further on in the frame that is not there. *)
<1>3. ASSUME s_st' \in {"TYPE", "PAY", "CRC"}, l \in Nat, l' \in Nat, l' + 1 <= l,
             5 * lost + pos + l <= PayloadMax + 2
      PROVE  LossIsBounded' /\ Loose'
  <2> HIDE DEF l
  <2>1. \/ pos' = pos + 1 /\ lost' = lost
        \/ pos' = 0 /\ pos >= 4 /\ (lost' = lost \/ lost' = lost + 1)
    BY <1>0
  <2>2. lost' \in Nat /\ 5 * lost' <= PayloadMax + 6
    BY <1>0, <1>3, <2>1, WeightAfterByte
  <2>3. LossIsBounded'
    BY <2>2, Fits DEF LossIsBounded
  <2>4. \E a, p, k : a = lost' /\ p = pos' /\ k = l' /\ 5 * a + p + k <= PayloadMax + 2
    <3>1. PICK a, p, k : a = lost' /\ p = pos' /\ k = l'
      OBVIOUS
    <3>2. k \in Nat /\ k + 1 <= l
      BY <1>3, <3>1
    <3>3. \/ p = pos + 1 /\ a = lost
          \/ p = 0 /\ pos >= 4 /\ (a = lost \/ a = lost + 1)
      BY <2>1, <3>1
    <3>4. 5 * lost + pos + l <= PayloadMax + 2 /\ l \in Nat
      BY <1>3
    <3>5. 5 * a + p + k <= PayloadMax + 2
      BY <1>0, <3>2, <3>3, <3>4, WeightAfterByte
    <3> QED
      BY <3>1, <3>5
  <2>5. Loose'
    BY <1>3, <2>4 DEF Loose, l
  <2> QED
    BY <2>3, <2>5
<1>4. CASE rx_sync0(b)
  BY <1>4 DEF rx_sync0, Loose
<1>5. CASE rx_sync1(b)
  <2>1. s_st = "SYNC1" /\ pos = 0 /\ l = 1
    BY <1>5 DEF rx_sync1, Loose, Left
  <2>2. b # Sync1
    <3>1. b = Sync0
      <4>1. pos + 1 = 1
        BY <2>1
      <4>2. Wire[f][1] = Sync0
        BY WireShape
      <4> QED
        BY <4>1, <4>2
    <3> QED
      BY <3>1, SyncAssumption
  <2>3. s_st' = "SYNC0"
    BY <1>5, <2>2 DEF rx_sync1
  <2>4. Out
    BY <1>0, <2>1 DEF Loose
  <2> QED
    BY <1>2, <2>3, <2>4
<1>6. CASE rx_len(b)
  <2>1. s_st = "LEN" /\ pos = 0 /\ l = 2
    BY <1>6 DEF rx_len, Loose, Left
  <2>2. b = Sync0 /\ b > PayloadMax
    <3>1. b = Sync0
      <4>1. pos + 1 = 1
        BY <2>1
      <4>2. Wire[f][1] = Sync0
        BY WireShape
      <4> QED
        BY <4>1, <4>2
    <3> QED
      BY <3>1, SyncAssumption
  <2>3. s_st' = "TYPE" /\ l' = 1
    BY <1>6, <2>2 DEF rx_len, Left
  <2>4. 5 * lost + pos + l <= PayloadMax + 2
    BY <2>1 DEF Loose
  <2> HIDE DEF l
  <2> QED
    BY <1>3, <2>1, <2>3, <2>4
<1>7. CASE rx_type(b)
  <2>1. s_st = "TYPE" /\ 5 * lost + pos + l <= PayloadMax + 2 /\ s_pay = <<>>
    BY <1>7 DEF rx_type, Loose, ParserTypeOK
  <2>2. l = IF s_len > PayloadMax THEN 1 ELSE s_len + 2
    BY <2>1 DEF Left
  <2>3. CASE s_len > PayloadMax
    <3>1. s_st' = "SYNC0"
      BY <1>0, <1>7, <2>3 DEF rx_type, Idle
    <3>2. Out
      <4> HIDE DEF l
      <4> QED
        BY <1>0, <2>1, <2>2, <2>3
    <3> QED
      BY <1>2, <3>1, <3>2
  <2>4. CASE s_len = 0
    <3>1. s_st' = "CRC"
      BY <1>0, <1>7, <2>4 DEF rx_type
    <3>2. l' = 1
      BY <3>1 DEF Left
    <3>3. l = 2
      BY <1>0, <2>2, <2>4
    <3> HIDE DEF l
    <3> QED
      BY <1>3, <2>1, <3>1, <3>2, <3>3
  <2>5. CASE s_len \in 1 .. PayloadMax
    <3>1. s_st' = "PAY" /\ s_len' = s_len /\ s_pay' = <<>>
      BY <1>0, <1>7, <2>1, <2>5 DEF rx_type
    <3>2. Len(s_pay') = 0
      BY <3>1, EmptySeq
    <3>3. l' = s_len + 1
      BY <1>0, <3>1, <3>2 DEF Left
    <3>4. l = s_len + 2
      BY <1>0, <2>2, <2>5
    <3> HIDE DEF l
    <3>5. l \in Nat /\ l' \in Nat /\ l' + 1 <= l
      BY <1>0, <3>3, <3>4
    <3> QED
      BY <1>3, <2>1, <3>1, <3>5
  <2> QED
    BY <1>0, <2>3, <2>4, <2>5
<1>8. CASE rx_pay(b)
  <2>1. s_st = "PAY" /\ 5 * lost + pos + l <= PayloadMax + 2 /\ Len(s_pay) < s_len
    BY <1>8 DEF rx_pay, Loose, ParserTypeOK
  <2>2. l = s_len - Len(s_pay) + 1
    BY <2>1 DEF Left
  <2>3. s_len' = s_len /\ Len(s_pay') = Len(s_pay) + 1
    BY <1>0, <1>8, AppendProperties DEF rx_pay, ParserTypeOK
  <2>4. CASE Len(s_pay) + 1 < s_len
    <3>1. s_st' = "PAY"
      BY <1>0, <1>8, <2>4 DEF rx_pay
    <3>2. l' = s_len - (Len(s_pay) + 1) + 1
      BY <2>3, <3>1 DEF Left
    <3> HIDE DEF l
    <3>3. l \in Nat /\ l' \in Nat /\ l' + 1 <= l
      BY <1>0, <2>1, <2>2, <2>4, <3>2
    <3> QED
      BY <1>3, <2>1, <3>1, <3>3
  <2>5. CASE ~(Len(s_pay) + 1 < s_len)
    <3>1. s_st' = "CRC"
      BY <1>0, <1>8, <2>5 DEF rx_pay
    <3>2. l' = 1
      BY <3>1 DEF Left
    <3> HIDE DEF l
    <3>3. l \in Nat /\ l' + 1 <= l
      <4>1. l >= 2 /\ l \in Nat
        BY <1>0, <2>1, <2>2
      <4> QED
        BY <3>2, <4>1
    <3> QED
      BY <1>3, <2>1, <3>1, <3>2, <3>3
  <2> QED
    BY <2>4, <2>5
<1>9. CASE rx_crc(b)
  <2>1. s_st = "CRC" /\ 5 * lost + pos + l <= PayloadMax + 2 /\ l = 1 /\ s_st' = "SYNC0"
    BY <1>9 DEF rx_crc, Idle, Loose, Left
  <2>2. Out
    <3> HIDE DEF l
    <3> QED
      BY <1>0, <2>1
  <2> QED
    BY <1>2, <2>1, <2>2
<1> QED
  BY <1>1, <1>4, <1>5, <1>6, <1>7, <1>8, <1>9 DEF ai_link_rx_byte

-----------------------------------------------------------------------------
(* The stream's part of TypeOK. *)
StreamTypeOK ==
  /\ link \in {"uart", "net"}
  /\ cur \in Frames \cup {NoFrame}
  /\ pos \in 0 .. PayloadMax + 4
  /\ pos > 0 <=> cur # NoFrame
  /\ settled \in BOOLEAN
  /\ since \in Seq(Bytes)
  /\ lost \in Nat

LEMMA TypeParts == TypeOK <=> ParserTypeOK /\ NetTypeOK /\ StreamTypeOK
BY DEF TypeOK, StreamTypeOK

(* A byte of the sender. *)
LEMMA SentKeeps ==
  ASSUME LinkInv, SentByte, UNCHANGED <<link, settled>>
  PROVE  ParserTypeOK' /\ StreamTypeOK' /\ ShapeInv' /\ Sending'
<1>0. TypeOK /\ ParserTypeOK /\ StreamTypeOK /\ ShapeInv /\ Sending
  BY TypeParts DEF LinkInv
<1>1. PICK f \in Frames : Sends(f) /\ Receive(Wire[f][pos + 1])
                          /\ cur' = IF pos = Len(f.pay) + 4 THEN NoFrame ELSE f
  BY <1>0, SentSends
<1>2. Wire[f][pos + 1] \in Bytes
  <2>1. pos + 1 \in 1 .. Len(Wire[f])
    <3>1. Len(Wire[f]) = Len(f.pay) + 5 /\ Len(f.pay) \in Nat
      BY WireShape
    <3> QED
      BY <1>1, <3>1 DEF Sends
  <2> QED
    BY <2>1, WireBytes
<1>3. since' \in Seq(Bytes) /\ ShapeInv'
  BY <1>0, <1>1, <1>2, ReceiveShape DEF StreamTypeOK
<1>4. ParserTypeOK'
  BY <1>0, <1>1, <1>2, ParserTypes DEF Receive
<1>5. /\ Len(f.pay) \in Nat /\ Len(f.pay) <= PayloadMax /\ PayloadMax \in Nat
      /\ pos \in Nat /\ pos < Len(f.pay) + 5 /\ f # NoFrame
      /\ pos' = IF pos = Len(f.pay) + 4 THEN 0 ELSE pos + 1
      /\ lost \in Nat /\ (lost' = lost \/ lost' = lost + 1)
  <2>1. f # NoFrame
    BY FramesAssumption, NoFrameAssumption
  <2> QED
    BY <1>0, <1>1, <2>1, WireShape, PayloadAssumption DEF Sends, StreamTypeOK
<1>6. StreamTypeOK'
  BY <1>0, <1>1, <1>3, <1>5 DEF StreamTypeOK
<1>7. Sending'
  BY <1>1, <1>5 DEF Sending
<1> QED
  BY <1>3, <1>4, <1>6, <1>7

LEMMA NextLink ==
  ASSUME NetTypeOK', LinkInv, [Next]_vars
  PROVE  LinkInv'
<1>0. ParserTypeOK /\ StreamTypeOK /\ ShapeInv /\ Sending
  BY TypeParts DEF LinkInv
<1> SUFFICES ParserTypeOK' /\ StreamTypeOK' /\ ShapeInv' /\ Sending'
  <2>1. (TypeOK <=> ParserTypeOK /\ NetTypeOK /\ StreamTypeOK)'
    BY TypeParts, PTL
  <2> QED
    BY <2>1 DEF LinkInv
<1>1. CASE UartByte \/ NetFeed
  BY <1>1, SentKeeps DEF UartByte, NetFeed
<1>2. CASE UartNoise
  <2>1. PICK b \in NoiseBytes : Receive(b)
    BY <1>2 DEF UartNoise
  <2>2. b \in Bytes
    BY NoiseAssumption
  <2>3. since' \in Seq(Bytes) /\ ShapeInv'
    BY <1>0, <2>1, <2>2, ReceiveShape DEF StreamTypeOK
  <2>4. ParserTypeOK'
    BY <1>0, <2>1, <2>2, ParserTypes DEF Receive
  <2>5. Disturbed /\ UNCHANGED <<link, settled>>
    BY <1>2 DEF UartNoise
  <2>6. StreamTypeOK'
    BY <1>0, <2>3, <2>5, PayloadAssumption DEF StreamTypeOK, Disturbed
  <2> QED
    BY <2>3, <2>4, <2>5, <2>6 DEF Disturbed, Sending
<1>3. CASE NetClosed
  <2>1. UNCHANGED <<parser, link, settled, since>> /\ Disturbed
    BY <1>3 DEF NetClosed
  <2>2. ParserTypeOK' /\ ShapeInv'
    BY <1>0, <2>1 DEF parser, ParserTypeOK, ShapeInv, HandledIsIntact
  <2>3. StreamTypeOK'
    BY <1>0, <2>1, PayloadAssumption DEF StreamTypeOK, Disturbed
  <2> QED
    BY <2>1, <2>2, <2>3 DEF Disturbed, Sending
<1>4. CASE UNCHANGED <<parser, link, cur, pos, since, lost>> /\ settled' \in BOOLEAN
  <2>1. ParserTypeOK' /\ ShapeInv'
    BY <1>0, <1>4 DEF parser, ParserTypeOK, ShapeInv, HandledIsIntact
  <2>2. StreamTypeOK'
    BY <1>0, <1>4 DEF StreamTypeOK
  <2>3. Sending'
    BY <1>0, <1>4 DEF Sending
  <2> QED
    BY <2>1, <2>2, <2>3
<1>5. CASE Settle \/ UNCHANGED vars \/ StillNet
  <2>1. settled' \in BOOLEAN
    <3>1. settled \in BOOLEAN
      BY <1>0 DEF StreamTypeOK
    <3>2. settled' = TRUE \/ settled' = settled
      BY <1>5, Zenon DEF Settle, vars, StillNet, stream
    <3> QED
      BY <3>1, <3>2, Zenon
  <2> QED
    BY <1>4, <1>5, <2>1 DEF Settle, vars, StillNet, stream
<1>6. UartByte \/ NetFeed \/ UartNoise \/ NetClosed \/ Settle \/ UNCHANGED vars \/ StillNet
  BY DEF Next, NetTick, NetDial, NetSend, NetHangUp, NetTop, NetPort, NetCheck
<1> QED
  BY <1>1, <1>2, <1>3, <1>5, <1>6

LEMMA InitLink == Init => LinkInv
<1> SUFFICES ASSUME Init PROVE LinkInv
  OBVIOUS
<1>1. <<>> \in Seq(Bytes) /\ Len(<<>>) = 0 /\ PayloadMax \in Nat
  BY EmptySeq, PayloadAssumption
<1>2. ParserTypeOK
  BY <1>1 DEF Init, ai_link_init, ParserTypeOK
<1>3. NetTypeOK
  BY InitNet DEF Init, NetInv
<1>4. StreamTypeOK
  <2>1. settled \in BOOLEAN
    BY Zenon DEF Init
  <2> QED
    BY <1>1, <2>1 DEF Init, StreamTypeOK
<1>5. ShapeInv
  BY DEF Init, ai_link_init, ShapeInv, HandledIsIntact
<1>6. Sending
  BY DEF Init, Sending
<1> QED
  BY <1>2, <1>3, <1>4, <1>5, <1>6, TypeParts DEF LinkInv

LEMMA LinkAlways == Spec => []LinkInv
<1>1. Init => LinkInv
  BY InitLink
<1>2. NetInv' => NetTypeOK'
  BY DEF NetInv
<1>3. LinkInv /\ NetInv' /\ [Next]_vars => LinkInv'
  BY <1>2, NextLink
<1> QED
  BY <1>1, <1>3, NetAlways, PTL DEF Spec

(* The variables of the links and of the parser keep their types. *)
THEOREM TypeCorrect == Spec => []TypeOK
<1>1. LinkInv => TypeOK
  BY DEF LinkInv
<1> QED
  BY <1>1, LinkAlways, PTL

(* Whatever the line does, handle_frame sees only a frame that arrived in  *)
(* one piece.                                                              *)
THEOREM IntactHolds == Spec => []HandledIsIntact
<1>1. LinkInv => HandledIsIntact
  BY DEF LinkInv, ShapeInv
<1> QED
  BY <1>1, LinkAlways, PTL

-----------------------------------------------------------------------------
(* What a step does to the stream: a byte of a frame, a disturbance that is *)
(* noise or a cut, or nothing.                                              *)
LEMMA StreamSteps ==
  ASSUME LinkInv, [Next]_vars
  PROVE  \/ \E f \in Frames :
              /\ Sends(f) /\ Calm' = Calm
              /\ cur' = IF pos = Len(f.pay) + 4 THEN NoFrame ELSE f
         \/ Disturbed /\ ~Calm
         \/ UNCHANGED <<parser, cur, pos, lost>> /\ (Calm => Calm')
<1> USE DEF Calm
<1>1. TypeOK /\ Sending
  BY DEF LinkInv
<1>2. CASE UartByte \/ NetFeed
  <2>1. SentByte /\ Calm' = Calm
    BY <1>2 DEF UartByte, NetFeed, FeedOne, net
  <2> QED
    BY <1>1, <2>1, SentSends
<1>3. CASE UartNoise \/ NetClosed
  BY <1>3 DEF UartNoise, NetClosed, PortClosed
<1>4. CASE Settle \/ UNCHANGED vars
  BY <1>4 DEF Settle, vars, stream, net
<1>5. CASE NetTick \/ NetDial \/ NetSend \/ NetHangUp
  BY <1>5 DEF NetTick, NetDial, NetSend, NetHangUp, StillNet, stream, ClockTick, Dial,
              ClientSend, HangUp
<1>6. CASE NetTop \/ NetPort \/ NetCheck
  BY <1>6 DEF NetTop, NetPort, NetCheck, StillNet, stream, PollTop, PortStep, PortAccept,
              PortTimeout, PortReceive, PollCheck
<1> QED
  BY <1>2, <1>3, <1>4, <1>5, <1>6 DEF Next

LEMMA NextLoss ==
  ASSUME NoStartInTail, LinkInv, LinkInv', LossInv, [Next]_vars
  PROVE  LossInv'
<1>1. ParserTypeOK /\ ParserTypeOK' /\ lost \in Nat
  BY DEF LinkInv, TypeOK
<1>2. CASE Disturbed
  BY <1>1, <1>2, DisturbedLoss
<1>3. ASSUME NEW f \in Frames, Sends(f) PROVE LossInv'
  <2>1. CASE InStep
    BY <1>1, <1>3, <2>1, InStepKept DEF LossInv, LossIsBounded
  <2>2. CASE Loose
    BY <1>1, <1>3, <2>2, LooseKept DEF LossInv
  <2>3. CASE Missing
    BY <1>1, <1>3, <2>3, MissingKept DEF LossInv
  <2> QED
    BY <2>1, <2>2, <2>3 DEF LossInv
<1>4. CASE UNCHANGED <<parser, cur, pos, lost>>
  <2>1. LossIsBounded' /\ (InStep' <=> InStep) /\ (Loose' <=> Loose)
    BY <1>4 DEF parser, LossInv, LossIsBounded, InStep, Loose, Left
  <2>2. Missing => Missing'
    BY <1>4 DEF parser, Missing, Wire, Encode, Covered
  <2> QED
    BY <2>1, <2>2 DEF LossInv
<1> QED
  BY <1>2, <1>3, <1>4, StreamSteps

LEMMA InitLoss == Init => LossInv
<1> SUFFICES ASSUME Init PROVE LossInv
  OBVIOUS
<1>1. InStep
  BY DEF Init, ai_link_init, InStep
<1>2. LossIsBounded
  BY Fits, PayloadAssumption DEF Init, LossIsBounded
<1> QED
  BY <1>1, <1>2 DEF LossInv

(* A disturbance costs at most (PayloadMax + 6) \div 5 whole frames, for   *)
(* frames in which a parser out of step cannot find a false start.         *)
THEOREM LossHolds == ASSUME NoStartInTail PROVE Spec => []LossIsBounded
<1>1. LinkInv /\ LinkInv' /\ LossInv /\ [Next]_vars => LossInv'
  BY NextLoss
<1>2. LossInv => LossIsBounded
  BY DEF LossInv
<1> QED
  BY <1>1, <1>2, InitLoss, LinkAlways, PTL DEF Spec

-----------------------------------------------------------------------------
(* Every step of the link is one of the channel's, or none. *)
LEMMA ChannelStep ==
  ASSUME LinkInv, LinkInv', [Next]_vars
  PROVE  [Channel!Next]_Channel!vars
<1>1. ParserTypeOK /\ TypeOK
  BY DEF LinkInv, TypeOK
<1>2. InStep \in BOOLEAN /\ InStep' \in BOOLEAN
  BY Zenon DEF InStep
<1>3. handled' \in [type : Bytes \cup {0}, pay : Seq(Bytes)] \cup {NoFrame}
  BY DEF LinkInv, TypeOK, ParserTypeOK
<1>4. Channel!Receiver
  BY <1>2, <1>3 DEF Channel!Receiver
<1>0. Calm \in BOOLEAN /\ Calm' \in BOOLEAN
  BY DEF Calm, LinkInv, TypeOK
<1>5. CASE Disturbed /\ ~Calm
  BY <1>0, <1>4, <1>5 DEF Disturbed, Channel!Disturb, Channel!Next
<1>6. ASSUME NEW f \in Frames, Sends(f), Calm' = Calm,
             cur' = IF pos = Len(f.pay) + 4 THEN NoFrame ELSE f
      PROVE  Channel!Next
  <2>1. /\ pos = 0 => cur = NoFrame
        /\ pos > 0 => cur = f
        /\ pos \in Nat /\ Len(f.pay) \in Nat /\ f # NoFrame
    <3>1. f # NoFrame
      BY FramesAssumption, NoFrameAssumption
    <3> QED
      BY <1>1, <1>6, <3>1, WireShape DEF TypeOK, Sends
  <2>2. InStep => InStep' /\ handled' = IF pos = Len(f.pay) + 4 THEN f ELSE NoFrame
    BY <1>1, <1>6, InStepKept
  <2>3. CASE pos = Len(f.pay) + 4
    <3>1. Channel!Last
      BY <1>4, <1>6, <2>1, <2>2, <2>3 DEF Channel!Last
    <3> QED
      BY <3>1 DEF Channel!Next
  <2>4. CASE pos # Len(f.pay) + 4
    <3>1. Channel!Byte(f)
      BY <1>4, <1>6, <2>1, <2>2, <2>4 DEF Channel!Byte
    <3> QED
      BY <3>1 DEF Channel!Next
  <2> QED
    BY <2>3, <2>4
<1>7. CASE UNCHANGED <<parser, cur, pos, lost>> /\ (Calm => Calm')
  <2>1. InStep' = InStep
    BY <1>7 DEF parser, InStep
  <2>2. CASE Calm' = Calm
    BY <1>7, <2>1, <2>2 DEF parser, Channel!vars
  <2>3. CASE ~Calm /\ Calm' = TRUE
    BY <1>7, <2>1, <2>3 DEF parser, Channel!CalmDown, Channel!Next
  <2> QED
    BY <1>0, <1>7, <2>2, <2>3
<1> QED
  BY <1>5, <1>6, <1>7, StreamSteps

LEMMA ChannelInit == Init => Channel!Init
<1> SUFFICES ASSUME Init PROVE Channel!Init
  OBVIOUS
<1>1. InStep = TRUE
  BY DEF Init, ai_link_init, InStep
<1>2. Calm = FALSE
  BY DEF Init, Calm
<1> QED
  BY <1>1, <1>2 DEF Init, ai_link_init, Channel!Init

(* ai_link_rx_byte behind either link is a channel of frames: in step it    *)
(* hands over every frame sent, once, whole, and nothing else, until the    *)
(* line is disturbed; for every checksum and whatever the frames carry.     *)
THEOREM ImplementsFrameChannel == Spec => IsFrameChannel
<1>1. LinkInv /\ LinkInv' /\ [Next]_vars => [Channel!Next]_Channel!vars
  BY ChannelStep
<1> QED
  BY <1>1, LinkAlways, ChannelInit, PTL DEF Spec, IsFrameChannel, Channel!Spec
=============================================================================
