--------------------------- MODULE FramingProofs ---------------------------
(***************************************************************************)
(* Proofs about RecvFraming, for every stream and every way to cut it.      *)
(***************************************************************************)
EXTENDS RecvFraming, TLAPS

\* A segment is never read together with what an earlier one left behind.
NothingKept == pc = "idle" => recv_buffer_ = <<>>

\* Nothing is delivered of the piece of the stream that is still to be read.
DeliveredBefore ==
    aligned /\ pc # "aborted" =>
        \A k \in DOMAIN delivered : begin[delivered[k] + 1] <= arrived - Len(recv_buffer_)

\* The inductive invariant.  ReadsInside needs NothingKept, because onMessage
\* tests the length of a segment and not of recv_buffer_; InOrderOnce needs
\* DeliveredBefore.
FramingInv ==
    /\ TypeOK
    /\ NothingKept
    /\ ReadsInside
    /\ StaysAligned
    /\ DeliveredBefore
    /\ InOrderOnce
    /\ AbortsOnly

-----------------------------------------------------------------------------
(* The operators *)

\* The places where packets begin.
LEMMA BeginFacts ==
    ASSUME TypeOK
    PROVE  /\ Len(cmd) \in Nat
           /\ \A i \in 1 .. Len(cmd) + 1 : begin[i] \in Nat
           /\ begin[1] = 0
           /\ \A i, j \in 1 .. Len(cmd) + 1 : i < j => begin[i] < begin[j]
           /\ \A i \in 1 .. Len(cmd) :
                 begin[i + 1] - begin[i] \in HeaderSize .. HeaderSize + MaxBody
<1>1. Len(cmd) \in Nat
  BY DEF TypeOK
<1>2. begin \in Begins(Len(cmd))
  BY DEF TypeOK
<1>3. begin \in [1 .. Len(cmd) + 1 -> 0 .. Len(cmd) * (HeaderSize + MaxBody)]
  BY <1>2 DEF Begins
<1>4. \A i \in 1 .. Len(cmd) + 1 : begin[i] \in 0 .. Len(cmd) * (HeaderSize + MaxBody)
  BY <1>3
<1> QED
  BY <1>1, <1>2, <1>4 DEF Begins

\* What Skip leaves of the newest piece of the stream is its newest piece.
LEMMA DropNewest ==
    ASSUME TypeOK, NEW b, Newest(b), NEW n \in 0 .. Len(b)
    PROVE  Newest(Drop(b, n)) /\ Len(Drop(b, n)) = Len(b) - n
<1>1. arrived \in Nat
  BY BeginFacts DEF TypeOK, StreamLen
<1>2. b \in Seq(Nat) /\ Len(b) \in Nat /\ n \in Nat /\ n <= Len(b)
  BY DEF Newest
<1>3. /\ Drop(b, n) \in Seq(Nat)
      /\ Len(Drop(b, n)) = Len(b) - n
      /\ \A k \in 1 .. Len(b) - n : Drop(b, n)[k] = b[n + k]
  BY <1>2 DEF Drop
<1> QED
  BY <1>1, <1>2, <1>3, SMTT(30) DEF Newest

\* The front of a piece is at one packet only, and PacketOf names it.
LEMMA FrontUnique ==
    ASSUME TypeOK, NEW b, NEW i \in Packets, FrontIs(b, i)
    PROVE  AtPacket(b) /\ PacketOf(b) = i
<1>1. ASSUME NEW j \in Packets, FrontIs(b, j) PROVE j = i
  <2>1. Len(cmd) \in Nat /\ i \in 1 .. Len(cmd) + 1 /\ j \in 1 .. Len(cmd) + 1
    BY BeginFacts DEF Packets
  <2>2. begin[i] \in Nat /\ begin[j] \in Nat
    BY <2>1, BeginFacts
  <2>3. begin[j] = begin[i]
    BY <1>1, <2>2 DEF FrontIs
  <2>4. ~(i < j) /\ ~(j < i)
    BY <2>1, <2>2, <2>3, BeginFacts
  <2> QED
    BY <2>1, <2>4
<1>2. AtPacket(b)
  BY DEF AtPacket
<1>3. (CHOOSE j \in Packets : FrontIs(b, j)) = i
  BY <1>1
<1> QED
  BY <1>2, <1>3 DEF PacketOf

\* The length of a packet is a length that does not wrap.
LEMMA PacketLenType ==
    ASSUME TypeOK, NEW i \in Packets
    PROVE  /\ PacketLen(i) \in HeaderSize .. HeaderSize + MaxBody
           /\ begin[i] \in Nat /\ begin[i + 1] \in Nat
           /\ begin[i + 1] = begin[i] + PacketLen(i)
  BY BeginFacts, FramingAssumption DEF Packets, PacketLen

\* A number that is less than the modulus is its own remainder.
LEMMA SmallMod ==
    ASSUME NEW m \in Nat, NEW a \in Nat, a < m
    PROVE  a % m = a
  OBVIOUS

\* A packet that is not bad is in the buffer as a whole.
LEMMA GoodPacketFits ==
    ASSUME TypeOK, NEW i \in Packets, NEW b, Len(b) \in Nat, ~BadPacket(PacketLen(i), b)
    PROVE  PacketLen(i) <= Len(b)
<1>1. PacketLen(i) - LenSize \in Nat /\ PacketLen(i) - LenSize < SizeMax
  BY PacketLenType, FramingAssumption DEF LenSize
<1>2. UnsignedDiff(PacketLen(i), LenSize) = PacketLen(i) - LenSize
  BY <1>1, SmallMod, FramingAssumption DEF UnsignedDiff
<1> QED
  BY <1>1, <1>2, PacketLenType, FramingAssumption DEF BadPacket, LenSize

-----------------------------------------------------------------------------
(* The steps *)

\* At the head of the loop in an aligned segment, all there is to know of b, h and
\* parsed is what the packet i at the front says.
LEMMA AlignedFront ==
    ASSUME FramingInv, aligned, pc = "loop",
           NEW h \in HeaderOf(recv_buffer_), NEW parsed \in Parses(recv_buffer_)
    PROVE  \E i \in Packets :
              /\ FrontIs(recv_buffer_, i) /\ AtPacket(recv_buffer_)
              /\ PacketOf(recv_buffer_) = i
              /\ h.len = PacketLen(i) /\ h.cmd = cmd[i]
              /\ parsed <=> body[i] # "bad" /\ Len(recv_buffer_) = PacketLen(i)
<1>1. PICK i \in Packets : FrontIs(recv_buffer_, i)
  BY DEF FramingInv, StaysAligned, AtPacket
<1>2. AtPacket(recv_buffer_) /\ PacketOf(recv_buffer_) = i
  BY <1>1, FrontUnique DEF FramingInv
<1>3. h = [len |-> PacketLen(i), cmd |-> cmd[i]]
  BY <1>2 DEF HeaderOf
<1>4. parsed <=> body[i] # "bad" /\ Len(recv_buffer_) = PacketLen(i)
  BY <1>2 DEF Parses
<1> QED
  BY <1>1, <1>2, <1>3, <1>4

\* What a command's handler skips it finds in the buffer.
LEMMA SkippedInside ==
    ASSUME FramingInv, NEW h \in HeaderOf(recv_buffer_), NEW parsed \in BOOLEAN,
           NEW n \in Nat, NEW k \in Skipped(h, parsed, n)
    PROVE  k \in 0 .. n
<1>1. h.len \in Nat /\ h.cmd \in Cmds
  <2>1. CASE AtPacket(recv_buffer_)
    <3>1. PICK i \in Packets : FrontIs(recv_buffer_, i)
      BY <2>1 DEF AtPacket
    <3>2. h = [len |-> PacketLen(i), cmd |-> cmd[i]]
      BY <2>1, <3>1, FrontUnique DEF HeaderOf, FramingInv
    <3>3. PacketLen(i) \in Nat
      BY <3>1, PacketLenType, FramingAssumption DEF FramingInv
    <3>4. cmd[i] \in Cmds
      BY <3>1 DEF FramingInv, TypeOK, Packets
    <3> QED
      BY <3>2, <3>3, <3>4
  <2>2. CASE ~AtPacket(recv_buffer_)
    BY <2>2, FramingAssumption DEF HeaderOf
  <2> QED
    BY <2>1, <2>2
<1>2. CASE h.cmd = "OTHER"
  BY <1>1, <1>2 DEF Skipped
<1>3. CASE h.cmd = "MSG_DATA"
  BY <1>3 DEF Skipped
<1>4. CASE h.cmd = "AUTH_RSP"
  BY <1>4 DEF Skipped
<1> QED
  BY <1>1, <1>2, <1>3, <1>4 DEF Cmds

\* The initial states.
LEMMA InitFraming == Init => FramingInv
<1> SUFFICES ASSUME Init PROVE FramingInv
  OBVIOUS
<1>1. PICK n \in 0 .. MaxPackets : /\ cmd \in [1 .. n -> Cmds] /\ begin \in Begins(n)
                                  /\ body \in [1 .. n -> Bodies]
  BY DEF Init
<1>2. n \in Nat /\ cmd \in Seq(Cmds) /\ Len(cmd) = n
  BY <1>1, FramingAssumption
<1>3. begin[n + 1] \in Nat
  <2>1. begin \in [1 .. n + 1 -> 0 .. n * (HeaderSize + MaxBody)]
    BY <1>1 DEF Begins
  <2> QED
    BY <1>2, <2>1
<1>4. TypeOK
  BY <1>1, <1>2, <1>3 DEF Init, TypeOK, Newest, StreamLen, Packets
<1>5. NothingKept /\ ReadsInside /\ StaysAligned /\ AbortsOnly
  BY DEF Init, NothingKept, ReadsInside, StaysAligned, AbortsOnly
<1>6. DeliveredBefore /\ InOrderOnce
  BY DEF Init, DeliveredBefore, InOrderOnce
<1> QED
  BY <1>4, <1>5, <1>6 DEF FramingInv

\* A segment.
LEMMA ReceiveFraming ==
    ASSUME FramingInv, NEW n \in 1 .. StreamLen - arrived, Receive(n)
    PROVE  FramingInv'
<1>1. /\ pc = "idle" /\ recv_buffer_ = <<>> /\ arrived \in Nat /\ StreamLen \in Nat
      /\ n \in Nat /\ n > 0 /\ arrived + n <= StreamLen
  BY BeginFacts DEF FramingInv, TypeOK, NothingKept, Receive, StreamLen
<1>2. /\ arrived' = arrived + n
      /\ cmd' = cmd /\ begin' = begin /\ body' = body /\ recv_cb_' = recv_cb_ /\ delivered' = delivered
  BY DEF Receive, server
<1>3. aligned' = (aligned /\ \E i \in Packets : begin[i] = arrived) /\ single' \in BOOLEAN
  BY DEF Receive
<1>4. \/ n <= HeaderSize /\ recv_buffer_' = <<>> /\ pc' = "idle"
      \/ /\ n > HeaderSize /\ pc' = "loop"
         /\ recv_buffer_' = [k \in 1 .. n |-> arrived + k]
  <2>1. <<>> \o [k \in 1 .. n |-> arrived + k] = [k \in 1 .. n |-> arrived + k]
    BY <1>1
  <2> QED
    BY <1>1, <2>1, FramingAssumption DEF Receive
<1>5. Newest(recv_buffer_)'
  <2>1. CASE n <= HeaderSize
    <3>1. recv_buffer_' = <<>>
      BY <1>1, <1>4, <2>1, FramingAssumption
    <3> QED
      BY <1>1, <1>2, <3>1 DEF Newest
  <2>2. CASE n > HeaderSize
    <3>1. recv_buffer_' = [k \in 1 .. n |-> arrived + k]
      BY <1>1, <1>4, <2>2, FramingAssumption
    <3>2. recv_buffer_' \in Seq(Nat) /\ Len(recv_buffer_') = n
      BY <1>1, <3>1
    <3>3. \A k \in 1 .. n : recv_buffer_'[k] = arrived + k
      BY <3>1
    <3> QED
      BY <1>1, <1>2, <3>2, <3>3 DEF Newest
  <2> QED
    BY <1>1, <2>1, <2>2, FramingAssumption
<1>6. TypeOK'
  BY <1>1, <1>2, <1>3, <1>4, <1>5 DEF FramingInv, TypeOK, StreamLen, Packets
<1>7. NothingKept' /\ ReadsInside' /\ AbortsOnly'
  BY <1>1, <1>4, FramingAssumption DEF NothingKept, ReadsInside, AbortsOnly
<1>8. StaysAligned'
  <2> SUFFICES ASSUME aligned', pc' = "loop" PROVE AtPacket(recv_buffer_)'
    BY DEF StaysAligned
  <2>1. PICK i \in Packets : begin[i] = arrived
    BY <1>3
  <2>2. recv_buffer_' # <<>> /\ recv_buffer_'[1] = begin[i] + 1
    BY <1>1, <1>4, <2>1
  <2> QED
    BY <1>2, <2>1, <2>2 DEF AtPacket, FrontIs, Packets
<1>9. InOrderOnce'
  BY <1>2, <1>3 DEF FramingInv, InOrderOnce
<1>10. DeliveredBefore'
  <2> SUFFICES ASSUME aligned', NEW k \in DOMAIN delivered
               PROVE  begin[delivered[k] + 1] <= arrived' - Len(recv_buffer_')
    BY <1>2 DEF DeliveredBefore
  <2>1. begin[delivered[k] + 1] <= arrived - Len(recv_buffer_)
    BY <1>1, <1>3 DEF FramingInv, DeliveredBefore
  <2>2. Len(recv_buffer_') \in 0 .. n /\ Len(recv_buffer_) = 0
    BY <1>1, <1>4
  <2>3. delivered[k] + 1 \in 1 .. Len(cmd) + 1
    BY BeginFacts DEF FramingInv, TypeOK
  <2>4. begin[delivered[k] + 1] \in Nat
    BY <2>3, BeginFacts DEF FramingInv
  <2> QED
    BY <1>1, <1>2, <2>1, <2>2, <2>4
<1> QED
  BY <1>6, <1>7, <1>8, <1>9, <1>10 DEF FramingInv

\* The loop is left.
LEMMA DiscardFraming ==
    ASSUME FramingInv, Discard
    PROVE  FramingInv'
<1>1. /\ pc' = "idle" /\ recv_buffer_' = <<>>
      /\ UNCHANGED <<cmd, begin, body, recv_cb_, arrived, delivered, aligned, single>>
  BY DEF Discard, End, server
<1>2. arrived \in Nat /\ Len(recv_buffer_) \in Nat /\ pc = "loop"
  BY BeginFacts DEF FramingInv, TypeOK, StreamLen, Newest, Discard
<1>3. TypeOK'
  BY <1>1, <1>2 DEF FramingInv, TypeOK, Newest, StreamLen, Packets
<1>4. NothingKept' /\ ReadsInside' /\ AbortsOnly' /\ StaysAligned'
  BY <1>1 DEF NothingKept, ReadsInside, AbortsOnly, StaysAligned
<1>5. InOrderOnce'
  BY <1>1 DEF FramingInv, InOrderOnce
<1>6. DeliveredBefore'
  <2> SUFFICES ASSUME aligned, NEW k \in DOMAIN delivered
               PROVE  begin[delivered[k] + 1] <= arrived
    BY <1>1, <1>2 DEF DeliveredBefore
  <2>1. begin[delivered[k] + 1] <= arrived - Len(recv_buffer_)
    BY <1>2 DEF FramingInv, DeliveredBefore
  <2>2. delivered[k] + 1 \in 1 .. Len(cmd) + 1
    BY BeginFacts DEF FramingInv, TypeOK
  <2>3. begin[delivered[k] + 1] \in Nat
    BY <2>2, BeginFacts DEF FramingInv
  <2> QED
    BY <1>2, <2>1, <2>3
<1> QED
  BY <1>3, <1>4, <1>5, <1>6 DEF FramingInv

\* The loop's body.
LEMMA HandleFraming ==
    ASSUME FramingInv, Handle
    PROVE  FramingInv'
<1> DEFINE b == recv_buffer_
           rest == Drop(b, HeaderSize)
<1>0. PICK h \in HeaderOf(b), parsed \in Parses(b) :
        /\ ~BadPacket(h.len, b)
        /\ delivered' = IF Seen(h.cmd, parsed) THEN Append(delivered, PacketOf(b)) ELSE delivered
        /\ \E k \in Skipped(h, parsed, Len(rest)) :
              IF ResetLen(h.len, b) = Len(rest) - k
              THEN GoOn(Drop(rest, k))
              ELSE pc' = "aborted" /\ recv_buffer_' = b
  BY DEF Handle
<1>1. PICK k \in Skipped(h, parsed, Len(rest)) :
           IF ResetLen(h.len, b) = Len(rest) - k
           THEN GoOn(Drop(rest, k))
           ELSE pc' = "aborted" /\ recv_buffer_' = b
  BY <1>0
<1>2. pc = "loop" /\ UNCHANGED <<cmd, begin, body, recv_cb_, arrived, aligned, single>>
  BY DEF Handle, server
<1>3. /\ Newest(b) /\ Len(b) \in Nat /\ Len(b) >= HeaderSize
      /\ arrived \in Nat /\ StreamLen \in Nat /\ HeaderSize \in Nat /\ HeaderSize > 0
  BY <1>2, BeginFacts, FramingAssumption DEF FramingInv, TypeOK, StreamLen, Newest, ReadsInside
<1>4. Newest(rest) /\ Len(rest) = Len(b) - HeaderSize
  BY <1>3, DropNewest DEF FramingInv
<1>5. k \in 0 .. Len(rest)
  <2>1. parsed \in BOOLEAN
    BY DEF Parses
  <2>2. Len(rest) \in Nat
    BY <1>3, <1>4
  <2> QED
    BY <2>1, <2>2, SkippedInside
<1> DEFINE left == Drop(rest, k)
<1>6. Newest(left) /\ Len(left) = Len(b) - HeaderSize - k
  <2>1. Newest(left) /\ Len(left) = Len(rest) - k
    BY <1>4, <1>5, DropNewest DEF FramingInv
  <2> QED
    BY <1>3, <1>4, <1>5, <2>1
<1>7. \/ pc' = "idle" /\ recv_buffer_' = <<>> /\ ResetLen(h.len, b) = Len(left)
      \/ /\ pc' = "loop" /\ recv_buffer_' = left /\ Len(left) >= HeaderSize
         /\ ResetLen(h.len, b) = Len(left)
      \/ pc' = "aborted" /\ recv_buffer_' = b /\ ResetLen(h.len, b) # Len(left)
  <2>1. CASE ResetLen(h.len, b) = Len(rest) - k
    <3>1. GoOn(left) /\ ResetLen(h.len, b) = Len(left)
      BY <1>1, <1>3, <1>4, <1>5, <1>6, <2>1
    <3>2. CASE Len(left) < HeaderSize
      BY <3>1, <3>2 DEF GoOn, End
    <3>3. CASE ~(Len(left) < HeaderSize)
      <4>1. pc' = "loop" /\ recv_buffer_' = left
        BY <3>1, <3>3 DEF GoOn
      <4> QED
        BY <1>3, <1>4, <1>5, <1>6, <3>1, <3>3, <4>1
    <3> QED
      BY <3>2, <3>3
  <2>2. CASE ResetLen(h.len, b) # Len(rest) - k
    BY <1>1, <1>3, <1>4, <1>5, <1>6, <2>2
  <2> QED
    BY <2>1, <2>2
<1>8. TypeOK'
  <2>1. Newest(recv_buffer_)'
    <3>1. Newest(<<>>)
      BY <1>3 DEF Newest
    <3>2. Newest(recv_buffer_')
      BY <1>3, <1>6, <1>7, <3>1
    <3> QED
      BY <1>2, <3>2 DEF Newest
  <2>2. PacketOf(b) \in 0 .. Len(cmd)
    BY BeginFacts, SMTT(30) DEF PacketOf, AtPacket, Packets, FramingInv
  <2>3. delivered' \in Seq(0 .. Len(cmd))
    <3>1. CASE Seen(h.cmd, parsed)
      BY <1>0, <2>2, <3>1 DEF FramingInv, TypeOK
    <3>2. CASE ~Seen(h.cmd, parsed)
      BY <1>0, <3>2 DEF FramingInv, TypeOK
    <3> QED
      BY <3>1, <3>2
  <2> QED
    BY <1>2, <1>7, <2>1, <2>3 DEF FramingInv, TypeOK, StreamLen, Packets
<1>9. NothingKept' /\ ReadsInside'
  BY <1>2, <1>7 DEF NothingKept, ReadsInside
<1>10. CASE ~aligned
  BY <1>2, <1>8, <1>9, <1>10
     DEF FramingInv, StaysAligned, DeliveredBefore, InOrderOnce, AbortsOnly
<1>11. CASE aligned
  <2>1. PICK i \in Packets :
          /\ FrontIs(b, i) /\ AtPacket(b) /\ PacketOf(b) = i
          /\ h.len = PacketLen(i) /\ h.cmd = cmd[i]
          /\ parsed <=> body[i] # "bad" /\ Len(b) = PacketLen(i)
    BY <1>2, <1>11, AlignedFront
  <2>2. /\ PacketLen(i) \in Nat /\ PacketLen(i) >= HeaderSize /\ PacketLen(i) <= Len(b)
        /\ begin[i] \in Nat /\ begin[i + 1] \in Nat /\ begin[i + 1] = begin[i] + PacketLen(i)
        /\ begin[i] = arrived - Len(b)
    <3>1. PacketLen(i) <= Len(b)
      BY <1>0, <1>3, <2>1, GoodPacketFits DEF FramingInv
    <3>2. begin[i] + 1 = arrived - Len(b) + 1
      BY <1>3, <2>1 DEF FrontIs, Newest
    <3> QED
      BY <1>3, <3>1, <3>2, PacketLenType, FramingAssumption DEF FramingInv
  <2>3. ResetLen(h.len, b) = Len(b) - PacketLen(i)
    BY <1>3, <2>1, <2>2 DEF ResetLen, LenSize
  <2>4. \A d \in DOMAIN delivered :
           /\ delivered[d] \in Packets
           /\ delivered[d] < i
           /\ begin[delivered[d] + 1] <= begin[i]
    <3> TAKE d \in DOMAIN delivered
    <3>1. begin[delivered[d] + 1] <= begin[i]
      BY <1>2, <1>11, <2>2 DEF FramingInv, DeliveredBefore
    <3>2. delivered[d] \in Packets /\ Len(cmd) \in Nat
      BY <1>11, BeginFacts DEF FramingInv, TypeOK, InOrderOnce, Packets
    <3>3. ~(i < delivered[d] + 1)
      <4>1. i \in 1 .. Len(cmd) + 1 /\ delivered[d] + 1 \in 1 .. Len(cmd) + 1
        BY <3>2 DEF Packets
      <4>2. begin[delivered[d] + 1] \in Nat
        BY <4>1, BeginFacts DEF FramingInv
      <4>3. i < delivered[d] + 1 => begin[i] < begin[delivered[d] + 1]
        BY <4>1, BeginFacts DEF FramingInv
      <4> QED
        BY <2>2, <3>1, <4>2, <4>3
    <3> QED
      BY <3>1, <3>2, <3>3 DEF Packets
  <2>5. StaysAligned'
    <3> SUFFICES ASSUME pc' = "loop" PROVE AtPacket(recv_buffer_)'
      BY DEF StaysAligned
    <3>1. recv_buffer_' = left /\ Len(left) >= HeaderSize /\ Len(left) = Len(b) - PacketLen(i)
      BY <1>7, <2>3
    <3>2. left # <<>> /\ left[1] = begin[i + 1] + 1 /\ begin[i + 1] < StreamLen
      <4>1. left \in Seq(Nat) /\ Len(left) > 0 /\ left[1] = arrived - Len(left) + 1
        BY <1>3, <1>6, <3>1 DEF Newest
      <4>2. arrived - Len(left) = begin[i + 1]
        BY <1>3, <2>2, <3>1
      <4>3. arrived <= StreamLen
        BY <1>3 DEF FramingInv, TypeOK
      <4> QED
        BY <1>3, <2>2, <4>1, <4>2, <4>3
    <3>3. i + 1 \in Packets
      BY <2>2, <3>2, BeginFacts DEF FramingInv, Packets, StreamLen
    <3> QED
      BY <1>2, <3>1, <3>2, <3>3 DEF AtPacket, FrontIs, Packets
  <2>6. ASSUME NEW e \in DOMAIN delivered'
        PROVE  \/ e \in DOMAIN delivered /\ delivered'[e] = delivered[e]
               \/ /\ e = Len(delivered) + 1 /\ DOMAIN delivered = 1 .. Len(delivered)
                  /\ delivered'[e] = i /\ Seen(h.cmd, parsed)
    BY <1>0, <2>1, <2>6 DEF FramingInv, TypeOK
  <2>7. DeliveredBefore'
    <3> SUFFICES ASSUME pc' # "aborted", NEW e \in DOMAIN delivered'
                 PROVE  begin[delivered'[e] + 1] <= arrived - Len(recv_buffer_')
      BY <1>2 DEF DeliveredBefore
    <3>1. Len(left) = Len(b) - PacketLen(i) /\ (recv_buffer_' = left \/ recv_buffer_' = <<>>)
      BY <1>7, <2>3
    <3>2. Len(recv_buffer_') \in Nat /\ begin[i + 1] <= arrived - Len(recv_buffer_')
      BY <1>3, <2>2, <3>1
    <3>3. CASE e \in DOMAIN delivered /\ delivered'[e] = delivered[e]
      <4>1. begin[delivered'[e] + 1] <= begin[i] /\ delivered[e] \in Packets
        BY <2>4, <3>3
      <4>2. begin[delivered'[e] + 1] \in Nat
        BY <3>3, <4>1, BeginFacts DEF FramingInv, Packets
      <4> QED
        BY <1>3, <2>2, <3>2, <4>1, <4>2
    <3>4. CASE delivered'[e] = i
      BY <3>2, <3>4
    <3> QED
      BY <2>6, <3>3, <3>4
  <2>8. InOrderOnce'
    <3>1. i # 0 /\ (Seen(h.cmd, parsed) => cmd[i] \in {"AUTH_RSP", "MSG_DATA"})
      BY <2>1, BeginFacts DEF Seen, Packets, FramingInv
    <3>2. ASSUME NEW e \in DOMAIN delivered'
          PROVE  delivered'[e] # 0 /\ cmd[delivered'[e]] \in {"AUTH_RSP", "MSG_DATA"}
      BY <1>11, <2>6, <3>1 DEF FramingInv, InOrderOnce
    <3>3. ASSUME NEW d \in DOMAIN delivered', NEW e \in DOMAIN delivered', d < e
          PROVE  delivered'[d] < delivered'[e]
      <4>1. CASE e \in DOMAIN delivered /\ delivered'[e] = delivered[e]
        <5>1. d \in DOMAIN delivered /\ delivered'[d] = delivered[d]
          BY <2>6, <3>3, <4>1 DEF FramingInv, TypeOK
        <5> QED
          BY <1>11, <3>3, <4>1, <5>1 DEF FramingInv, InOrderOnce
      <4>2. CASE e = Len(delivered) + 1 /\ delivered'[e] = i
        <5>1. d \in DOMAIN delivered /\ delivered'[d] = delivered[d]
          BY <2>6, <3>3, <4>2 DEF FramingInv, TypeOK
        <5> QED
          BY <2>4, <4>2, <5>1
      <4> QED
        BY <2>6, <4>1, <4>2
    <3> QED
      BY <1>2, <3>2, <3>3 DEF InOrderOnce
  <2>9. AbortsOnly'
    <3> SUFFICES ASSUME pc' = "aborted", ~(Len(b) > PacketLen(i)),
                        ~(cmd[i] = "AUTH_RSP" /\ body[i] # "plain")
                 PROVE  cmd[i] = "MSG_DATA" /\ BodyLen(i) > 0
      BY <1>2, <1>7, <2>1 DEF AbortsOnly, FrontIs, PacketLen, BodyLen, Packets
    <3>1. Len(b) = PacketLen(i) /\ Len(rest) = PacketLen(i) - HeaderSize
      <4>1. Len(b) = PacketLen(i)
        BY <1>3, <2>2
      <4> QED
        BY <1>3, <1>4, <4>1
    <3>2. k # Len(rest)
      BY <1>3, <1>4, <1>6, <1>7, <2>2, <2>3, <3>1
    <3>3. cmd[i] # "OTHER"
      <4> SUFFICES ASSUME h.cmd = "OTHER" PROVE FALSE
        BY <2>1
      <4>1. k = IF h.len < Len(rest) THEN h.len ELSE Len(rest)
        BY DEF Skipped
      <4> QED
        BY <1>3, <2>1, <2>2, <3>1, <3>2, <4>1
    <3>4. cmd[i] # "AUTH_RSP"
      <4> SUFFICES ASSUME cmd[i] = "AUTH_RSP" PROVE FALSE
        OBVIOUS
      <4>1. body[i] = "plain" /\ parsed
        BY <2>1, <3>1
      <4>2. k \in {Len(rest)}
        BY <2>1, <4>1 DEF Skipped
      <4> QED
        BY <3>2, <4>2
    <3>5. cmd[i] \in Cmds
      BY DEF FramingInv, TypeOK, Packets
    <3>6. Len(rest) > 0
      <4>1. k = 0
        BY <2>1, <3>3, <3>4, <3>5 DEF Skipped, Cmds
      <4> QED
        BY <1>3, <1>4, <3>1, <3>2, <4>1
    <3> QED
      BY <3>1, <3>3, <3>4, <3>5, <3>6 DEF Cmds, BodyLen
  <2> QED
    BY <1>8, <1>9, <2>5, <2>7, <2>8, <2>9 DEF FramingInv
<1> QED
  BY <1>10, <1>11

\* Every step.
LEMMA NextFraming == FramingInv /\ [Next]_vars => FramingInv'
<1> SUFFICES ASSUME FramingInv, [Next]_vars PROVE FramingInv'
  OBVIOUS
<1>1. CASE Discard
  BY <1>1, DiscardFraming
<1>2. CASE Handle
  BY <1>2, HandleFraming
<1>3. CASE \E n \in 1 .. StreamLen - arrived : Receive(n)
  BY <1>3, ReceiveFraming
<1>4. CASE UNCHANGED vars
  BY <1>4 DEF vars, server, FramingInv, TypeOK, Newest, StreamLen, NothingKept, ReadsInside,
              StaysAligned, DeliveredBefore, InOrderOnce, AbortsOnly, AtPacket, FrontIs,
              Packets, PacketLen, BodyLen
<1> QED
  BY <1>1, <1>2, <1>3, <1>4 DEF Next

\* The inductive invariant holds.
LEMMA FramingInvariant == Spec => []FramingInv
  BY InitFraming, NextFraming, PTL DEF Spec

-----------------------------------------------------------------------------
(* Streams cut at every packet *)

Due(i) == /\ cmd[i] = "AUTH_RSP" /\ BodyLen(i) > 0 /\ body[i] # "bad"
          /\ PacketLen(i) < kMaxBufferLen
Answered(i) == \E k \in DOMAIN delivered : delivered[k] = i

\* The packet that the loop has before it is the one that came last, alone.
LoopSingle ==
    single /\ pc = "loop" =>
        \E i \in Packets :
            /\ FrontIs(recv_buffer_, i)
            /\ arrived = begin[i + 1] /\ Len(recv_buffer_) = PacketLen(i)
            /\ \A j \in Packets : begin[j + 1] <= begin[i] /\ Due(j) => Answered(j)

\* AnswersArrive needs to know, while a packet is handled, that those before it
\* have been.
SingleInv ==
    /\ single => aligned
    /\ LoopSingle
    /\ AnswersArrive

\* What ends by the end of packet i is packet i, or ends by its beginning.
LEMMA EndsBefore ==
    ASSUME TypeOK, NEW i \in Packets, NEW j \in Packets, begin[j + 1] <= begin[i + 1], j # i
    PROVE  begin[j + 1] <= begin[i]
<1>1. /\ Len(cmd) \in Nat /\ i \in 1 .. Len(cmd) /\ j \in 1 .. Len(cmd)
      /\ \A m \in 1 .. Len(cmd) + 1 : begin[m] \in Nat
      /\ \A m, n \in 1 .. Len(cmd) + 1 : m < n => begin[m] < begin[n]
  BY BeginFacts DEF Packets
<1>2. i + 1 \in 1 .. Len(cmd) + 1 /\ j + 1 \in 1 .. Len(cmd) + 1 /\ i \in 1 .. Len(cmd) + 1
  BY <1>1
<1>3. ~(i < j)
  <2>1. i < j => i + 1 < j + 1
    BY <1>1
  <2>2. i < j => begin[i + 1] < begin[j + 1]
    BY <1>1, <1>2, <2>1
  <2> QED
    BY <1>1, <1>2, <2>2
<1>4. j + 1 = i \/ j + 1 < i
  BY <1>1, <1>3
<1> QED
  BY <1>1, <1>2, <1>4

LEMMA ReceiveSingle ==
    ASSUME FramingInv, SingleInv, NEW n \in 1 .. StreamLen - arrived, Receive(n)
    PROVE  SingleInv'
<1>1. /\ pc = "idle" /\ recv_buffer_ = <<>> /\ arrived \in Nat /\ n \in Nat /\ n > 0
  BY BeginFacts DEF FramingInv, TypeOK, NothingKept, Receive, StreamLen
<1>2. arrived' = arrived + n /\ UNCHANGED <<cmd, begin, body, recv_cb_, delivered>>
  BY DEF Receive, server
<1>3. single' => /\ single
                 /\ \E i \in Packets : begin[i] = arrived /\ begin[i + 1] = arrived + n
  BY DEF Receive
<1>4. single' => aligned'
  BY <1>3 DEF Receive, SingleInv
<1> SUFFICES ASSUME single' PROVE LoopSingle' /\ AnswersArrive'
  BY <1>4 DEF SingleInv, LoopSingle, AnswersArrive
<1>5. PICK i \in Packets : begin[i] = arrived /\ begin[i + 1] = arrived + n
  BY <1>3
<1>6. PacketLen(i) = n
  BY <1>1, <1>5 DEF PacketLen
<1>7. \A j \in Packets : begin[j + 1] <= begin[i] /\ Due(j) => Answered(j)
  BY <1>1, <1>3, <1>5 DEF SingleInv, AnswersArrive, Due, Answered
<1>8. CASE n <= HeaderSize
  <2>1. pc' = "idle"
    BY <1>1, <1>8 DEF Receive
  <2>2. ~Due(i)
    BY <1>1, <1>6, <1>8, FramingAssumption DEF Due, BodyLen
  <2>3. \A j \in Packets : begin[j + 1] <= begin[i + 1] /\ Due(j) => Answered(j)
    BY <1>7, <2>2, EndsBefore DEF FramingInv
  <2>4. \A j \in Packets : begin[j + 1] <= arrived' /\ Due(j) => Answered(j)
    BY <1>2, <1>5, <2>3
  <2> QED
    BY <1>2, <2>1, <2>4 DEF LoopSingle, AnswersArrive, Due, Answered, Packets, PacketLen, BodyLen
<1>9. CASE n > HeaderSize
  <2>1. pc' = "loop" /\ recv_buffer_' = <<>> \o [m \in 1 .. n |-> arrived + m]
    BY <1>1, <1>9, FramingAssumption DEF Receive
  <2>2. /\ recv_buffer_' = [m \in 1 .. n |-> arrived + m] /\ Len(recv_buffer_') = n
        /\ recv_buffer_' # <<>> /\ recv_buffer_'[1] = begin[i] + 1
    BY <1>1, <1>5, <2>1
  <2>3. FrontIs(recv_buffer_', i) /\ arrived' = begin[i + 1] /\ Len(recv_buffer_') = PacketLen(i)
    BY <1>2, <1>5, <1>6, <2>2 DEF FrontIs
  <2> QED
    BY <1>2, <1>7, <2>1, <2>3 DEF LoopSingle, AnswersArrive, FrontIs, Due, Answered, Packets,
                                  PacketLen, BodyLen
<1> QED
  BY <1>1, <1>8, <1>9, FramingAssumption

LEMMA DiscardSingle ==
    ASSUME FramingInv, SingleInv, Discard
    PROVE  SingleInv'
<1>1. /\ pc = "loop" /\ pc' = "idle"
      /\ UNCHANGED <<cmd, begin, body, recv_cb_, arrived, delivered, aligned, single>>
  BY DEF Discard, End, server
<1> SUFFICES ASSUME single PROVE AnswersArrive'
  BY <1>1 DEF SingleInv, LoopSingle, AnswersArrive
<1>2. PICK i \in Packets :
          /\ FrontIs(recv_buffer_, i)
          /\ arrived = begin[i + 1] /\ Len(recv_buffer_) = PacketLen(i)
          /\ \A j \in Packets : begin[j + 1] <= begin[i] /\ Due(j) => Answered(j)
  BY <1>1 DEF SingleInv, LoopSingle
<1>3. AtPacket(recv_buffer_) /\ PacketOf(recv_buffer_) = i
  BY <1>2, FrontUnique DEF FramingInv
<1>4. BadPacket(PacketLen(i), recv_buffer_) \/ PacketLen(i) >= kMaxBufferLen
  BY <1>3 DEF Discard, HeaderOf
<1>5. ~BadPacket(PacketLen(i), recv_buffer_)
  <2>1. PacketLen(i) - LenSize \in Nat /\ PacketLen(i) - LenSize < SizeMax
    BY PacketLenType, FramingAssumption DEF LenSize, FramingInv
  <2>2. UnsignedDiff(PacketLen(i), LenSize) = PacketLen(i) - LenSize
    BY <2>1, SmallMod, FramingAssumption DEF UnsignedDiff
  <2> QED
    BY <1>2, <2>1, <2>2 DEF BadPacket
<1>6. ~Due(i)
  <2>1. PacketLen(i) \in Nat
    BY PacketLenType, FramingAssumption DEF FramingInv
  <2> QED
    BY <1>4, <1>5, <2>1, FramingAssumption DEF Due
<1>7. \A j \in Packets : begin[j + 1] <= arrived /\ Due(j) => Answered(j)
  BY <1>2, <1>6, EndsBefore DEF FramingInv
<1> QED
  BY <1>1, <1>7 DEF AnswersArrive, Due, Answered, Packets, PacketLen, BodyLen

LEMMA HandleSingle ==
    ASSUME FramingInv, SingleInv, Handle
    PROVE  SingleInv'
<1>1. pc = "loop" /\ UNCHANGED <<cmd, begin, body, recv_cb_, arrived, aligned, single>>
  BY DEF Handle, server
<1> SUFFICES ASSUME single PROVE pc' # "loop" /\ AnswersArrive'
  BY <1>1 DEF SingleInv, LoopSingle, AnswersArrive
<1>2. PICK i \in Packets :
          /\ FrontIs(recv_buffer_, i)
          /\ arrived = begin[i + 1] /\ Len(recv_buffer_) = PacketLen(i)
          /\ \A j \in Packets : begin[j + 1] <= begin[i] /\ Due(j) => Answered(j)
  BY <1>1 DEF SingleInv, LoopSingle
<1>3. AtPacket(recv_buffer_) /\ PacketOf(recv_buffer_) = i
  BY <1>2, FrontUnique DEF FramingInv
<1> DEFINE b == recv_buffer_
           rest == Drop(b, HeaderSize)
<1>4. PICK h \in HeaderOf(b), parsed \in Parses(b) :
        /\ delivered' = IF Seen(h.cmd, parsed) THEN Append(delivered, PacketOf(b)) ELSE delivered
        /\ \E k \in Skipped(h, parsed, Len(rest)) :
              IF ResetLen(h.len, b) = Len(rest) - k
              THEN GoOn(Drop(rest, k))
              ELSE pc' = "aborted" /\ recv_buffer_' = b
  BY DEF Handle
<1>5. h.len = PacketLen(i) /\ h.cmd = cmd[i] /\ (parsed <=> body[i] # "bad")
  <2>1. h = [len |-> PacketLen(i), cmd |-> cmd[i]]
    BY <1>3 DEF HeaderOf
  <2>2. parsed <=> body[i] # "bad" /\ Len(b) = PacketLen(i)
    BY <1>3 DEF Parses
  <2> QED
    BY <1>2, <2>1, <2>2
<1>6. delivered \in Seq(0 .. Len(cmd)) /\ i \in 0 .. Len(cmd)
  BY BeginFacts DEF FramingInv, TypeOK, Packets
<1>7. /\ \A j : Answered(j) => \E k \in DOMAIN delivered' : delivered'[k] = j
      /\ cmd[i] = "AUTH_RSP" /\ body[i] # "bad" => \E k \in DOMAIN delivered' : delivered'[k] = i
  <2>1. CASE Seen(h.cmd, parsed)
    <3>1. delivered' = Append(delivered, i)
      BY <1>3, <1>4, <2>1
    <3>2. /\ DOMAIN delivered' = 1 .. Len(delivered) + 1 /\ Len(delivered) \in Nat
          /\ DOMAIN delivered = 1 .. Len(delivered)
          /\ delivered'[Len(delivered) + 1] = i
          /\ \A k \in 1 .. Len(delivered) : delivered'[k] = delivered[k]
      BY <1>6, <3>1
    <3> QED
      BY <3>2 DEF Answered
  <2>2. CASE ~Seen(h.cmd, parsed)
    <3>1. delivered' = delivered /\ ~(cmd[i] = "AUTH_RSP" /\ body[i] # "bad")
      BY <1>4, <1>5, <2>2 DEF Seen
    <3> QED
      BY <3>1 DEF Answered
  <2> QED
    BY <2>1, <2>2
<1>8. pc' # "loop"
  <2>1. PICK k \in Skipped(h, parsed, Len(rest)) :
               IF ResetLen(h.len, b) = Len(rest) - k
               THEN GoOn(Drop(rest, k))
               ELSE pc' = "aborted" /\ recv_buffer_' = b
    BY <1>4
  <2>2. CASE ResetLen(h.len, b) # Len(rest) - k
    BY <2>1, <2>2
  <2>3. CASE ResetLen(h.len, b) = Len(rest) - k
    <3>1. /\ Newest(b) /\ Len(b) \in Nat /\ Len(b) >= HeaderSize /\ HeaderSize \in Nat \ {0}
      BY <1>1, FramingAssumption DEF FramingInv, TypeOK, Newest, ReadsInside
    <3>2. Newest(rest) /\ Len(rest) = Len(b) - HeaderSize
      BY <3>1, DropNewest DEF FramingInv
    <3>3. Len(rest) \in Nat
      BY <3>1, <3>2
    <3>4. k \in 0 .. Len(rest)
      BY <3>3, SkippedInside DEF Parses
    <3>5. ResetLen(h.len, b) = 0
      BY <1>2, <1>5, <3>1 DEF ResetLen, LenSize
    <3>6. Len(Drop(rest, k)) = Len(rest) - k
      BY <3>2, <3>4, DropNewest DEF FramingInv
    <3>7. Len(Drop(rest, k)) < HeaderSize
      BY <2>3, <3>1, <3>5, <3>6
    <3>8. GoOn(Drop(rest, k))
      BY <2>1, <2>3
    <3> QED
      BY <3>7, <3>8 DEF GoOn, End
  <2> QED
    BY <2>2, <2>3
<1>9. \A j \in Packets : begin[j + 1] <= arrived /\ Due(j) =>
                          \E k \in DOMAIN delivered' : delivered'[k] = j
  <2> TAKE j \in Packets
  <2> HAVE begin[j + 1] <= arrived /\ Due(j)
  <2>1. CASE j = i
    BY <1>7, <2>1 DEF Due
  <2>2. CASE j # i
    BY <1>2, <1>7, <2>2, EndsBefore DEF FramingInv
  <2> QED
    BY <2>1, <2>2
<1> QED
  BY <1>1, <1>8, <1>9 DEF AnswersArrive, Due, Packets, PacketLen, BodyLen

LEMMA InitSingle == Init => SingleInv
<1> SUFFICES ASSUME Init PROVE SingleInv
  OBVIOUS
<1>1. TypeOK
  BY InitFraming DEF FramingInv
<1>2. \A i \in Packets : begin[i + 1] > 0
  <2> TAKE i \in Packets
  <2>1. PacketLen(i) > 0 /\ PacketLen(i) \in Nat /\ begin[i] \in Nat /\ begin[i + 1] = begin[i] + PacketLen(i)
    BY <1>1, PacketLenType, FramingAssumption
  <2> QED
    BY <2>1
<1>3. \A i \in Packets : begin[i + 1] \in Nat
  BY <1>1, PacketLenType
<1> QED
  BY <1>2, <1>3 DEF Init, SingleInv, LoopSingle, AnswersArrive

LEMMA NextSingle == FramingInv /\ SingleInv /\ [Next]_vars => SingleInv'
<1> SUFFICES ASSUME FramingInv, SingleInv, [Next]_vars PROVE SingleInv'
  OBVIOUS
<1>1. CASE Discard
  BY <1>1, DiscardSingle
<1>2. CASE Handle
  BY <1>2, HandleSingle
<1>3. CASE \E n \in 1 .. StreamLen - arrived : Receive(n)
  BY <1>3, ReceiveSingle
<1>4. CASE UNCHANGED vars
  BY <1>4 DEF vars, server, SingleInv, LoopSingle, AnswersArrive, FrontIs, Due, Answered,
              Packets, PacketLen, BodyLen
<1> QED
  BY <1>1, <1>2, <1>3, <1>4 DEF Next

-----------------------------------------------------------------------------
(* The theorems *)

\* The state is of its type, and nothing is missing from the unread bytes.
THEOREM FramingTypeCorrect == Spec => []TypeOK
<1>1. FramingInv => TypeOK
  BY DEF FramingInv
<1> QED
  BY <1>1, FramingInvariant, PTL

\* However the stream is cut, onMessage reads a header only where it has one's worth
\* of bytes.
THEOREM ReadsAlwaysInside == Spec => []ReadsInside
<1>1. FramingInv => ReadsInside
  BY DEF FramingInv
<1> QED
  BY <1>1, FramingInvariant, PTL

\* While segments begin where packets do, onMessage takes no payload for a header.
THEOREM AlwaysAligned == Spec => []StaysAligned
<1>1. FramingInv => StaysAligned
  BY DEF FramingInv
<1> QED
  BY <1>1, FramingInvariant, PTL

\* ... and callbacks get packets of their own kind, in order and at most once.
THEOREM DeliveryInOrder == Spec => []InOrderOnce
<1>1. FramingInv => InOrderOnce
  BY DEF FramingInv
<1> QED
  BY <1>1, FramingInvariant, PTL

\* ... and the assertion on reset_len (client.cpp:197) fails only at a chat message
\* that has a body, at an AUTH_RSP that does not parse or is not as the client would
\* encode it, or at a packet with another behind it.
THEOREM AbortsOnlyThere == Spec => []AbortsOnly
<1>1. FramingInv => AbortsOnly
  BY DEF FramingInv
<1> QED
  BY <1>1, FramingInvariant, PTL

\* While every segment is one packet, an AUTH_RSP whose body is there and parses and
\* which is not too large reaches the login callback.
THEOREM AnswersAlwaysArrive == Spec => []AnswersArrive
<1>1. SingleInv => AnswersArrive
  BY DEF SingleInv
<1> QED
  BY <1>1, FramingInvariant, InitSingle, NextSingle, PTL DEF Spec
=============================================================================
