---------------------------- MODULE RecvFraming ----------------------------
(***************************************************************************)
(* How Client cuts packets out of what TCP hands it: onMessage,             *)
(* onHandleData, and the parsing in onHandleAuthRsp and in ChatManager.     *)
(*                                                                         *)
(* The stream is made of cells: the four bytes of IMHeader.len are one, the *)
(* rest of the header is HeaderSize - 1 more, the last of which holds cmd,  *)
(* and a body is any number.  A cell is named by its place in the stream,   *)
(* so the unread part of recv_buffer_ is a sequence of places; that it may  *)
(* be taken as a sequence is what BufferCalls shows.  Packet i has the      *)
(* places begin[i] + 1 .. begin[i + 1].                                     *)
(***************************************************************************)
EXTENDS Integers, Sequences

CONSTANTS
    HeaderSize,     \* sizeof(IMHeader), in cells
    kMaxBufferLen,  \* in cells
    SizeMax,        \* the size_t that unsigned differences wrap at
    GarbageLens,    \* what four bytes that are not a length may read as
    MaxPackets,     \* bound: the packets the server sends
    MaxBody         \* bound: the cells of a body

ASSUME FramingAssumption ==
    /\ HeaderSize \in Nat \ {0} /\ kMaxBufferLen \in Nat
    /\ MaxPackets \in Nat /\ MaxBody \in Nat
    /\ SizeMax \in Nat /\ HeaderSize + MaxBody < SizeMax
    /\ GarbageLens \subseteq Nat

LenSize == 1   \* sizeof(uint32_t), in cells

Cmds == {"AUTH_RSP", "MSG_DATA", "OTHER"}

\* What protobuf makes of a body: it parses, and is encoded again in as many bytes;
\* it parses, and the encoding of what was parsed may have another length (fields
\* the client does not know, a varint that is longer than need be); it does not
\* parse.
Bodies == {"plain", "odd", "bad"}

VARIABLES
    cmd, begin,    \* the packets the server sends
    body,          \* and what their bodies are
    arrived,       \* how many cells onRead has delivered
    recv_buffer_,  \* the unread part of the buffer
    recv_cb_,      \* has ChatManager a callback?
    pc,            \* "idle", "loop": at the head of the while, or "aborted"
    delivered,     \* the packets given to login_cb_ or recv_cb_; 0 is no packet
    aligned,       \* every segment so far began where a packet does
    single         \* every segment so far was one packet

server == <<cmd, begin, body, recv_cb_>>
vars == <<server, arrived, recv_buffer_, pc, delivered, aligned, single>>

-----------------------------------------------------------------------------
(* Packets and cells *)

Packets   == 1 .. Len(cmd)
StreamLen == begin[Len(cmd) + 1]
PacketLen(i) == begin[i + 1] - begin[i]
BodyLen(i)   == PacketLen(i) - HeaderSize

\* Where n packets may begin, and the last of them end.
Begins(n) ==
    {b \in [1 .. n + 1 -> 0 .. n * (HeaderSize + MaxBody)] :
        /\ b[1] = 0
        /\ \A i, j \in 1 .. n + 1 : i < j => b[i] < b[j]
        /\ \A i \in 1 .. n : b[i + 1] - b[i] \in HeaderSize .. HeaderSize + MaxBody}

Drop(b, n) == SubSeq(b, n + 1, Len(b))

\* Is the front of b the packet i, some packet, and which?
FrontIs(b, i) == b # <<>> /\ b[1] = begin[i] + 1
AtPacket(b)   == \E i \in Packets : FrontIs(b, i)
PacketOf(b)   == IF AtPacket(b) THEN CHOOSE i \in Packets : FrontIs(b, i) ELSE 0

\* What the length and the command at the front of b read as.
HeaderOf(b) ==
    IF AtPacket(b) THEN {[len |-> PacketLen(PacketOf(b)), cmd |-> cmd[PacketOf(b)]]}
                   ELSE [len : GarbageLens, cmd : Cmds]

\* What ParseFromArray may say of all that follows the header at the front of b:
\* a body that is not bad parses when it is alone; with another packet behind
\* it nothing does, for the first byte of that packet's length, 0, is no tag.
Parses(b) ==
    IF AtPacket(b) THEN {body[PacketOf(b)] # "bad" /\ Len(b) = PacketLen(PacketOf(b))}
                   ELSE BOOLEAN

-----------------------------------------------------------------------------
Init ==
    /\ \E n \in 0 .. MaxPackets : cmd \in [1 .. n -> Cmds] /\ begin \in Begins(n)
                              /\ body \in [1 .. n -> Bodies]
    /\ \A i \in Packets :
          /\ body[i] = "odd" => BodyLen(i) > 0 /\ cmd[i] = "AUTH_RSP"
          /\ body[i] = "bad" => BodyLen(i) > 0 /\ cmd[i] # "OTHER"
    /\ recv_cb_ \in BOOLEAN
    /\ arrived = 0
    /\ recv_buffer_ = <<>>
    /\ pc = "idle"
    /\ delivered = <<>>
    /\ aligned = TRUE /\ single = TRUE

\* onMessage with the next n cells: too few are dropped.
Receive(n) ==
    /\ pc = "idle" /\ n \in 1 .. StreamLen - arrived
    /\ arrived' = arrived + n
    /\ IF n <= HeaderSize
       THEN UNCHANGED <<recv_buffer_, pc>>
       ELSE /\ recv_buffer_' = recv_buffer_ \o [k \in 1 .. n |-> arrived + k]
            /\ pc' = "loop"
    /\ aligned' = (aligned /\ \E i \in Packets : begin[i] = arrived)
    /\ single' = (single /\ \E i \in Packets : begin[i] = arrived /\ begin[i + 1] = arrived + n)
    /\ UNCHANGED <<server, delivered>>

\* a - b of unsigned numbers.
UnsignedDiff(a, b) == (a - b) % SizeMax

\* Seeded fault: the length read is taken not to count itself.
BadPacketShort(len, b) == len > Len(b) - LenSize

\* The length read is more than the buffer holds.
BadPacket(len, b) == UnsignedDiff(len, LenSize) > Len(b) - LenSize

\* Seeded fault: the break leaves what it has not understood.
EndKeeps(b) == pc' = "idle" /\ recv_buffer_' = b

\* break, and recv_buffer_->Reset().
End(b) == pc' = "idle" /\ recv_buffer_' = <<>>

\* The loop is left because of the length.
Discard ==
    /\ pc = "loop"
    /\ \E h \in HeaderOf(recv_buffer_) :
          BadPacket(h.len, recv_buffer_) \/ h.len >= kMaxBufferLen
    /\ End(Drop(recv_buffer_, LenSize))
    /\ UNCHANGED <<server, arrived, delivered, aligned, single>>

\* Seeded fault: what is no chat message is taken for an answer.
SeenByDefault(c, parsed) == parsed /\ (c # "MSG_DATA" \/ recv_cb_)

\* Is a message of command c handed to a callback?
Seen(c, parsed) == parsed /\ (c = "AUTH_RSP" \/ (c = "MSG_DATA" /\ recv_cb_))

\* How many cells onHandleData may skip of the n after the header h: none when
\* nothing was parsed, as many as a parsed AUTH_RSP takes when it is encoded again,
\* none of a chat message, and header.len of what it does not know; Skip stops at
\* the end.
Skipped(h, parsed, n) ==
    CASE h.cmd = "OTHER"    -> {IF h.len < n THEN h.len ELSE n}
      [] h.cmd = "MSG_DATA" -> {0}
      [] h.cmd = "AUTH_RSP" -> IF ~parsed THEN {0}
                               ELSE IF AtPacket(recv_buffer_) /\ body[PacketOf(recv_buffer_)] = "plain"
                                    THEN {n}
                               ELSE 0 .. n

\* Seeded fault: the four bytes already read are not counted.
ResetLenOfRest(len, b) == Len(b) - LenSize - len

\* reset_len: what should be left when this packet is done.
ResetLen(len, b) == Len(b) - LenSize - len + LenSize

\* Seeded fault: the loop goes on while anything is left.
GoOnWhileAny(b) == IF b = <<>> THEN End(b) ELSE pc' = "loop" /\ recv_buffer_' = b

\* The end of the loop's body, with b left.
GoOn(b) == IF Len(b) < HeaderSize THEN End(b) ELSE pc' = "loop" /\ recv_buffer_' = b

\* The loop's body for a packet of an acceptable length.  When the assertion on
\* reset_len fails the process aborts, at this packet.
Handle ==
    /\ pc = "loop"
    /\ \E h \in HeaderOf(recv_buffer_), parsed \in Parses(recv_buffer_) :
          LET rest == Drop(recv_buffer_, HeaderSize)
          IN  /\ ~BadPacket(h.len, recv_buffer_) /\ h.len < kMaxBufferLen
              /\ delivered' = IF Seen(h.cmd, parsed)
                              THEN Append(delivered, PacketOf(recv_buffer_)) ELSE delivered
              /\ \E k \in Skipped(h, parsed, Len(rest)) :
                    IF ResetLen(h.len, recv_buffer_) = Len(rest) - k
                    THEN GoOn(Drop(rest, k))
                    ELSE pc' = "aborted" /\ UNCHANGED recv_buffer_
    /\ UNCHANGED <<server, arrived, aligned, single>>

Next == Discard \/ Handle \/ \E n \in 1 .. StreamLen - arrived : Receive(n)

Spec == Init /\ [][Next]_vars

-----------------------------------------------------------------------------
(* Properties *)

\* b is the piece of the stream that arrived last.
Newest(b) ==
    /\ b \in Seq(Nat) /\ Len(b) <= arrived
    /\ \A k \in 1 .. Len(b) : b[k] = arrived - Len(b) + k

\* Type invariant; it includes that nothing is missing from what onMessage has before it.
TypeOK ==
    /\ cmd \in Seq(Cmds) /\ begin \in Begins(Len(cmd)) /\ body \in [Packets -> Bodies]
    /\ recv_cb_ \in BOOLEAN /\ aligned \in BOOLEAN /\ single \in BOOLEAN
    /\ pc \in {"idle", "loop", "aborted"}
    /\ arrived \in 0 .. StreamLen
    /\ Newest(recv_buffer_)
    /\ delivered \in Seq(0 .. Len(cmd))

\* However TCP cuts the stream and whatever is read as a length, the loop reads a
\* header only where there is one's worth of bytes: the assertions of PeekInt32
\* and PeekInt16 (buffer.h:279, 286) hold in onMessage.
ReadsInside == pc = "loop" => Len(recv_buffer_) >= HeaderSize

\* While segments begin where packets do, so does every iteration of the loop: no
\* payload is taken for a header.
StaysAligned == aligned /\ pc = "loop" => AtPacket(recv_buffer_)

\* While segments begin where packets do, callbacks get packets of their own
\* kind, in the order they were sent and none of them twice.
InOrderOnce ==
    aligned =>
        /\ \A k \in DOMAIN delivered :
              delivered[k] # 0 /\ cmd[delivered[k]] \in {"AUTH_RSP", "MSG_DATA"}
        /\ \A j, k \in DOMAIN delivered : j < k => delivered[j] < delivered[k]

\* While every segment is one packet, each AUTH_RSP whose body is there and parses
\* and which is not too large reaches the login callback.
AnswersArrive ==
    single /\ pc = "idle" =>
        \A i \in Packets :
            /\ begin[i + 1] <= arrived
            /\ cmd[i] = "AUTH_RSP" /\ BodyLen(i) > 0 /\ body[i] # "bad"
            /\ PacketLen(i) < kMaxBufferLen
            => \E k \in DOMAIN delivered : delivered[k] = i

\* While segments begin where packets do, the assertion on reset_len fails only at
\* a chat message that has a body, at an AUTH_RSP that does not parse or is not as
\* the client would encode it, or at a packet with another behind it.
AbortsOnly ==
    aligned /\ pc = "aborted" =>
        \E i \in Packets :
            /\ FrontIs(recv_buffer_, i)
            /\ \/ cmd[i] = "MSG_DATA" /\ BodyLen(i) > 0
               \/ cmd[i] = "AUTH_RSP" /\ body[i] # "plain"
               \/ Len(recv_buffer_) > PacketLen(i)

\* client.cpp:197, assert(reset_len == recv_buffer_->length()).
ResetLenHolds == pc # "aborted"
=============================================================================
