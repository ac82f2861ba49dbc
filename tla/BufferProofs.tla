--------------------------- MODULE BufferProofs ---------------------------
(***************************************************************************)
(* Theorems about Buffer, for every set of bytes, every initial size and    *)
(* every sequence of calls, and that it implements the queue of bytes of    *)
(* module ByteQueue.                                                        *)
(*                                                                         *)
(* The lemmas of the second half say what each member function does to the  *)
(* unread bytes, whatever becomes of the storage; the refinement needs one  *)
(* invariant more, GotBehind: after a read that left bytes, what it         *)
(* returned is still in the memory, just before them.                       *)
(***************************************************************************)
EXTENDS BufferCalls, SequenceTheorems, TLAPS

\* Memories of any size.
Memories == UNION {[0 .. n - 1 -> Byte] : n \in Nat}

\* The fields of a Buffer.
Objects == [buffer_ : Memories, capacity_ : Nat, read_index_ : Nat,
            write_index_ : Nat, reserved_prepend_size_ : Nat]

\* b is a Buffer object with its indices in order: what every member function
\* may assume and must leave behind.
IsBuffer(b) ==
    /\ b \in Objects
    /\ b.buffer_ \in [0 .. b.capacity_ - 1 -> Byte]
    /\ b.read_index_ <= b.write_index_
    /\ b.write_index_ <= b.capacity_
    /\ b.reserved_prepend_size_ <= b.capacity_

-----------------------------------------------------------------------------
(* Memory *)

\* memcpy of bytes into a memory leaves a memory of the same size.
LEMMA MemcpyType ==
    ASSUME NEW n \in Nat, NEW m \in [0 .. n - 1 -> Byte], NEW i \in Nat,
           NEW d \in Seq(Byte)
    PROVE  Memcpy(m, i, d) \in [0 .. n - 1 -> Byte]
<1>1. ASSUME NEW k \in 0 .. n - 1
      PROVE  (IF k \in i .. i + Len(d) - 1 THEN d[k - i + 1] ELSE m[k]) \in Byte
    <2>1. CASE k \in i .. i + Len(d) - 1
        <3>1. k - i + 1 \in 1 .. Len(d)
            BY <2>1
        <3>2. QED BY <2>1, <3>1
    <2>2. CASE k \notin i .. i + Len(d) - 1
        BY <2>2
    <2>3. QED BY <2>1, <2>2
<1>2. QED BY <1>1 DEF Memcpy

\* The bytes between two offsets of a memory are a byte string.
LEMMA BytesType ==
    ASSUME NEW n \in Nat, NEW m \in [0 .. n - 1 -> Byte], NEW i \in Nat,
           NEW len \in Nat, i + len <= n
    PROVE  /\ Bytes(m, i, len) \in Seq(Byte)
           /\ Len(Bytes(m, i, len)) = len
<1>1. \A k \in 1 .. len : i + k - 1 \in 0 .. n - 1
    OBVIOUS
<1>2. Bytes(m, i, len) \in [1 .. len -> Byte]
    BY <1>1 DEF Bytes
<1>3. QED BY <1>2

\* The unread bytes of a buffer are a byte string of its length.
LEMMA DataType ==
    ASSUME NEW b, IsBuffer(b)
    PROVE  Data(b) \in Seq(Byte) /\ Len(Data(b)) = Length(b) /\ Length(b) \in Nat
<1>1. Length(b) \in Nat /\ b.read_index_ + Length(b) <= b.capacity_
    BY DEF IsBuffer, Objects, Length
<1>2. QED BY <1>1, BytesType DEF IsBuffer, Objects, Data

\* A byte string a caller passes is one.
LEMMA ChunkType ==
    ASSUME NEW d \in Chunks
    PROVE  d \in Seq(Byte) /\ Len(d) \in Nat
<1>1. PICK n \in Lens : d \in [1 .. n -> Byte]
    BY DEF Chunks
<1>2. n \in Nat
    BY CallsAssumption DEF Lens
<1>3. QED BY <1>1, <1>2

-----------------------------------------------------------------------------
(* The member functions keep a buffer a buffer *)

\* Moving one index of a buffer within its storage.
LEMMA MoveIndex ==
    ASSUME NEW b, IsBuffer(b), NEW r \in Nat, NEW w \in Nat
    PROVE  /\ b.read_index_ <= w /\ w <= b.capacity_ =>
                 IsBuffer([b EXCEPT !.write_index_ = w])
           /\ r <= b.write_index_ => IsBuffer([b EXCEPT !.read_index_ = r])
<1>1. b.read_index_ <= w /\ w <= b.capacity_ =>
         IsBuffer([b EXCEPT !.write_index_ = w])
    <2> DEFINE c == [b EXCEPT !.write_index_ = w]
    <2>1. c \in Objects
        BY DEF IsBuffer, Objects
    <2>2. /\ c.read_index_ = b.read_index_ /\ c.write_index_ = w
          /\ c.buffer_ = b.buffer_ /\ c.capacity_ = b.capacity_
          /\ c.reserved_prepend_size_ = b.reserved_prepend_size_
        BY DEF IsBuffer, Objects
    <2> HIDE DEF c
    <2>3. QED BY <2>1, <2>2 DEF IsBuffer, Objects
<1>2. r <= b.write_index_ => IsBuffer([b EXCEPT !.read_index_ = r])
    <2> DEFINE c == [b EXCEPT !.read_index_ = r]
    <2>1. c \in Objects
        BY DEF IsBuffer, Objects
    <2>2. /\ c.read_index_ = r /\ c.write_index_ = b.write_index_
          /\ c.buffer_ = b.buffer_ /\ c.capacity_ = b.capacity_
          /\ c.reserved_prepend_size_ = b.reserved_prepend_size_
        BY DEF IsBuffer, Objects
    <2> HIDE DEF c
    <2>3. QED BY <2>1, <2>2 DEF IsBuffer, Objects
<1>3. QED BY <1>1, <1>2

\* The constructor.
LEMMA NewIsBuffer ==
    ASSUME NEW size \in Nat, NEW prepend \in Nat
    PROVE  IsBuffer(NewBuffer(size, prepend))
<1>1. NewMemory(prepend + size) \in [0 .. (prepend + size) - 1 -> Byte]
    BY BufferAssumption DEF NewMemory
<1>2. prepend + size \in Nat
    OBVIOUS
<1>3. NewMemory(prepend + size) \in Memories
    BY <1>1, <1>2 DEF Memories
<1>4. QED BY <1>1, <1>2, <1>3 DEF IsBuffer, Objects, NewBuffer

\* The functions that move only the indices.
LEMMA IndexCalls ==
    ASSUME NEW b, IsBuffer(b), NEW n \in Nat
    PROVE  /\ IsBuffer(Truncate(b, n))
           /\ IsBuffer(Skip(b, n))
           /\ CanPeek(b, 1) => IsBuffer(ReadByte(b))
           /\ CanUnread(b, n) => IsBuffer(UnreadBytes(b, n))
           /\ CanUnwrite(b, n) => IsBuffer(UnwriteBytes(b, n))
<1> DEFINE r == b.read_index_
           w == b.write_index_
<1>1. /\ r \in Nat /\ w \in Nat /\ r <= w /\ w <= b.capacity_ /\ b.capacity_ \in Nat
      /\ b.reserved_prepend_size_ \in Nat /\ b.reserved_prepend_size_ <= b.capacity_
    BY DEF IsBuffer, Objects
<1>2. IsBuffer(Reset(b))
    <2> DEFINE c == Reset(b)
    <2>1. /\ c \in Objects /\ c.buffer_ = b.buffer_ /\ c.capacity_ = b.capacity_
          /\ c.read_index_ = b.reserved_prepend_size_
          /\ c.write_index_ = b.reserved_prepend_size_
          /\ c.reserved_prepend_size_ = b.reserved_prepend_size_
        BY DEF IsBuffer, Objects, Reset, Truncate
    <2> HIDE DEF c
    <2>2. IsBuffer(c)
        BY <1>1, <2>1 DEF IsBuffer
    <2>3. QED BY <2>2 DEF c
<1>3. w > r + n => IsBuffer([b EXCEPT !.write_index_ = r + n])
    <2>1. SUFFICES ASSUME w > r + n PROVE IsBuffer([b EXCEPT !.write_index_ = r + n])
        OBVIOUS
    <2>2. r + n \in Nat /\ r <= r + n /\ r + n <= b.capacity_
        BY <1>1, <2>1
    <2>3. QED BY <1>1, <2>2, MoveIndex
<1>4. IsBuffer(Truncate(b, n))
    BY <1>2, <1>3 DEF Reset, Truncate
<1>5. \A k \in Nat : k <= w => IsBuffer([b EXCEPT !.read_index_ = k])
    BY <1>1, MoveIndex
<1>6. IsBuffer(Skip(b, n))
    <2>1. CASE n < Length(b)
        <3>1. r + n \in Nat /\ r + n <= w
            BY <1>1, <2>1 DEF Length
        <3>2. QED BY <1>5, <2>1, <3>1 DEF Skip
    <2>2. CASE ~(n < Length(b))
        BY <1>2, <2>2 DEF Skip
    <2>3. QED BY <2>1, <2>2
<1>7. CanPeek(b, 1) => IsBuffer(ReadByte(b))
    BY <1>1, <1>5 DEF CanPeek, ReadByte, Length
<1>8. CanUnread(b, n) => IsBuffer(UnreadBytes(b, n))
    BY <1>1, <1>5 DEF CanUnread, UnreadBytes
<1>9. CanUnwrite(b, n) => IsBuffer(UnwriteBytes(b, n))
    <2>1. SUFFICES ASSUME CanUnwrite(b, n) PROVE IsBuffer(UnwriteBytes(b, n))
        OBVIOUS
    <2>2. w - n \in Nat /\ r <= w - n /\ w - n <= b.capacity_
        BY <1>1, <2>1 DEF CanUnwrite, Length
    <2>3. QED BY <1>1, <2>2, MoveIndex DEF UnwriteBytes
<1>10. QED BY <1>4, <1>6, <1>7, <1>8, <1>9

\* The branch of grow that allocates.
LEMMA ReallocatedOK ==
    ASSUME NEW b, IsBuffer(b), NEW len \in Nat
    PROVE  /\ IsBuffer(Reallocated(b, len))
           /\ WritableBytes(Reallocated(b, len)) >= len
           /\ Reallocated(b, len).capacity_ = 2 * b.capacity_ + len
<1> DEFINE n == 2 * b.capacity_ + len
           m == Memcpy(NewMemory(n), b.reserved_prepend_size_, Data(b))
<1>1. n \in Nat
    BY DEF IsBuffer, Objects
<1>2. NewMemory(n) \in [0 .. n - 1 -> Byte]
    BY BufferAssumption DEF NewMemory
<1>3. Data(b) \in Seq(Byte) /\ b.reserved_prepend_size_ \in Nat
    BY DataType DEF IsBuffer, Objects
<1>4. m \in [0 .. n - 1 -> Byte]
    BY <1>1, <1>2, <1>3, MemcpyType
<1>5. /\ Length(b) \in Nat /\ Length(b) <= b.capacity_
      /\ b.reserved_prepend_size_ \in Nat /\ b.reserved_prepend_size_ <= b.capacity_
      /\ b.capacity_ \in Nat
    BY DEF IsBuffer, Objects, Length
<1>6. m \in Memories
    BY <1>1, <1>4 DEF Memories
<1> DEFINE c == Reallocated(b, len)
<1>7. /\ c \in Objects /\ c.buffer_ = m /\ c.capacity_ = n
      /\ c.read_index_ = b.reserved_prepend_size_
      /\ c.write_index_ = Length(b) + b.reserved_prepend_size_
      /\ c.reserved_prepend_size_ = b.reserved_prepend_size_
    <2>1. Length(b) + b.reserved_prepend_size_ \in Nat
        BY <1>5
    <2> HIDE DEF n, m
    <2>2. c = [b EXCEPT !.buffer_ = m, !.capacity_ = n,
                        !.read_index_ = b.reserved_prepend_size_,
                        !.write_index_ = Length(b) + b.reserved_prepend_size_]
        BY DEF Reallocated, n, m
    <2> HIDE DEF c
    <2>3. QED BY <1>1, <1>5, <1>6, <2>1, <2>2 DEF IsBuffer, Objects
<1>8. Length(b) + b.reserved_prepend_size_ + len <= n
    BY <1>5
<1> HIDE DEF n, m, c
<1>9. IsBuffer(c) /\ WritableBytes(c) >= len
    BY <1>1, <1>4, <1>5, <1>7, <1>8 DEF IsBuffer, WritableBytes
<1>10. QED BY <1>7, <1>9 DEF c, n

\* The branch of grow that moves the readable bytes to the front.
LEMMA CompactedOK ==
    ASSUME NEW b, IsBuffer(b), NEW len \in Nat, ~MustReallocate(b, len)
    PROVE  /\ IsBuffer(Compacted(b))
           /\ WritableBytes(Compacted(b)) >= len
           /\ Compacted(b).capacity_ = b.capacity_
<1> DEFINE m == Memcpy(b.buffer_, b.reserved_prepend_size_, Data(b))
<1>1. m \in [0 .. b.capacity_ - 1 -> Byte]
    BY DataType, MemcpyType DEF IsBuffer, Objects
<1>2. m \in Memories
    BY <1>1 DEF Memories, IsBuffer, Objects
<1>3. /\ b.capacity_ \in Nat /\ b.reserved_prepend_size_ \in Nat /\ Length(b) \in Nat
      /\ b.reserved_prepend_size_ + Length(b) + len <= b.capacity_
    BY DEF IsBuffer, Objects, MustReallocate, Length, WritableBytes, PrependableBytes
<1> DEFINE c == Compacted(b)
<1>4. /\ c \in Objects /\ c.buffer_ = m /\ c.capacity_ = b.capacity_
      /\ c.read_index_ = b.reserved_prepend_size_
      /\ c.write_index_ = b.reserved_prepend_size_ + Length(b)
      /\ c.reserved_prepend_size_ = b.reserved_prepend_size_
    <2>1. b.reserved_prepend_size_ + Length(b) \in Nat
        BY <1>3
    <2> HIDE DEF m
    <2>2. c = [b EXCEPT !.buffer_ = m, !.read_index_ = b.reserved_prepend_size_,
                        !.write_index_ = b.reserved_prepend_size_ + Length(b)]
        BY DEF Compacted, m
    <2> HIDE DEF c
    <2>3. QED BY <1>2, <2>1, <2>2 DEF IsBuffer, Objects
<1> HIDE DEF m, c
<1>5. IsBuffer(c) /\ WritableBytes(c) >= len
    BY <1>1, <1>3, <1>4 DEF IsBuffer, WritableBytes
<1>6. QED BY <1>4, <1>5 DEF c

\* grow(len) makes room for len bytes and never gives storage back.
LEMMA GrowOK ==
    ASSUME NEW b, IsBuffer(b), NEW len \in Nat
    PROVE  /\ IsBuffer(Grow(b, len))
           /\ WritableBytes(Grow(b, len)) >= len
           /\ MustReallocate(b, len) => Grow(b, len).capacity_ = 2 * b.capacity_ + len
BY ReallocatedOK, CompactedOK DEF Grow

\* EnsureWritableBytes.
LEMMA EnsureOK ==
    ASSUME NEW b, IsBuffer(b), NEW len \in Nat
    PROVE  /\ IsBuffer(EnsureWritableBytes(b, len))
           /\ WritableBytes(EnsureWritableBytes(b, len)) >= len
<1>1. WritableBytes(b) \in Int
    BY DEF IsBuffer, Objects, WritableBytes
<1>2. CASE WritableBytes(b) < len
    BY <1>2, GrowOK DEF EnsureWritableBytes
<1>3. CASE ~(WritableBytes(b) < len)
    BY <1>1, <1>3 DEF EnsureWritableBytes
<1>4. QED BY <1>2, <1>3

\* Reserve, whose call of grow always allocates.
LEMMA ReserveOK ==
    ASSUME NEW b, IsBuffer(b), NEW len \in Nat
    PROVE  /\ IsBuffer(Reserve(b, len))
           /\ Reserve(b, len).capacity_ >= len + b.reserved_prepend_size_
<1> DEFINE more == len + b.reserved_prepend_size_
<1>1. more \in Nat
    BY DEF IsBuffer, Objects
<1>2. CASE b.capacity_ >= more
    BY <1>2 DEF Reserve
<1>3. CASE ~(b.capacity_ >= more)
    <2>1. MustReallocate(b, more)
        BY <1>3 DEF IsBuffer, Objects, MustReallocate, WritableBytes, PrependableBytes
    <2>2. IsBuffer(Grow(b, more)) /\ Grow(b, more).capacity_ = 2 * b.capacity_ + more
        BY <1>1, <2>1, GrowOK
    <2>3. Reserve(b, len) = Grow(b, more)
        BY <1>3 DEF Reserve
    <2>4. b.capacity_ \in Nat
        BY DEF IsBuffer, Objects
    <2>5. 2 * b.capacity_ + more >= more
        BY <1>1, <2>4
    <2>6. QED BY <2>2, <2>3, <2>5
<1>4. QED BY <1>2, <1>3

\* Bytes put behind the readable ones, where there is room for them.
LEMMA FilledOK ==
    ASSUME NEW b, IsBuffer(b), NEW d \in Seq(Byte), CanWriteBytes(b, Len(d))
    PROVE  IsBuffer(Filled(b, d)) /\ Length(Filled(b, d)) = Length(b) + Len(d)
<1> DEFINE m == Memcpy(b.buffer_, b.write_index_, d)
<1>1. m \in [0 .. b.capacity_ - 1 -> Byte]
    BY MemcpyType DEF IsBuffer, Objects
<1>2. m \in Memories
    BY <1>1 DEF Memories, IsBuffer, Objects
<1>3. /\ Len(d) \in Nat /\ b.write_index_ + Len(d) \in Nat
      /\ b.read_index_ <= b.write_index_ + Len(d) /\ b.write_index_ + Len(d) <= b.capacity_
      /\ b.read_index_ \in Nat /\ b.write_index_ \in Nat
    BY DEF CanWriteBytes, WritableBytes, IsBuffer, Objects
<1> DEFINE c == Filled(b, d)
<1>4. /\ c \in Objects /\ c.buffer_ = m /\ c.capacity_ = b.capacity_
      /\ c.read_index_ = b.read_index_ /\ c.write_index_ = b.write_index_ + Len(d)
      /\ c.reserved_prepend_size_ = b.reserved_prepend_size_
    <2> HIDE DEF m
    <2>1. c = [b EXCEPT !.buffer_ = m, !.write_index_ = b.write_index_ + Len(d)]
        BY DEF Filled, m
    <2> HIDE DEF c
    <2>2. QED BY <1>2, <1>3, <2>1 DEF IsBuffer, Objects
<1> HIDE DEF m, c
<1>5. IsBuffer(c) /\ Length(c) = Length(b) + Len(d)
    BY <1>1, <1>3, <1>4 DEF IsBuffer, Length
<1>6. QED BY <1>5 DEF c

\* Write, and so Append and the AppendInts.
LEMMA WriteOK ==
    ASSUME NEW b, IsBuffer(b), NEW d \in Seq(Byte)
    PROVE  IsBuffer(Write(b, d)) /\ Length(Write(b, d)) >= Len(d)
<1> DEFINE e == EnsureWritableBytes(b, Len(d))
<1>1. IsBuffer(e) /\ CanWriteBytes(e, Len(d))
    BY EnsureOK DEF CanWriteBytes, WritableBytes, IsBuffer, Objects
<1>2. IsBuffer(Filled(e, d)) /\ Length(Filled(e, d)) = Length(e) + Len(d)
    BY <1>1, FilledOK
<1>3. Length(e) \in Nat
    BY <1>1, DataType
<1>4. Write(b, d) = Filled(e, d)
    BY DEF Write
<1> HIDE DEF e
<1>5. QED BY <1>2, <1>3, <1>4

\* Prepend, and so the PrependInts.
LEMMA PrependOK ==
    ASSUME NEW b, IsBuffer(b), NEW d \in Seq(Byte), CanPrepend(b, Len(d))
    PROVE  IsBuffer(Prepend(b, d))
<1> DEFINE m == Memcpy(b.buffer_, b.read_index_ - Len(d), d)
<1>1. Len(d) \in Nat /\ b.read_index_ - Len(d) \in Nat
    BY DEF CanPrepend, PrependableBytes, IsBuffer, Objects
<1>2. m \in [0 .. b.capacity_ - 1 -> Byte]
    BY <1>1, MemcpyType DEF IsBuffer, Objects
<1>3. m \in Memories
    BY <1>2 DEF Memories, IsBuffer, Objects
<1>4. b.read_index_ - Len(d) <= b.write_index_
    BY <1>1 DEF IsBuffer, Objects
<1> DEFINE c == Prepend(b, d)
<1>5. /\ c \in Objects /\ c.buffer_ = m /\ c.capacity_ = b.capacity_
      /\ c.read_index_ = b.read_index_ - Len(d) /\ c.write_index_ = b.write_index_
      /\ c.reserved_prepend_size_ = b.reserved_prepend_size_
    <2> HIDE DEF m
    <2>1. c = [b EXCEPT !.buffer_ = m, !.read_index_ = b.read_index_ - Len(d)]
        BY DEF Prepend, m
    <2> HIDE DEF c
    <2>2. QED BY <1>1, <1>3, <2>1 DEF IsBuffer, Objects
<1> HIDE DEF m, c
<1>6. IsBuffer(c)
    BY <1>2, <1>4, <1>5 DEF IsBuffer, Objects
<1>7. QED BY <1>6 DEF c

\* ToText and Shrink, which are made of the others.
LEMMA ComposedCalls ==
    ASSUME NEW b, IsBuffer(b), NEW n \in Nat
    PROVE  IsBuffer(ToText(b, Junk)) /\ IsBuffer(Shrink(b, n))
<1>1. <<Junk>> \in Seq(Byte) /\ Len(<<Junk>>) = 1
    BY BufferAssumption
<1>2. IsBuffer(Write(b, <<Junk>>)) /\ CanUnwrite(Write(b, <<Junk>>), 1)
    BY <1>1, WriteOK DEF CanUnwrite
<1>3. IsBuffer(ToText(b, Junk))
    BY <1>2, IndexCalls DEF ToText
<1>4. IsBuffer(NewBuffer(Length(b) + n, kCheapPrependSize))
    <2>1. Length(b) + n \in Nat /\ kCheapPrependSize \in Nat
        BY DataType, BufferAssumption
    <2>2. QED BY <2>1, NewIsBuffer
<1>5. IsBuffer(Shrink(b, n))
    BY <1>4, DataType, WriteOK DEF Shrink
<1>6. QED BY <1>3, <1>5

-----------------------------------------------------------------------------
(* The theorems *)

\* Every call that respects its assertion leaves a buffer.
LEMMA CallStep ==
    ASSUME IsBuffer(buf), Next
    PROVE  IsBuffer(buf')
<1>1. ASSUME NEW d \in Chunks, CallWrite(d) \/ CallWriteBytes(d) \/ CallPrepend(d)
      PROVE  IsBuffer(buf')
    BY <1>1, ChunkType, WriteOK, FilledOK, PrependOK
       DEF CallWrite, CallWriteBytes, CallPrepend, Called
<1>2. ASSUME NEW n \in Lens,
             \/ CallSkip(n) \/ CallNext(n) \/ CallReadInt(n) \/ CallTruncate(n)
             \/ CallUnwrite(n) \/ CallUnread(n)
      PROVE  IsBuffer(buf')
    <2>1. n \in Nat
        BY CallsAssumption DEF Lens
    <2>2. QED BY <1>2, <2>1, IndexCalls
              DEF CallSkip, CallNext, CallReadInt, CallTruncate, CallUnwrite,
                  CallUnread, Called
<1>3. ASSUME NEW n \in 0 .. MaxRoom,
             CallReserve(n) \/ CallEnsure(n) \/ CallToText(n) \/ CallShrink(n)
      PROVE  IsBuffer(buf')
    <2>1. n \in Nat
        BY CallsAssumption
    <2>2. QED BY <1>3, <2>1, ReserveOK, EnsureOK, ComposedCalls
              DEF CallReserve, CallEnsure, CallToText, CallShrink, Called
<1>4. CASE CallReadByte
    BY <1>4, IndexCalls DEF CallReadByte, Called
<1>5. QED BY <1>1, <1>2, <1>3, <1>4 DEF Next

\* In every reachable state the buffer is well formed.
LEMMA AlwaysBuffer == Spec => []IsBuffer(buf)
<1>1. Init => IsBuffer(buf)
    BY NewIsBuffer, BufferAssumption DEF Init
<1>2. IsBuffer(buf) /\ [Next]_vars => IsBuffer(buf)'
    <2>1. SUFFICES ASSUME IsBuffer(buf), [Next]_vars PROVE IsBuffer(buf')
        BY DEF IsBuffer, Objects
    <2>2. CASE Next
        BY <2>1, <2>2, CallStep
    <2>3. CASE UNCHANGED vars
        BY <2>1, <2>3 DEF vars
    <2>4. QED BY <2>1, <2>2, <2>3
<1>3. QED BY <1>1, <1>2, PTL DEF Spec

\* No sequence of calls whose arguments respect the assertions of buffer.h takes
\* an index of the buffer out of its storage or out of order.
THEOREM BufferAlwaysOK == Spec => []BufferOK
<1>1. IsBuffer(buf) => BufferOK
    BY DEF IsBuffer, Objects, BufferOK
<1>2. QED BY <1>1, AlwaysBuffer, PTL

\* EnsureWritableBytes and Reserve always make the room they are asked for, and
\* the assertions inside grow never fail.
THEOREM BufferGrowSafe == Spec => []GrowSafe
<1>1. IsBuffer(buf) => GrowSafe
    <2>1. SUFFICES ASSUME IsBuffer(buf), NEW n \in 0 .. MaxRoom
                   PROVE  /\ WritableBytes(EnsureWritableBytes(buf, n)) >= n
                          /\ Reserve(buf, n).capacity_ >= n + buf.reserved_prepend_size_
                          /\ WritableBytes(buf) < n /\ ~MustReallocate(buf, n) =>
                                buf.reserved_prepend_size_ < buf.read_index_
        BY DEF GrowSafe
    <2>2. n \in Nat
        BY CallsAssumption
    <2>3. WritableBytes(buf) < n /\ ~MustReallocate(buf, n) =>
              buf.reserved_prepend_size_ < buf.read_index_
        BY <2>1, <2>2 DEF IsBuffer, Objects, MustReallocate, WritableBytes, PrependableBytes
    <2>4. QED BY <2>1, <2>2, <2>3, EnsureOK, ReserveOK
<1>2. QED BY <1>1, AlwaysBuffer, PTL

-----------------------------------------------------------------------------
(* Bytes in memory *)

\* The element of a byte string read from a memory.
LEMMA BytesAt ==
    ASSUME NEW m, NEW i, NEW len \in Nat, NEW k \in 1 .. len
    PROVE  Bytes(m, i, len)[k] = m[i + k - 1]
BY DEF Bytes

\* The k-th unread byte.
LEMMA DataAt ==
    ASSUME NEW b, IsBuffer(b), NEW k \in 1 .. Length(b)
    PROVE  Data(b)[k] = b.buffer_[b.read_index_ + k - 1]
BY DataType, BytesAt DEF Data

\* The unread bytes are d when each of them is.
LEMMA DataEqual ==
    ASSUME NEW b, IsBuffer(b), NEW d \in Seq(Byte), Len(d) = Length(b),
           \A k \in 1 .. Length(b) : b.buffer_[b.read_index_ + k - 1] = d[k]
    PROVE  Data(b) = d
<1>1. Data(b) \in Seq(Byte) /\ Len(Data(b)) = Length(b) /\ Length(b) \in Nat
    BY DataType
<1>2. \A k \in 1 .. Length(b) : Data(b)[k] = d[k]
    BY DataAt
<1>3. QED BY <1>1, <1>2, SeqEqual

\* What memcpy leaves: d where it copied it, and what was there elsewhere.
LEMMA MemcpyAt ==
    ASSUME NEW n \in Nat, NEW m \in [0 .. n - 1 -> Byte], NEW i \in Nat,
           NEW d \in Seq(Byte), i + Len(d) <= n
    PROVE  /\ \A k \in 1 .. Len(d) : Memcpy(m, i, d)[i + k - 1] = d[k]
           /\ \A k \in 0 .. n - 1 : k < i \/ k >= i + Len(d) => Memcpy(m, i, d)[k] = m[k]
<1>1. Len(d) \in Nat
    OBVIOUS
<1>2. ASSUME NEW k \in 1 .. Len(d) PROVE Memcpy(m, i, d)[i + k - 1] = d[k]
    <2>1. i + k - 1 \in 0 .. n - 1 /\ i + k - 1 \in i .. i + Len(d) - 1
          /\ (i + k - 1) - i + 1 = k
        BY <1>1
    <2>2. QED BY <2>1 DEF Memcpy
<1>3. ASSUME NEW k \in 0 .. n - 1, k < i \/ k >= i + Len(d)
      PROVE  Memcpy(m, i, d)[k] = m[k]
    <2>1. k \notin i .. i + Len(d) - 1
        BY <1>1, <1>3
    <2>2. QED BY <2>1 DEF Memcpy
<1>4. QED BY <1>2, <1>3

\* The bytes from some offset of a byte string to another.
LEMMA Part ==
    ASSUME NEW s \in Seq(Byte), NEW i \in 1 .. Len(s) + 1, NEW j \in i - 1 .. Len(s)
    PROVE  /\ SubSeq(s, i, j) \in Seq(Byte)
           /\ Len(SubSeq(s, i, j)) = j - i + 1
           /\ \A k \in 1 .. j - i + 1 : SubSeq(s, i, j)[k] = s[i + k - 1]
<1>1. Len(s) \in Nat /\ \A k \in 1 .. Len(s) : s[k] \in Byte
    BY LenProperties, ElementOfSeq
<1>2. i \in Int /\ j \in Int /\ \A k \in i .. j : s[k] \in Byte
    BY <1>1
<1>3. QED BY <1>1, <1>2, SubSeqProperties

-----------------------------------------------------------------------------
(* The functions that move the indices *)

\* Moving the write index back, or the read index forward, drops bytes at that end.
LEMMA NarrowData ==
    ASSUME NEW b, IsBuffer(b), NEW i \in 0 .. Length(b), NEW c, IsBuffer(c),
           c.buffer_ = b.buffer_
    PROVE  /\ c.read_index_ = b.read_index_ /\ c.write_index_ = b.read_index_ + i =>
                 Data(c) = SubSeq(Data(b), 1, i)
           /\ c.read_index_ = b.read_index_ + i /\ c.write_index_ = b.write_index_ =>
                 Data(c) = SubSeq(Data(b), i + 1, Len(Data(b)))
<1>1. Data(b) \in Seq(Byte) /\ Len(Data(b)) = Length(b) /\ Length(b) \in Nat
    BY DataType
<1>2. b.read_index_ \in Nat /\ b.write_index_ \in Nat /\ Length(b) = b.write_index_ - b.read_index_
    BY DEF IsBuffer, Objects, Length
<1>3. ASSUME c.read_index_ = b.read_index_, c.write_index_ = b.read_index_ + i
      PROVE  Data(c) = SubSeq(Data(b), 1, i)
    <2> DEFINE d == SubSeq(Data(b), 1, i)
    <2>1. d \in Seq(Byte) /\ Len(d) = i /\ \A k \in 1 .. i : d[k] = Data(b)[k]
        BY <1>1, Part
    <2>2. Length(c) = i
        BY <1>2, <1>3 DEF Length
    <2>3. \A k \in 1 .. i : c.buffer_[c.read_index_ + k - 1] = d[k]
        BY <1>1, <1>3, <2>1, DataAt
    <2> HIDE DEF d
    <2>4. Data(c) = d
        BY <2>1, <2>2, <2>3, DataEqual
    <2>5. QED BY <2>4 DEF d
<1>4. ASSUME c.read_index_ = b.read_index_ + i, c.write_index_ = b.write_index_
      PROVE  Data(c) = SubSeq(Data(b), i + 1, Len(Data(b)))
    <2> DEFINE len == Length(b) - i
               d   == SubSeq(Data(b), i + 1, Len(Data(b)))
    <2>1. d \in Seq(Byte) /\ Len(d) = len /\ \A k \in 1 .. len : d[k] = Data(b)[i + 1 + k - 1]
        BY <1>1, Part
    <2>2. Length(c) = len
        BY <1>2, <1>4 DEF Length
    <2>3. ASSUME NEW k \in 1 .. len PROVE c.buffer_[c.read_index_ + k - 1] = d[k]
        <3>1. i + 1 + k - 1 \in 1 .. Length(b)
            BY <1>1
        <3>2. Data(b)[i + 1 + k - 1] = b.buffer_[b.read_index_ + (i + 1 + k - 1) - 1]
            BY <3>1, DataAt
        <3>3. b.read_index_ + (i + 1 + k - 1) - 1 = c.read_index_ + k - 1
            BY <1>2, <1>4
        <3>4. QED BY <2>1, <3>2, <3>3
    <2> HIDE DEF d, len
    <2>4. Data(c) = d
        BY <2>1, <2>2, <2>3, DataEqual
    <2>5. QED BY <2>4 DEF d
<1>5. QED BY <1>3, <1>4

\* A buffer without unread bytes holds the empty byte string.
LEMMA NoData ==
    ASSUME NEW b, IsBuffer(b), Length(b) = 0
    PROVE  Data(b) = <<>>
BY DataType, EmptySeq

\* Reset leaves no unread bytes.
LEMMA ResetData ==
    ASSUME NEW b, IsBuffer(b)
    PROVE  IsBuffer(Reset(b)) /\ Length(Reset(b)) = 0 /\ Data(Reset(b)) = <<>>
<1>1. IsBuffer(Truncate(b, 0))
    BY IndexCalls
<1>2. Length(Truncate(b, 0)) = 0
    BY DEF IsBuffer, Objects, Truncate, Length
<1>3. QED BY <1>1, <1>2, NoData DEF Reset

\* Truncate keeps the first n unread bytes.
LEMMA TruncateData ==
    ASSUME NEW b, IsBuffer(b), NEW n \in Nat
    PROVE  Data(Truncate(b, n)) = SubSeq(Data(b), 1, Queue!Upto(n, Data(b)))
<1>1. Data(b) \in Seq(Byte) /\ Len(Data(b)) = Length(b) /\ Length(b) \in Nat
    BY DataType
<1>2. IsBuffer(Truncate(b, n))
    BY IndexCalls
<1>3. b.read_index_ \in Nat /\ b.write_index_ \in Nat /\ Length(b) = b.write_index_ - b.read_index_
    BY DEF IsBuffer, Objects, Length
<1>4. CASE n = 0
    <2>1. Queue!Upto(n, Data(b)) = 0
        BY <1>1, <1>4 DEF Queue!Upto
    <2>2. SubSeq(Data(b), 1, 0) = <<>>
        BY SubSeqEmpty
    <2>3. QED BY <1>4, <2>1, <2>2, ResetData DEF Reset
<1>5. CASE n # 0 /\ b.write_index_ > b.read_index_ + n
    <2> DEFINE c == Truncate(b, n)
    <2>1. /\ c.buffer_ = b.buffer_ /\ c.read_index_ = b.read_index_
          /\ c.write_index_ = b.read_index_ + n
        BY <1>5 DEF Truncate, IsBuffer, Objects
    <2>2. n \in 0 .. Length(b) /\ Queue!Upto(n, Data(b)) = n
        BY <1>1, <1>3, <1>5 DEF Queue!Upto
    <2> HIDE DEF c
    <2>3. IsBuffer(c)
        BY <1>2 DEF c
    <2>4. QED BY <2>1, <2>2, <2>3, NarrowData DEF c
<1>6. CASE n # 0 /\ ~(b.write_index_ > b.read_index_ + n)
    <2>1. Queue!Upto(n, Data(b)) = Len(Data(b))
        BY <1>1, <1>3, <1>6 DEF Queue!Upto
    <2>2. Truncate(b, n) = b
        BY <1>6 DEF Truncate
    <2>3. QED BY <1>1, <2>1, <2>2, SubSeqFull
<1>7. QED BY <1>4, <1>5, <1>6

\* Skip removes the next n bytes, or all of them; Next returns them.
LEMMA SkipData ==
    ASSUME NEW b, IsBuffer(b), NEW n \in Nat
    PROVE  /\ Data(Skip(b, n)) =
                 SubSeq(Data(b), Queue!Upto(n, Data(b)) + 1, Len(Data(b)))
           /\ NextBytes(b, n) = SubSeq(Data(b), 1, Queue!Upto(n, Data(b)))
<1>1. Data(b) \in Seq(Byte) /\ Len(Data(b)) = Length(b) /\ Length(b) \in Nat
    BY DataType
<1>2. IsBuffer(Skip(b, n))
    BY IndexCalls
<1>3. b.read_index_ \in Nat /\ b.write_index_ \in Nat /\ Length(b) = b.write_index_ - b.read_index_
      /\ b.capacity_ \in Nat /\ b.read_index_ + Length(b) <= b.capacity_
      /\ b.buffer_ \in [0 .. b.capacity_ - 1 -> Byte]
    BY DEF IsBuffer, Objects, Length
<1>4. Data(Skip(b, n)) = SubSeq(Data(b), Queue!Upto(n, Data(b)) + 1, Len(Data(b)))
    <2>1. CASE n < Length(b)
        <3> DEFINE c == Skip(b, n)
        <3>1. /\ c.buffer_ = b.buffer_ /\ c.read_index_ = b.read_index_ + n
              /\ c.write_index_ = b.write_index_
            BY <2>1 DEF Skip, IsBuffer, Objects
        <3>2. n \in 0 .. Length(b) /\ Queue!Upto(n, Data(b)) = n
            BY <1>1, <2>1 DEF Queue!Upto
        <3> HIDE DEF c
        <3>3. IsBuffer(c)
            BY <1>2 DEF c
        <3>4. QED BY <3>1, <3>2, <3>3, NarrowData DEF c
    <2>2. CASE ~(n < Length(b))
        <3>1. Queue!Upto(n, Data(b)) = Len(Data(b))
            BY <1>1, <2>2 DEF Queue!Upto
        <3>2. SubSeq(Data(b), Len(Data(b)) + 1, Len(Data(b))) = <<>>
            BY <1>1, SubSeqEmpty
        <3>3. Data(Skip(b, n)) = <<>>
            BY <2>2, ResetData DEF Skip
        <3>4. QED BY <3>1, <3>2, <3>3
    <2>3. QED BY <2>1, <2>2
<1>5. NextBytes(b, n) = SubSeq(Data(b), 1, Queue!Upto(n, Data(b)))
    <2> DEFINE len == Queue!Upto(n, Data(b))
               d   == SubSeq(Data(b), 1, len)
    <2>1. len \in 0 .. Length(b) /\ len \in Nat
        BY <1>1 DEF Queue!Upto
    <2>2. d \in Seq(Byte) /\ Len(d) = len /\ \A k \in 1 .. len : d[k] = Data(b)[k]
        <3> HIDE DEF len
        <3>1. QED BY <1>1, <2>1, Part
    <2>3. NextBytes(b, n) = Bytes(b.buffer_, b.read_index_, len)
        BY <1>1 DEF NextBytes, Queue!Upto
    <2> DEFINE e == Bytes(b.buffer_, b.read_index_, len)
    <2>4. e \in Seq(Byte) /\ Len(e) = len
        <3> DEFINE m == b.buffer_
                   i == b.read_index_
                   cap == b.capacity_
        <3> HIDE DEF len
        <3>1. cap \in Nat /\ m \in [0 .. cap - 1 -> Byte] /\ i \in Nat /\ i + len <= cap
            BY <1>1, <1>3, <2>1
        <3> HIDE DEF m, i, cap
        <3>2. Bytes(m, i, len) \in Seq(Byte) /\ Len(Bytes(m, i, len)) = len
            BY <2>1, <3>1, BytesType
        <3>3. QED BY <3>2 DEF m, i
    <2>5. ASSUME NEW k \in 1 .. len PROVE e[k] = d[k]
        <3> HIDE DEF len
        <3>1. k \in 1 .. Length(b)
            BY <1>1, <2>1
        <3>2. e[k] = b.buffer_[b.read_index_ + k - 1]
            BY <2>1, BytesAt
        <3> HIDE DEF d, e
        <3>3. QED BY <2>2, <3>1, <3>2, DataAt
    <2> HIDE DEF len, d, e
    <2>6. e = d
        BY <2>1, <2>2, <2>4, <2>5, SeqEqual
    <2>7. QED BY <2>3, <2>6 DEF len, d, e
<1>6. QED BY <1>4, <1>5

\* ReadByte removes one byte, and UnwriteBytes the last n.
LEMMA ReadByteData ==
    ASSUME NEW b, IsBuffer(b), CanPeek(b, 1)
    PROVE  Data(ReadByte(b)) = SubSeq(Data(b), 2, Len(Data(b)))
<1> DEFINE c == ReadByte(b)
<1>1. c.buffer_ = b.buffer_ /\ c.read_index_ = b.read_index_ + 1
      /\ c.write_index_ = b.write_index_
    BY DEF ReadByte, IsBuffer, Objects
<1>2. 1 \in 0 .. Length(b)
    BY DataType DEF CanPeek
<1> HIDE DEF c
<1>3. IsBuffer(c)
    BY IndexCalls DEF c
<1>4. Data(c) = SubSeq(Data(b), 1 + 1, Len(Data(b)))
    BY <1>1, <1>2, <1>3, NarrowData
<1>5. QED BY <1>4 DEF c

\* UnwriteBytes removes the last n.
LEMMA UnwriteData ==
    ASSUME NEW b, IsBuffer(b), NEW n \in Nat, CanUnwrite(b, n)
    PROVE  Data(UnwriteBytes(b, n)) = SubSeq(Data(b), 1, Len(Data(b)) - n)
<1> DEFINE c == UnwriteBytes(b, n)
           i == Length(b) - n
<1>1. c.buffer_ = b.buffer_ /\ c.read_index_ = b.read_index_
      /\ c.write_index_ = b.read_index_ + i
    BY DEF UnwriteBytes, IsBuffer, Objects, Length
<1>2. i \in 0 .. Length(b) /\ Len(Data(b)) - n = i
    BY DataType DEF CanUnwrite
<1> HIDE DEF c, i
<1>3. IsBuffer(c)
    BY IndexCalls DEF c
<1>4. QED BY <1>1, <1>2, <1>3, NarrowData DEF c

-----------------------------------------------------------------------------
(* The functions that write *)

\* The unread bytes copied to the front of a memory that holds them are the
\* unread bytes there.
LEMMA MovedData ==
    ASSUME NEW b, IsBuffer(b), NEW c, IsBuffer(c), NEW m \in [0 .. c.capacity_ - 1 -> Byte],
           c.buffer_ = Memcpy(m, c.read_index_, Data(b)), Length(c) = Length(b)
    PROVE  Data(c) = Data(b)
<1> DEFINE d == Data(b)
<1>1. d \in Seq(Byte) /\ Len(d) = Length(c) /\ Length(c) \in Nat
    BY DataType
<1>2. c.capacity_ \in Nat /\ c.read_index_ \in Nat /\ c.read_index_ + Length(c) <= c.capacity_
    BY DEF IsBuffer, Objects, Length
<1> HIDE DEF d
<1>3. \A k \in 1 .. Len(d) : Memcpy(m, c.read_index_, d)[c.read_index_ + k - 1] = d[k]
    BY <1>1, <1>2, MemcpyAt
<1>4. \A k \in 1 .. Length(c) : c.buffer_[c.read_index_ + k - 1] = d[k]
    BY <1>1, <1>3 DEF d
<1>5. Data(c) = d
    BY <1>1, <1>4, DataEqual
<1>6. QED BY <1>5 DEF d

\* grow leaves the unread bytes as they are, in either branch.
LEMMA GrowData ==
    ASSUME NEW b, IsBuffer(b), NEW len \in Nat
    PROVE  Data(Grow(b, len)) = Data(b)
<1>1. Length(b) \in Nat /\ b.reserved_prepend_size_ \in Nat /\ b.capacity_ \in Nat
      /\ b.buffer_ \in [0 .. b.capacity_ - 1 -> Byte]
    BY DataType DEF IsBuffer, Objects
<1>2. CASE MustReallocate(b, len)
    <2> DEFINE c == Reallocated(b, len)
               n == 2 * b.capacity_ + len
               m == NewMemory(n)
    <2>1. /\ c.buffer_ = Memcpy(m, b.reserved_prepend_size_, Data(b)) /\ c.capacity_ = n
          /\ c.read_index_ = b.reserved_prepend_size_
          /\ c.write_index_ = Length(b) + b.reserved_prepend_size_
        BY DEF Reallocated, IsBuffer, Objects
    <2>2. m \in [0 .. n - 1 -> Byte]
        BY BufferAssumption DEF NewMemory
    <2>3. IsBuffer(c)
        BY ReallocatedOK
    <2> HIDE DEF c, m, n
    <2>4. Length(c) = Length(b)
        BY <1>1, <2>1 DEF Length
    <2>5. m \in [0 .. c.capacity_ - 1 -> Byte]
        BY <2>1, <2>2
    <2>6. Data(c) = Data(b)
        BY <2>1, <2>3, <2>4, <2>5, MovedData
    <2>7. QED BY <1>2, <2>6 DEF Grow, c
<1>3. CASE ~MustReallocate(b, len)
    <2> DEFINE c == Compacted(b)
    <2>1. /\ c.buffer_ = Memcpy(b.buffer_, b.reserved_prepend_size_, Data(b))
          /\ c.capacity_ = b.capacity_
          /\ c.read_index_ = b.reserved_prepend_size_
          /\ c.write_index_ = b.reserved_prepend_size_ + Length(b)
        BY DEF Compacted, IsBuffer, Objects
    <2>2. IsBuffer(c)
        BY <1>3, CompactedOK
    <2> HIDE DEF c
    <2>3. Length(c) = Length(b)
        BY <1>1, <2>1 DEF Length
    <2>4. Data(c) = Data(b)
        BY <1>1, <2>1, <2>2, <2>3, MovedData
    <2>5. QED BY <1>3, <2>4 DEF Grow, c
<1>4. QED BY <1>2, <1>3

\* So do EnsureWritableBytes and Reserve.
LEMMA RoomData ==
    ASSUME NEW b, IsBuffer(b), NEW len \in Nat
    PROVE  Data(EnsureWritableBytes(b, len)) = Data(b) /\ Data(Reserve(b, len)) = Data(b)
<1>1. len + b.reserved_prepend_size_ \in Nat
    BY DEF IsBuffer, Objects
<1>2. QED BY <1>1, GrowData DEF EnsureWritableBytes, Reserve

\* Bytes put behind the unread ones are appended to them.
LEMMA FilledData ==
    ASSUME NEW b, IsBuffer(b), NEW d \in Seq(Byte), CanWriteBytes(b, Len(d))
    PROVE  Data(Filled(b, d)) = Data(b) \o d
<1> DEFINE c == Filled(b, d)
           m == b.buffer_
           w == b.write_index_
           e == Data(b) \o d
<1>1. /\ c.buffer_ = Memcpy(m, w, d) /\ c.read_index_ = b.read_index_
      /\ c.capacity_ = b.capacity_
    BY DEF Filled, IsBuffer, Objects
<1>2. IsBuffer(c) /\ Length(c) = Length(b) + Len(d)
    BY FilledOK
<1>3. Data(b) \in Seq(Byte) /\ Len(Data(b)) = Length(b) /\ Length(b) \in Nat /\ Len(d) \in Nat
    BY DataType
<1>4. /\ e \in Seq(Byte) /\ Len(e) = Length(b) + Len(d)
      /\ \A k \in 1 .. Length(b) + Len(d) :
            e[k] = IF k <= Length(b) THEN Data(b)[k] ELSE d[k - Length(b)]
    <2> DEFINE s == Data(b)
    <2> HIDE DEF s
    <2>1. s \in Seq(Byte) /\ Len(s) = Length(b)
        BY <1>3 DEF s
    <2>2. /\ s \o d \in Seq(Byte) /\ Len(s \o d) = Len(s) + Len(d)
          /\ \A k \in 1 .. Len(s) + Len(d) :
                (s \o d)[k] = IF k <= Len(s) THEN s[k] ELSE d[k - Len(s)]
        BY <2>1, ConcatProperties
    <2>3. QED BY <2>1, <2>2 DEF s
<1>5. /\ m \in [0 .. b.capacity_ - 1 -> Byte] /\ b.capacity_ \in Nat /\ w \in Nat
      /\ w = b.read_index_ + Length(b) /\ w + Len(d) <= b.capacity_ /\ b.read_index_ \in Nat
    BY DEF IsBuffer, Objects, Length, CanWriteBytes, WritableBytes
<1> HIDE DEF c, m, w, e
<1>6. /\ \A k \in 1 .. Len(d) : Memcpy(m, w, d)[w + k - 1] = d[k]
      /\ \A k \in 0 .. b.capacity_ - 1 : k < w \/ k >= w + Len(d) => Memcpy(m, w, d)[k] = m[k]
    BY <1>5, MemcpyAt
<1>7. ASSUME NEW k \in 1 .. Length(c) PROVE c.buffer_[c.read_index_ + k - 1] = e[k]
    <2>1. CASE k <= Length(b)
        <3>1. k \in 1 .. Length(b)
            BY <1>2, <1>3, <2>1
        <3>2. b.read_index_ + k - 1 \in 0 .. b.capacity_ - 1 /\ b.read_index_ + k - 1 < w
            <4>1. k \in Nat /\ 1 <= k /\ k <= Length(b)
                BY <1>3, <3>1
            <4>2. /\ b.capacity_ \in Nat /\ w = b.read_index_ + Length(b)
                  /\ w + Len(d) <= b.capacity_ /\ b.read_index_ \in Nat
                BY <1>5
            <4>3. QED BY <1>3, <4>1, <4>2, SMTT(30)
        <3>3. c.buffer_[c.read_index_ + k - 1] = m[b.read_index_ + k - 1]
            BY <1>1, <1>6, <3>2
        <3>4. Data(b)[k] = m[b.read_index_ + k - 1]
            BY <3>1, DataAt DEF m
        <3>5. e[k] = Data(b)[k]
            BY <1>2, <1>4, <2>1
        <3>6. QED BY <3>3, <3>4, <3>5
    <2>2. CASE ~(k <= Length(b))
        <3> DEFINE j == k - Length(b)
        <3>1. j \in 1 .. Len(d) /\ b.read_index_ + k - 1 = w + j - 1
            <4>1. PICK n \in Nat : n = Length(b)
                BY <1>3
            <4>2. PICK q \in Nat : q = Len(d)
                OBVIOUS
            <4>3. k \in Nat /\ n < k /\ k <= n + q
                BY <1>2, <2>2, <4>1, <4>2
            <4>4. w = b.read_index_ + n /\ b.read_index_ \in Nat
                BY <1>5, <4>1
            <4>5. k - n \in 1 .. q /\ b.read_index_ + k - 1 = w + (k - n) - 1
                BY <4>3, <4>4
            <4>6. QED BY <4>1, <4>2, <4>5
        <3>2. e[k] = d[j]
            <4>1. k \in 1 .. Length(b) + Len(d)
                BY <1>2
            <4>2. QED BY <1>4, <2>2, <4>1
        <3> HIDE DEF j
        <3>3. Memcpy(m, w, d)[w + j - 1] = d[j]
            BY <1>6, <3>1
        <3>4. QED BY <1>1, <3>1, <3>2, <3>3
    <2>3. QED BY <2>1, <2>2
<1>8. Data(c) = e
    BY <1>2, <1>4, <1>7, DataEqual
<1>9. QED BY <1>8 DEF c, e

\* Write appends its bytes.
LEMMA WriteData ==
    ASSUME NEW b, IsBuffer(b), NEW d \in Seq(Byte)
    PROVE  Data(Write(b, d)) = Data(b) \o d
<1> DEFINE e == EnsureWritableBytes(b, Len(d))
<1>1. Len(d) \in Nat
    OBVIOUS
<1>2. IsBuffer(e) /\ CanWriteBytes(e, Len(d))
    BY <1>1, EnsureOK DEF CanWriteBytes, WritableBytes, IsBuffer, Objects
<1>3. Data(e) = Data(b)
    BY <1>1, RoomData
<1>4. Write(b, d) = Filled(e, d)
    BY DEF Write
<1> HIDE DEF e
<1>5. QED BY <1>2, <1>3, <1>4, FilledData

\* Prepend puts its bytes in front.
LEMMA PrependData ==
    ASSUME NEW b, IsBuffer(b), NEW d \in Seq(Byte), CanPrepend(b, Len(d))
    PROVE  Data(Prepend(b, d)) = d \o Data(b)
<1> DEFINE c == Prepend(b, d)
           m == b.buffer_
           r == b.read_index_ - Len(d)
           e == d \o Data(b)
<1>1. /\ c.buffer_ = Memcpy(m, r, d) /\ c.read_index_ = r /\ c.write_index_ = b.write_index_
      /\ c.capacity_ = b.capacity_
    BY DEF Prepend, IsBuffer, Objects
<1>2. IsBuffer(c)
    BY PrependOK
<1>3. Data(b) \in Seq(Byte) /\ Len(Data(b)) = Length(b) /\ Length(b) \in Nat /\ Len(d) \in Nat
    BY DataType
<1>4. /\ e \in Seq(Byte) /\ Len(e) = Len(d) + Length(b)
      /\ \A k \in 1 .. Len(d) + Length(b) :
            e[k] = IF k <= Len(d) THEN d[k] ELSE Data(b)[k - Len(d)]
    BY <1>3, ConcatProperties
<1>5. /\ m \in [0 .. b.capacity_ - 1 -> Byte] /\ b.capacity_ \in Nat /\ r \in Nat
      /\ r + Len(d) = b.read_index_ /\ b.read_index_ + Length(b) <= b.capacity_
      /\ b.write_index_ = b.read_index_ + Length(b) /\ b.read_index_ \in Nat
    BY <1>3 DEF IsBuffer, Objects, Length, CanPrepend, PrependableBytes
<1> HIDE DEF c, m, r, e
<1>6. Length(c) = Len(d) + Length(b) /\ r + Len(d) <= b.capacity_
    <2>1. /\ b.capacity_ \in Nat /\ r \in Nat /\ r + Len(d) = b.read_index_
          /\ b.read_index_ + Length(b) <= b.capacity_
          /\ b.write_index_ = b.read_index_ + Length(b) /\ b.read_index_ \in Nat
        BY <1>5
    <2>2. Length(c) = b.write_index_ - r
        BY <1>1 DEF Length
    <2>3. QED BY <1>3, <2>1, <2>2
<1>7. /\ \A k \in 1 .. Len(d) : Memcpy(m, r, d)[r + k - 1] = d[k]
      /\ \A k \in 0 .. b.capacity_ - 1 : k < r \/ k >= r + Len(d) => Memcpy(m, r, d)[k] = m[k]
    BY <1>5, <1>6, MemcpyAt
<1>8. ASSUME NEW k \in 1 .. Length(c) PROVE c.buffer_[c.read_index_ + k - 1] = e[k]
    <2>1. CASE k <= Len(d)
        <3>1. k \in 1 .. Len(d)
            BY <1>3, <2>1
        <3>2. e[k] = d[k]
            BY <1>4, <1>6, <2>1
        <3>3. QED BY <1>1, <1>7, <3>1, <3>2
    <2>2. CASE ~(k <= Len(d))
        <3> DEFINE j == k - Len(d)
        <3>1. /\ j \in 1 .. Length(b) /\ r + k - 1 = b.read_index_ + j - 1
              /\ r + k - 1 \in 0 .. b.capacity_ - 1 /\ r + k - 1 >= r + Len(d)
            BY <1>3, <1>5, <1>6, <2>2, SMTT(30)
        <3>2. e[k] = Data(b)[j]
            BY <1>4, <1>6, <2>2
        <3> HIDE DEF j
        <3>3. Data(b)[j] = m[b.read_index_ + j - 1]
            BY <3>1, DataAt DEF m
        <3>4. Memcpy(m, r, d)[r + k - 1] = m[r + k - 1]
            BY <1>7, <3>1
        <3>5. QED BY <1>1, <3>1, <3>2, <3>3, <3>4
    <2>3. QED BY <2>1, <2>2
<1>9. Data(c) = e
    BY <1>2, <1>4, <1>6, <1>8, DataEqual
<1>10. QED BY <1>9 DEF c, e

\* The byte ToText puts behind the data is not counted as data, and Shrink moves
\* the data into new storage.
LEMMA ComposedData ==
    ASSUME NEW b, IsBuffer(b), NEW n \in Nat
    PROVE  Data(ToText(b, Junk)) = Data(b) /\ Data(Shrink(b, n)) = Data(b)
<1>1. Data(b) \in Seq(Byte) /\ Len(Data(b)) = Length(b) /\ Length(b) \in Nat
    BY DataType
<1>2. Data(ToText(b, Junk)) = Data(b)
    <2> DEFINE c == Write(b, <<Junk>>)
    <2>1. <<Junk>> \in Seq(Byte) /\ Len(<<Junk>>) = 1
        BY BufferAssumption
    <2>2. IsBuffer(c) /\ CanUnwrite(c, 1)
        BY <2>1, WriteOK DEF CanUnwrite
    <2>3. Data(c) = Data(b) \o <<Junk>>
        BY <2>1, WriteData
    <2>4. Data(UnwriteBytes(c, 1)) = SubSeq(Data(c), 1, Len(Data(c)) - 1)
        BY <2>2, UnwriteData
    <2>5. Len(Data(b) \o <<Junk>>) - 1 = Len(Data(b))
        BY <1>1, <2>1, ConcatProperties
    <2>6. SubSeq(Data(b) \o <<Junk>>, 1, Len(Data(b))) = Data(b)
        BY <1>1, <2>1
    <2> HIDE DEF c
    <2>7. Data(UnwriteBytes(c, 1)) = Data(b)
        BY <2>3, <2>4, <2>5, <2>6
    <2>8. QED BY <2>7 DEF ToText, c
<1>3. Data(Shrink(b, n)) = Data(b)
    <2> DEFINE c == NewBuffer(Length(b) + n, kCheapPrependSize)
    <2>1. IsBuffer(c)
        <3>1. Length(b) + n \in Nat /\ kCheapPrependSize \in Nat
            BY <1>1, BufferAssumption
        <3>2. QED BY <3>1, NewIsBuffer
    <2>2. Length(c) = 0
        BY BufferAssumption DEF NewBuffer, Length
    <2> HIDE DEF c
    <2>3. Data(c) = <<>>
        BY <2>1, <2>2, NoData
    <2>4. Data(Write(c, Data(b))) = <<>> \o Data(b)
        BY <1>1, <2>1, <2>3, WriteData
    <2>5. QED BY <1>1, <2>4, ConcatEmptySeq DEF Shrink, c
<1>4. QED BY <1>2, <1>3

-----------------------------------------------------------------------------
(* What a read returned, and UnreadBytes *)

\* If b has unread bytes, the bytes g are in its memory just before them.
GotBehind(b, g) ==
    Length(b) > 0 =>
        /\ Len(g) <= b.read_index_
        /\ \A k \in 1 .. Len(g) : b.buffer_[b.read_index_ - Len(g) + k - 1] = g[k]

\* A call that returns nothing has nothing to leave behind.
LEMMA NothingBehind ==
    ASSUME NEW b, IsBuffer(b)
    PROVE  <<>> \in Seq(Byte) /\ GotBehind(b, <<>>)
<1>1. <<>> \in Seq(Byte) /\ Len(<<>>) = 0
    BY EmptySeq
<1>2. b.read_index_ \in Nat
    BY DEF IsBuffer, Objects
<1>3. QED BY <1>1, <1>2 DEF GotBehind

\* Next and the ReadInts leave what they return behind, unless nothing is unread
\* any more.
LEMMA SkipBehind ==
    ASSUME NEW b, IsBuffer(b), NEW n \in Nat
    PROVE  NextBytes(b, n) \in Seq(Byte) /\ GotBehind(Skip(b, n), NextBytes(b, n))
<1>1. Data(b) \in Seq(Byte) /\ Len(Data(b)) = Length(b) /\ Length(b) \in Nat
    BY DataType
<1>2. b.read_index_ \in Nat
    BY DEF IsBuffer, Objects
<1>3. Queue!Upto(n, Data(b)) \in 0 .. Len(Data(b))
    BY <1>1 DEF Queue!Upto
<1> DEFINE g == NextBytes(b, n)
           c == Skip(b, n)
<1>4. g \in Seq(Byte) /\ Len(g) = Queue!Upto(n, Data(b))
    <2> DEFINE i == Queue!Upto(n, Data(b))
    <2>1. i \in 0 .. Len(Data(b))
        BY <1>3
    <2>2. g = SubSeq(Data(b), 1, i)
        BY SkipData
    <2> HIDE DEF i, g
    <2>3. SubSeq(Data(b), 1, i) \in Seq(Byte) /\ Len(SubSeq(Data(b), 1, i)) = i
        BY <1>1, <2>1, Part
    <2>4. QED BY <2>2, <2>3 DEF i
<1>5. CASE n < Length(b)
    <2>1. c.buffer_ = b.buffer_ /\ c.read_index_ = b.read_index_ + n
        BY <1>5 DEF Skip, IsBuffer, Objects
    <2>2. g = Bytes(b.buffer_, b.read_index_, n)
        BY <1>5 DEF NextBytes
    <2>3. Len(g) = n
        BY <1>1, <1>4, <1>5 DEF Queue!Upto
    <2>4. ASSUME NEW k \in 1 .. n PROVE b.buffer_[b.read_index_ + n - n + k - 1] = g[k]
        <3>1. b.read_index_ + n - n + k - 1 = b.read_index_ + k - 1
            BY <1>2
        <3>2. Bytes(b.buffer_, b.read_index_, n)[k] = b.buffer_[b.read_index_ + k - 1]
            BY BytesAt
        <3> HIDE DEF g
        <3>3. QED BY <2>2, <3>1, <3>2
    <2> HIDE DEF g, c
    <2>5. GotBehind(c, g)
        BY <1>2, <2>1, <2>3, <2>4 DEF GotBehind
    <2>6. QED BY <1>4, <2>5 DEF g, c
<1>6. CASE ~(n < Length(b))
    <2>1. Length(c) = 0
        BY <1>6, ResetData DEF Skip
    <2> HIDE DEF g, c
    <2>2. GotBehind(c, g)
        BY <2>1 DEF GotBehind
    <2>3. QED BY <1>4, <2>2 DEF g, c
<1>7. QED BY <1>5, <1>6

\* So does ReadByte, which is Next(1) but for the Reset.
LEMMA ReadByteBehind ==
    ASSUME NEW b, IsBuffer(b), CanPeek(b, 1)
    PROVE  GotBehind(ReadByte(b), NextBytes(b, 1))
<1>1. CASE 1 < Length(b)
    <2>1. ReadByte(b) = Skip(b, 1)
        BY <1>1 DEF ReadByte, Skip
    <2>2. QED BY <2>1, SkipBehind
<1>2. CASE ~(1 < Length(b))
    <2>1. Length(ReadByte(b)) = 0
        BY <1>2 DEF CanPeek, ReadByte, Length, IsBuffer, Objects
    <2>2. QED BY <2>1 DEF GotBehind
<1>3. QED BY <1>1, <1>2

\* UnreadBytes puts the last n bytes of the last read back in front of the ones
\* that read left.
LEMMA UnreadData ==
    ASSUME NEW b, IsBuffer(b), NEW g \in Seq(Byte), GotBehind(b, g), Length(b) > 0,
           NEW n \in 0 .. Len(g), CanUnread(b, n)
    PROVE  Data(UnreadBytes(b, n)) = SubSeq(g, Len(g) - n + 1, Len(g)) \o Data(b)
<1> DEFINE c == UnreadBytes(b, n)
           d == SubSeq(g, Len(g) - n + 1, Len(g))
           e == d \o Data(b)
           r == b.read_index_
<1>1. c.buffer_ = b.buffer_ /\ c.read_index_ = r - n /\ c.write_index_ = b.write_index_
    BY DEF UnreadBytes, IsBuffer, Objects
<1>2. Len(g) \in Nat /\ n \in Nat
    OBVIOUS
<1>3. IsBuffer(c)
    BY <1>2, IndexCalls
<1>4. Data(b) \in Seq(Byte) /\ Len(Data(b)) = Length(b) /\ Length(b) \in Nat
    BY DataType
<1>5. d \in Seq(Byte) /\ Len(d) = n /\ \A k \in 1 .. n : d[k] = g[Len(g) - n + k]
    <2> DEFINE i == Len(g) - n + 1
    <2>1. i \in 1 .. Len(g) + 1 /\ Len(g) \in i - 1 .. Len(g) /\ Len(g) - i + 1 = n
        BY <1>2
    <2> HIDE DEF i
    <2>2. /\ SubSeq(g, i, Len(g)) \in Seq(Byte) /\ Len(SubSeq(g, i, Len(g))) = Len(g) - i + 1
          /\ \A k \in 1 .. Len(g) - i + 1 : SubSeq(g, i, Len(g))[k] = g[i + k - 1]
        BY <2>1, Part
    <2>3. \A k \in 1 .. n : g[i + k - 1] = g[Len(g) - n + k]
        BY <1>2 DEF i
    <2>4. QED BY <2>1, <2>2, <2>3 DEF i
<1>6. /\ e \in Seq(Byte) /\ Len(e) = n + Length(b)
      /\ \A k \in 1 .. n + Length(b) : e[k] = IF k <= n THEN d[k] ELSE Data(b)[k - n]
    <2> DEFINE s == Data(b)
    <2> HIDE DEF s, d
    <2>1. s \in Seq(Byte) /\ Len(s) = Length(b)
        BY <1>4 DEF s
    <2>2. /\ d \o s \in Seq(Byte) /\ Len(d \o s) = Len(d) + Len(s)
          /\ \A k \in 1 .. Len(d) + Len(s) :
                (d \o s)[k] = IF k <= Len(d) THEN d[k] ELSE s[k - Len(d)]
        BY <1>5, <2>1, ConcatProperties
    <2>3. QED BY <1>5, <2>1, <2>2 DEF s
<1>7. r \in Nat /\ b.write_index_ \in Nat /\ Length(b) = b.write_index_ - r
    BY DEF IsBuffer, Objects, Length
<1>8. Len(g) <= r /\ \A k \in 1 .. Len(g) : b.buffer_[r - Len(g) + k - 1] = g[k]
    BY DEF GotBehind
<1> HIDE DEF c, d, e, r
<1>9. Length(c) = n + Length(b)
    BY <1>1, <1>2, <1>7 DEF Length
<1>10. ASSUME NEW k \in 1 .. Length(c) PROVE c.buffer_[c.read_index_ + k - 1] = e[k]
    <2>1. CASE k <= n
        <3> DEFINE j == Len(g) - n + k
        <3>1. j \in 1 .. Len(g) /\ k \in 1 .. n /\ r - n + k - 1 = r - Len(g) + j - 1
            BY <1>2, <1>4, <1>7, <1>9, <2>1
        <3>2. e[k] = g[j]
            BY <1>5, <1>6, <1>9, <2>1, <3>1
        <3> HIDE DEF j
        <3>3. b.buffer_[r - Len(g) + j - 1] = g[j]
            BY <1>8, <3>1
        <3>4. QED BY <1>1, <3>1, <3>2, <3>3
    <2>2. CASE ~(k <= n)
        <3> DEFINE j == k - n
        <3>1. j \in 1 .. Length(b) /\ r - n + k - 1 = r + j - 1
            BY <1>2, <1>4, <1>7, <1>9, <2>2
        <3>2. e[k] = Data(b)[j]
            BY <1>6, <1>9, <2>2
        <3> HIDE DEF j
        <3>3. Data(b)[j] = b.buffer_[r + j - 1]
            BY <3>1, DataAt DEF r
        <3>4. QED BY <1>1, <3>1, <3>2, <3>3
    <2>3. QED BY <2>1, <2>2
<1>11. Data(c) = e
    BY <1>3, <1>6, <1>9, <1>10, DataEqual
<1>12. QED BY <1>11 DEF c, e, d

-----------------------------------------------------------------------------
(* The refinement *)

\* Besides being a buffer, it still has what the last call returned.
GotInv == IsBuffer(buf) /\ got \in Seq(Byte) /\ GotBehind(buf, got)

\* The calls that take a byte string are appends and prepends of the queue.
LEMMA ChunkCallStep ==
    ASSUME IsBuffer(buf), NEW d \in Chunks,
           CallWrite(d) \/ CallWriteBytes(d) \/ CallPrepend(d)
    PROVE  Queue!QueueNext /\ got' = <<>>
<1>1. d \in Seq(Byte)
    BY ChunkType
<1>2. CASE CallWrite(d)
    <2>1. Queue!Append_("Write", d)
        BY <1>1, <1>2, WriteData DEF CallWrite, Called, Queue!Append_
    <2>2. QED BY <1>2, <2>1 DEF CallWrite, Called, Queue!QueueNext
<1>3. CASE CallWriteBytes(d)
    <2>1. Queue!Append_("WriteBytes", d)
        BY <1>1, <1>3, FilledData DEF CallWriteBytes, Called, Queue!Append_
    <2>2. QED BY <1>3, <2>1 DEF CallWriteBytes, Called, Queue!QueueNext
<1>4. CASE CallPrepend(d)
    <2>1. Queue!Front(d)
        BY <1>1, <1>4, PrependData DEF CallPrepend, Called, Queue!Front
    <2>2. QED BY <1>4, <2>1 DEF CallPrepend, Called, Queue!QueueNext
<1>5. QED BY <1>2, <1>3, <1>4

\* The calls that take a number of bytes are the reads, drops and cuts of the
\* queue; UnreadBytes is its Unread if it comes at once.
LEMMA LengthCallStep ==
    ASSUME GotInv, UnreadAtOnce, NEW n \in Lens,
           \/ CallSkip(n) \/ CallNext(n) \/ CallReadInt(n) \/ CallTruncate(n)
           \/ CallUnwrite(n) \/ CallUnread(n)
    PROVE  Queue!QueueNext /\ got' \in Seq(Byte) /\ GotBehind(buf', got')
<1> USE DEF GotInv
<1>1. n \in Nat /\ n \in 0 .. MaxArg + MaxRoom
    BY CallsAssumption DEF Lens
<1>2. IsBuffer(buf') => <<>> \in Seq(Byte) /\ GotBehind(buf', <<>>)
    BY NothingBehind
<1>3. CASE CallSkip(n)
    <2>1. Queue!Drop("Skip", n)
        BY <1>1, <1>3, SkipData DEF CallSkip, Called, Queue!Drop
    <2>2. Queue!QueueNext
        BY <1>1, <2>1 DEF Queue!QueueNext
    <2>3. QED BY <1>1, <1>2, <1>3, <2>2, IndexCalls DEF CallSkip, Called
<1>4. CASE CallNext(n)
    <2>1. Queue!Take("Next", n)
        BY <1>1, <1>4, SkipData DEF CallNext, Called, Queue!Take
    <2>2. Queue!QueueNext
        BY <1>1, <2>1 DEF Queue!QueueNext
    <2>3. QED BY <1>1, <1>4, <2>2, SkipBehind DEF CallNext, Called
<1>5. CASE CallReadInt(n)
    <2>1. Queue!Take("ReadInt", n)
        BY <1>1, <1>5, SkipData DEF CallReadInt, Called, Queue!Take
    <2>2. Queue!QueueNext
        BY <1>1, <2>1 DEF Queue!QueueNext
    <2>3. QED BY <1>1, <1>5, <2>2, SkipBehind DEF CallReadInt, Called
<1>6. CASE CallTruncate(n)
    <2>1. Queue!Keep(n)
        BY <1>1, <1>6, TruncateData DEF CallTruncate, Called, Queue!Keep
    <2>2. Queue!QueueNext
        BY <1>1, <2>1 DEF Queue!QueueNext
    <2>3. QED BY <1>1, <1>2, <1>6, <2>2, IndexCalls DEF CallTruncate, Called
<1>7. CASE CallUnwrite(n)
    <2>1. n <= Len(Data(buf))
        BY <1>7, DataType DEF CallUnwrite, CanUnwrite
    <2>2. Queue!Unwrite(n)
        BY <1>1, <1>7, <2>1, UnwriteData DEF CallUnwrite, Called, Queue!Unwrite
    <2>3. Queue!QueueNext
        BY <1>1, <2>2 DEF Queue!QueueNext
    <2>4. QED BY <1>1, <1>2, <1>7, <2>3, IndexCalls DEF CallUnwrite, Called
<1>8. CASE CallUnread(n)
    <2>1. n \in 0 .. Len(got) /\ Length(buf) > 0 /\ CanUnread(buf, n)
        BY <1>1, <1>8 DEF CallUnread
    <2>2. Data(UnreadBytes(buf, n)) = SubSeq(got, Len(got) - n + 1, Len(got)) \o Data(buf)
        BY <2>1, UnreadData
    <2>3. Queue!Unread(n)
        BY <1>8, <2>1, <2>2 DEF CallUnread, Called, Queue!Unread
    <2>4. Queue!QueueNext
        BY <1>1, <2>3 DEF Queue!QueueNext
    <2>5. QED BY <1>1, <1>2, <1>8, <2>4, IndexCalls DEF CallUnread, Called
<1>9. QED BY <1>3, <1>4, <1>5, <1>6, <1>7, <1>8

\* The calls that only manage the storage leave the queue alone.
LEMMA StorageCallStep ==
    ASSUME IsBuffer(buf), NEW n \in 0 .. MaxRoom,
           CallReserve(n) \/ CallEnsure(n) \/ CallToText(n) \/ CallShrink(n)
    PROVE  Queue!QueueNext /\ got' = <<>>
<1>1. n \in Nat /\ n \in 0 .. MaxArg + MaxRoom
    BY CallsAssumption
<1>2. PICK c \in {"Reserve", "EnsureWritableBytes", "ToText", "Shrink"} :
        call' = <<c, n>> /\ got' = <<>>
    BY DEF CallReserve, CallEnsure, CallToText, CallShrink, Called
<1>3. Data(buf') = Data(buf)
    BY <1>1, RoomData, ComposedData
       DEF CallReserve, CallEnsure, CallToText, CallShrink, Called
<1>4. Queue!Storage(c, n)
    BY <1>2, <1>3 DEF Queue!Storage
<1>5. QED BY <1>1, <1>2, <1>4 DEF Queue!QueueNext

\* ReadByte takes one byte.
LEMMA ReadByteStep ==
    ASSUME IsBuffer(buf), CallReadByte
    PROVE  Queue!QueueNext /\ got' \in Seq(Byte) /\ GotBehind(buf', got')
<1>1. 1 \in 0 .. MaxArg + MaxRoom
    <2>1. MaxArg \in Nat /\ MaxArg # 0 /\ MaxRoom \in Nat
        BY CallsAssumption
    <2>2. QED BY <2>1
<1>2. Queue!Upto(1, Data(buf)) = 1
    <2>1. Len(Data(buf)) \in Nat /\ Len(Data(buf)) >= 1
        BY DataType DEF CallReadByte, CanPeek
    <2>2. PICK n \in Nat : n = Len(Data(buf))
        BY <2>1
    <2>3. n >= 1
        BY <2>1, <2>2
    <2>4. (IF 1 < n THEN 1 ELSE n) = 1
        BY <2>3
    <2>5. QED BY <2>2, <2>4 DEF Queue!Upto
<1>3. NextBytes(buf, 1) = SubSeq(Data(buf), 1, Queue!Upto(1, Data(buf)))
    <2>1. 1 \in Nat
        OBVIOUS
    <2>2. QED BY <2>1, SkipData
<1>4. Data(ReadByte(buf)) = SubSeq(Data(buf), Queue!Upto(1, Data(buf)) + 1, Len(Data(buf)))
    <2>1. Data(ReadByte(buf)) = SubSeq(Data(buf), 2, Len(Data(buf)))
        BY ReadByteData DEF CallReadByte
    <2>2. Queue!Upto(1, Data(buf)) + 1 = 2
        BY <1>2
    <2>3. QED BY <2>1, <2>2
<1>5. Queue!Take("ReadByte", 1)
    BY <1>3, <1>4 DEF CallReadByte, Called, Queue!Take
<1>6. Queue!QueueNext
    BY <1>1, <1>5 DEF Queue!QueueNext
<1>7. QED BY <1>6, SkipBehind, ReadByteBehind DEF CallReadByte, Called

\* Every call is a step of the queue, and keeps the invariant.
LEMMA QueueStep ==
    ASSUME GotInv, UnreadAtOnce, [Next]_vars
    PROVE  GotInv' /\ [Queue!QueueNext]_Queue!queueVars
<1>1. CASE Next
    <2>1. IsBuffer(buf')
        BY <1>1, CallStep DEF GotInv
    <2>2. Queue!QueueNext /\ got' \in Seq(Byte) /\ GotBehind(buf', got')
        <3>1. CASE \E d \in Chunks : CallWrite(d) \/ CallWriteBytes(d) \/ CallPrepend(d)
            BY <2>1, <3>1, ChunkCallStep, NothingBehind DEF GotInv
        <3>2. CASE \E n \in Lens :
                    \/ CallSkip(n) \/ CallNext(n) \/ CallReadInt(n) \/ CallTruncate(n)
                    \/ CallUnwrite(n) \/ CallUnread(n)
            BY <3>2, LengthCallStep
        <3>3. CASE \E n \in 0 .. MaxRoom :
                    CallReserve(n) \/ CallEnsure(n) \/ CallToText(n) \/ CallShrink(n)
            BY <2>1, <3>3, StorageCallStep, NothingBehind DEF GotInv
        <3>4. CASE CallReadByte
            BY <3>4, ReadByteStep DEF GotInv
        <3>5. QED BY <1>1, <3>1, <3>2, <3>3, <3>4 DEF Next
    <2>3. GotInv'
        BY <2>1, <2>2 DEF GotInv, IsBuffer, Objects, GotBehind, Length
    <2>4. QED BY <2>2, <2>3
<1>2. CASE UNCHANGED vars
    <2>1. GotInv'
        BY <1>2 DEF vars, GotInv, IsBuffer, Objects, GotBehind, Length
    <2>2. UNCHANGED Queue!queueVars
        BY <1>2 DEF vars, Queue!queueVars, Data, Bytes, Length
    <2>3. QED BY <2>1, <2>2
<1>3. QED BY <1>1, <1>2

\* A new buffer is the empty queue.
LEMMA QueueInitially ==
    ASSUME Init
    PROVE  GotInv /\ Queue!QueueInit
<1>1. IsBuffer(buf)
    BY NewIsBuffer, BufferAssumption DEF Init
<1>2. Length(buf) = 0
    BY BufferAssumption DEF Init, NewBuffer, Length
<1>3. QED BY <1>1, <1>2, NoData, NothingBehind DEF Init, GotInv, Queue!QueueInit

\* A Buffer is the queue of bytes its comments describe, whatever the bytes, the
\* sizes and the sequence of calls, if callers unread only what a read that left
\* bytes returned: no growth, move or swap of the storage loses, repeats or
\* reorders a byte (buffer.h).
THEOREM BufferImplementsQueue == UnreadAtOnce => (Spec => ImplementsQueue)
<1> SUFFICES ASSUME UnreadAtOnce PROVE Spec => ImplementsQueue
    OBVIOUS
<1>1. Init => GotInv /\ Queue!QueueInit
    BY QueueInitially
<1>2. GotInv /\ [Next]_vars => GotInv' /\ [Queue!QueueNext]_Queue!queueVars
    BY QueueStep
<1>3. QED BY <1>1, <1>2, PTL DEF Spec, ImplementsQueue, Queue!QueueSpec

\* UnreadBytes restores what the most recent read returned, as buffer.h:260-261
\* says, if callers unread only what a read that left bytes returned: the last
\* byte of a buffer is gone with the Reset of the read that takes it.
THEOREM UnreadRestoresAtOnce == UnreadAtOnce => (Spec => UnreadRestores)
<1> SUFFICES ASSUME UnreadAtOnce PROVE Spec => UnreadRestores
    OBVIOUS
<1> DEFINE Restores == \A n \in Lens : CallUnread(n) =>
                          Data(buf') = SubSeq(got, Len(got) - n + 1, Len(got)) \o Data(buf)
<1>1. Init => GotInv
    BY QueueInitially
<1>2. GotInv /\ [Next]_vars => GotInv'
    BY QueueStep
<1>3. GotInv => Restores
    <2>1. SUFFICES ASSUME GotInv, NEW n \in Lens, CallUnread(n)
                   PROVE  Data(buf') = SubSeq(got, Len(got) - n + 1, Len(got)) \o Data(buf)
        OBVIOUS
    <2>2. n \in 0 .. Len(got) /\ Length(buf) > 0 /\ CanUnread(buf, n)
        BY <2>1, CallsAssumption DEF CallUnread, Lens
    <2>3. QED BY <2>1, <2>2, UnreadData DEF CallUnread, Called, GotInv
<1>4. QED BY <1>1, <1>2, <1>3, PTL DEF Spec, UnreadRestores
=============================================================================
