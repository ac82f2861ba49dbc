----------------------------- MODULE CimBuffer -----------------------------
(***************************************************************************)
(* cim::base::Buffer (base/buffer.h) as values and operators on them.       *)
(*                                                                         *)
(*      | prependable bytes | readable bytes | writable bytes |             *)
(*      0 <=       read_index_   <=   write_index_   <=  capacity_          *)
(*                                                                         *)
(* An operator is a member function: it maps the buffer before the call to  *)
(* the buffer after it.  The assertions a member function makes about its   *)
(* arguments are the preconditions named Can...; the ones it makes about    *)
(* itself are properties of module BufferCalls.                             *)
(***************************************************************************)
EXTENDS Integers, Sequences

CONSTANTS
    Byte,               \* the values of a char
    Junk,               \* one of them: what new char[n] happens to hold
    kCheapPrependSize,  \* 8
    kInitialSize        \* 1024

ASSUME BufferAssumption ==
    /\ Junk \in Byte
    /\ kCheapPrependSize \in Nat
    /\ kInitialSize \in Nat

-----------------------------------------------------------------------------
(* Sizes and contents *)

Length(b)           == b.write_index_ - b.read_index_
WritableBytes(b)    == b.capacity_ - b.write_index_
PrependableBytes(b) == b.read_index_

\* The n bytes of a memory m from offset i on.
Bytes(m, i, n) == [k \in 1 .. n |-> m[i + k - 1]]

\* data(), length(): the unread bytes.
Data(b) == Bytes(b.buffer_, b.read_index_, Length(b))

\* memcpy of the bytes d to offset i of a memory m.
Memcpy(m, i, d) == [k \in DOMAIN m |-> IF k \in i .. i + Len(d) - 1
                                       THEN d[k - i + 1] ELSE m[k]]

\* new char[n].
NewMemory(n) == [k \in 0 .. n - 1 |-> Junk]

\* Buffer(initial_size, reserved_prepend_size).
NewBuffer(initial_size, prepend) ==
    [buffer_                |-> NewMemory(prepend + initial_size),
     capacity_              |-> prepend + initial_size,
     read_index_            |-> prepend,
     write_index_           |-> prepend,
     reserved_prepend_size_ |-> prepend]

-----------------------------------------------------------------------------
(* Reading *)

\* Truncate(n): all but the first n unread bytes are discarded.
Truncate(b, n) ==
    IF n = 0
    THEN [b EXCEPT !.read_index_  = b.reserved_prepend_size_,
                   !.write_index_ = b.reserved_prepend_size_]
    ELSE IF b.write_index_ > b.read_index_ + n
         THEN [b EXCEPT !.write_index_ = b.read_index_ + n]
         ELSE b

Reset(b) == Truncate(b, 0)

\* Seeded fault: Skip does not compare n with length().
SkipPast(b, n) == [b EXCEPT !.read_index_ = @ + n]

\* Skip(n), and Retrieve, Next, NextAll and the ReadInts, which move the indices
\* as it does.
Skip(b, n) == IF n < Length(b) THEN [b EXCEPT !.read_index_ = @ + n] ELSE Reset(b)

\* The bytes Next(n) returns: at most those there are.
NextBytes(b, n) == Bytes(b.buffer_, b.read_index_, IF n < Length(b) THEN n ELSE Length(b))

\* PeekInt64, 32, 16, 8 of width n: the buffer holds as many bytes.
CanPeek(b, n) == Length(b) >= n

\* ReadByte, which does not Reset.
ReadByte(b) == [b EXCEPT !.read_index_ = @ + 1]

\* UnreadBytes(n) and its assertion.
CanUnread(b, n)   == n < b.read_index_
UnreadBytes(b, n) == [b EXCEPT !.read_index_ = @ - n]

-----------------------------------------------------------------------------
(* Writing *)

\* Seeded fault: the bytes are copied from begin(), not from data().
ReallocatedFromBegin(b, len) ==
    LET n == 2 * b.capacity_ + len
        d == Bytes(b.buffer_, 0, Length(b))
    IN  [b EXCEPT !.buffer_      = Memcpy(NewMemory(n), b.reserved_prepend_size_, d),
                  !.capacity_    = n,
                  !.read_index_  = b.reserved_prepend_size_,
                  !.write_index_ = Length(b) + b.reserved_prepend_size_]

\* grow(len), first branch: new storage, readable bytes moved to its front.
Reallocated(b, len) ==
    LET n == 2 * b.capacity_ + len
    IN  [b EXCEPT !.buffer_      = Memcpy(NewMemory(n), b.reserved_prepend_size_, Data(b)),
                  !.capacity_    = n,
                  !.read_index_  = b.reserved_prepend_size_,
                  !.write_index_ = Length(b) + b.reserved_prepend_size_]

\* grow(len), second branch: the readable bytes are moved to the front.
Compacted(b) ==
    [b EXCEPT !.buffer_      = Memcpy(b.buffer_, b.reserved_prepend_size_, Data(b)),
              !.read_index_  = b.reserved_prepend_size_,
              !.write_index_ = b.reserved_prepend_size_ + Length(b)]

\* Is there too little room, before and after the readable bytes, for len more?
MustReallocate(b, len) ==
    WritableBytes(b) + PrependableBytes(b) < len + b.reserved_prepend_size_

\* Seeded fault: the space kept for Prepend is counted as room.
GrowIntoPrepend(b, len) ==
    IF WritableBytes(b) + PrependableBytes(b) < len THEN Reallocated(b, len) ELSE Compacted(b)

\* grow(len).
Grow(b, len) == IF MustReallocate(b, len) THEN Reallocated(b, len) ELSE Compacted(b)

\* Reserve(len).
Reserve(b, len) == IF b.capacity_ >= len + b.reserved_prepend_size_ THEN b
                   ELSE Grow(b, len + b.reserved_prepend_size_)

\* EnsureWritableBytes(len).
EnsureWritableBytes(b, len) == IF WritableBytes(b) < len THEN Grow(b, len) ELSE b

\* The bytes d put at WriteBegin(), and write_index_ moved past them: the end of
\* Write, and what WriteBytes is for (client.cpp:125-126).
Filled(b, d) == [b EXCEPT !.buffer_ = Memcpy(b.buffer_, b.write_index_, d),
                          !.write_index_ = @ + Len(d)]

CanWriteBytes(b, n) == n <= WritableBytes(b)

\* Write(d): Append and the AppendInts are it.
Write(b, d) == Filled(EnsureWritableBytes(b, Len(d)), d)

CanPrepend(b, n) == n <= PrependableBytes(b)

\* Prepend(d): the PrependInts are it.
Prepend(b, d) == [b EXCEPT !.buffer_ = Memcpy(b.buffer_, b.read_index_ - Len(d), d),
                           !.read_index_ = @ - Len(d)]

CanUnwrite(b, n) == n <= Length(b)

\* UnwriteBytes(n).
UnwriteBytes(b, n) == [b EXCEPT !.write_index_ = @ - n]

\* ToText(): a 0 byte after the data, not counted as data.
ToText(b, zero) == UnwriteBytes(Write(b, <<zero>>), 1)

\* Shrink(reserve): a new buffer with the data, swapped with this one.
Shrink(b, reserve) == Write(NewBuffer(Length(b) + reserve, kCheapPrependSize), Data(b))
=============================================================================
