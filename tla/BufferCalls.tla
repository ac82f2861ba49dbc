---------------------------- MODULE BufferCalls ----------------------------
(***************************************************************************)
(* A cim::base::Buffer and its callers: any sequence of calls that respect  *)
(* the assertions on their arguments.                                       *)
(***************************************************************************)
EXTENDS CimBuffer

CONSTANTS
    MaxLength,    \* bound: the unread bytes callers let a buffer hold
    MaxArg,       \* bound: the bytes a call reads, writes or removes
    MaxRoom,      \* bound: the room a call asks for
    UnreadAtOnce  \* callers unread only what a read that left bytes returned

ASSUME CallsAssumption ==
    /\ MaxLength \in Nat /\ MaxArg \in Nat \ {0} /\ MaxRoom \in Nat
    /\ UnreadAtOnce \in BOOLEAN

Lens   == 0 .. MaxArg
Chunks == UNION {[1 .. n -> Byte] : n \in Lens}

VARIABLES
    buf,   \* the buffer
    got,   \* what the last call returned, if it was a read
    call   \* the last call, and its argument

vars == <<buf, got, call>>

Init == buf = NewBuffer(kInitialSize, kCheapPrependSize) /\ got = <<>> /\ call = <<"Buffer">>

\* Call c with argument x leaves the buffer b and returns r.
Called(c, x, b, r) == call' = <<c, x>> /\ buf' = b /\ got' = r

\* The caller has room, by its own limit, for the bytes d.
Fits(d) == Length(buf) + Len(d) <= MaxLength

CallWrite(d)      == Fits(d) /\ Called("Write", d, Write(buf, d), <<>>)
CallWriteBytes(d) == /\ Fits(d) /\ CanWriteBytes(buf, Len(d))
                     /\ Called("WriteBytes", d, Filled(buf, d), <<>>)
CallPrepend(d)    == /\ Fits(d) /\ CanPrepend(buf, Len(d))
                     /\ Called("Prepend", d, Prepend(buf, d), <<>>)

CallSkip(n)     == Called("Skip", n, Skip(buf, n), <<>>)
CallNext(n)     == Called("Next", n, Skip(buf, n), NextBytes(buf, n))
CallReadInt(n)  == /\ n > 0 /\ CanPeek(buf, n)
                   /\ Called("ReadInt", n, Skip(buf, n), NextBytes(buf, n))
CallReadByte    == /\ CanPeek(buf, 1)
                   /\ Called("ReadByte", 1, ReadByte(buf), NextBytes(buf, 1))
CallTruncate(n) == Called("Truncate", n, Truncate(buf, n), <<>>)
CallUnwrite(n)  == /\ CanUnwrite(buf, n)
                   /\ Called("UnwriteBytes", n, UnwriteBytes(buf, n), <<>>)
CallUnread(n)   == /\ n <= Len(got) /\ CanUnread(buf, n)
                   /\ UnreadAtOnce => Length(buf) > 0
                   /\ Called("UnreadBytes", n, UnreadBytes(buf, n), <<>>)

CallReserve(n) == Called("Reserve", n, Reserve(buf, n), <<>>)
CallEnsure(n)  == Called("EnsureWritableBytes", n, EnsureWritableBytes(buf, n), <<>>)
CallToText(n)  == Called("ToText", n, ToText(buf, Junk), <<>>)
CallShrink(n)  == Called("Shrink", n, Shrink(buf, n), <<>>)

Next ==
    \/ \E d \in Chunks : CallWrite(d) \/ CallWriteBytes(d) \/ CallPrepend(d)
    \/ \E n \in Lens :
         \/ CallSkip(n) \/ CallNext(n) \/ CallReadInt(n) \/ CallTruncate(n)
         \/ CallUnwrite(n) \/ CallUnread(n)
    \/ \E n \in 0 .. MaxRoom :
         \/ CallReserve(n) \/ CallEnsure(n) \/ CallToText(n) \/ CallShrink(n)
    \/ CallReadByte

Spec == Init /\ [][Next]_vars

-----------------------------------------------------------------------------
(* Properties *)

\* A buffer is a memory of capacity_ bytes with its indices in order: every
\* access of every member function is inside the storage it has allocated
\* (the assertions of length() and WritableBytes()).
BufferOK ==
    /\ buf.capacity_ \in Nat /\ buf.buffer_ \in [0 .. buf.capacity_ - 1 -> Byte]
    /\ buf.read_index_ \in Nat /\ buf.write_index_ \in Nat
    /\ buf.reserved_prepend_size_ \in Nat
    /\ buf.read_index_ <= buf.write_index_
    /\ buf.write_index_ <= buf.capacity_
    /\ buf.reserved_prepend_size_ <= buf.capacity_

\* Whatever has been called before, EnsureWritableBytes and Reserve make the room
\* they are asked for, and grow's own assertions hold: the readable bytes are
\* moved only if they are not at the front yet, and they fit.
GrowSafe ==
    \A n \in 0 .. MaxRoom :
        /\ WritableBytes(EnsureWritableBytes(buf, n)) >= n
        /\ Reserve(buf, n).capacity_ >= n + buf.reserved_prepend_size_
        /\ WritableBytes(buf) < n /\ ~MustReallocate(buf, n) =>
              buf.reserved_prepend_size_ < buf.read_index_

\* UnreadBytes puts back the last n bytes the most recent read returned, in front
\* of the unread ones (buffer.h:260-261).
UnreadRestores ==
    [][\A n \in Lens : CallUnread(n) =>
          Data(buf') = SubSeq(got, Len(got) - n + 1, Len(got)) \o Data(buf)]_vars

Queue == INSTANCE ByteQueue WITH
    q            <- Data(buf),
    Lens         <- 0 .. MaxArg + MaxRoom,
    ReadCalls    <- {"Next", "ReadInt", "ReadByte"},
    AppendCalls  <- {"Write", "WriteBytes"},
    DropCalls    <- {"Skip"},
    StorageCalls <- {"Reserve", "EnsureWritableBytes", "ToText", "Shrink"}

\* The buffer is the queue of bytes its comments describe: every call leaves and
\* returns exactly the bytes they say, through every reallocation and move of the
\* readable bytes.
ImplementsQueue == Queue!QueueSpec
=============================================================================
