----------------------------- MODULE ByteQueue -----------------------------
(***************************************************************************)
(* What the comments of buffer.h promise a caller of Buffer: a queue of     *)
(* bytes, with no memory and no indices.  call is the last call and its     *)
(* argument; got is what the last call, if it was a read, returned.         *)
(***************************************************************************)
EXTENDS Integers, Sequences

CONSTANTS
    Chunks,   \* the byte strings callers pass
    Lens,     \* the lengths callers pass
    ReadCalls,     \* the member functions that return and remove bytes
    AppendCalls,   \* ... that append bytes
    DropCalls,     \* ... that remove bytes without returning them
    StorageCalls   \* ... that leave the contents alone

VARIABLES q, got, call

queueVars == <<q, got, call>>

QueueInit == q = <<>> /\ got = <<>> /\ call = <<"Buffer">>

\* The number of bytes there are, if they are fewer than n.
Upto(n, s) == IF n < Len(s) THEN n ELSE Len(s)

\* d is appended.
Append_(c, d) == call' = <<c, d>> /\ q' = q \o d /\ got' = <<>>

\* d is put before the unread bytes.
Front(d) == call' = <<"Prepend", d>> /\ q' = d \o q /\ got' = <<>>

\* The next n bytes, or all, are returned and removed.
Take(c, n) ==
    /\ call' = <<c, n>>
    /\ got' = SubSeq(q, 1, Upto(n, q))
    /\ q' = SubSeq(q, Upto(n, q) + 1, Len(q))

\* They are removed and not returned.
Drop(c, n) == call' = <<c, n>> /\ q' = SubSeq(q, Upto(n, q) + 1, Len(q)) /\ got' = <<>>

\* "discards all but the first n unread bytes"
Keep(n) == call' = <<"Truncate", n>> /\ q' = SubSeq(q, 1, Upto(n, q)) /\ got' = <<>>

\* The last n bytes written are taken back.
Unwrite(n) ==
    /\ n <= Len(q)
    /\ call' = <<"UnwriteBytes", n>> /\ q' = SubSeq(q, 1, Len(q) - n) /\ got' = <<>>

\* "unreads the last n bytes returned by the most recent read operation"
Unread(n) ==
    /\ n <= Len(got)
    /\ call' = <<"UnreadBytes", n>>
    /\ q' = SubSeq(got, Len(got) - n + 1, Len(got)) \o q
    /\ got' = <<>>

\* The storage changes, the contents do not.
Storage(c, n) == call' = <<c, n>> /\ got' = <<>> /\ UNCHANGED q

QueueNext ==
    \/ \E d \in Chunks : Front(d) \/ \E c \in AppendCalls : Append_(c, d)
    \/ \E n \in Lens :
         \/ \E c \in ReadCalls : Take(c, n)
         \/ \E c \in DropCalls : Drop(c, n)
         \/ \E c \in StorageCalls : Storage(c, n)
         \/ Keep(n) \/ Unwrite(n) \/ Unread(n)

QueueSpec == QueueInit /\ [][QueueNext]_queueVars
=============================================================================
