--------------------------------- MODULE MD5 ---------------------------------
(***************************************************************************)
(* The MD5 object (crypt/md5.cpp), with which passwords and files are      *)
(* hashed: bytes are gathered into blocks, digest() pads them in the       *)
(* object itself and puts some of it back, and the object may be asked or  *)
(* fed again, as crypt/test.cpp does.  transform() is an injective term,   *)
(* whatever the width of ulong makes of its arithmetic: what is compared   *)
(* is the bytes and blocks it is applied to, not RFC 1321's numbers.  The  *)
(* state is kept as its two halves, because final() saves 16 bytes of it,  *)
(* which are four words where ulong has four bytes and two where it has    *)
(* eight.  Sizes are scaled: a block has 8 bytes for 64, the length takes  *)
(* 2 of them for 8, and its low word counts to 16 for 2^29.                *)
(***************************************************************************)
EXTENDS Naturals, Sequences

CONSTANTS Lengths,   \* bytes given to one update()
          MaxCalls   \* bound: calls on the object

ASSUME MdAssumption == Lengths \subseteq Nat /\ MaxCalls \in Nat

BlockLen == 8
PadTo == BlockLen - 2
WordRange == 16

VARIABLES ulong,     \* its size in the build: 4 or 8 bytes
          md,        \* the object
          total,     \* history: bytes fed since reset()
          asked,     \* history: the last call was digest()
          spoilt,    \* history: a call came after a digest() that had not put
                     \* back everything
          calls

mdVars == <<ulong, md, total, asked, spoilt, calls>>

-----------------------------------------------------------------------------
\* Bytes: 100 stands for 0x80, 0 for itself, 200 for what was never written.
Marker == 100
Zeros(n) == [i \in 1 .. n |-> 0]
Input(from, n) == [i \in 1 .. n |-> 1 + ((from + i) % 90)]

IV == [lo |-> << >>, hi |-> << >>]
Compress(s, block) == [lo |-> <<"lo", s.lo, s.hi, block>>, hi |-> <<"hi", s.lo, s.hi, block>>]

Reset(o) == [o EXCEPT !.finished = FALSE, !.count = <<0, 0>>, !.state = IV]

\* The bit counter: its low word wraps, with a carry, only where it is as
\* narrow as encode() takes it to be.
Counted(c, n) ==
    IF ulong = 4
    THEN LET low == (c[1] + n) % WordRange
         IN  <<low, c[2] + n \div WordRange + (IF low < n % WordRange THEN 1 ELSE 0)>>
    ELSE <<c[1] + n, c[2] + n \div WordRange>>
Encoded(c) == <<c[1] % WordRange, c[2] % WordRange>>

Over(buffer, index, bytes) ==
    [j \in 1 .. BlockLen |->
        IF j > index /\ j <= index + Len(bytes) THEN bytes[j - index] ELSE buffer[j]]

\* The state after the first n of the blocks.
Chained(s, blocks, n) ==
    LET c[b \in 0 .. n] == IF b = 0 THEN s ELSE Compress(c[b - 1], blocks[b])
    IN  c[n]

\* The input behind position from, in blocks.
Cut(input, from, n) ==
    [b \in 1 .. n |-> SubSeq(input, from + (b - 1) * BlockLen + 1, from + b * BlockLen)]

\* Seeded fault: a last block that is full is left in the input.
TransformedShort(s, input, from) ==
    LET n == IF Len(input) <= from THEN 0 ELSE (Len(input) - from - 1) \div BlockLen
    IN  [state |-> Chained(s, Cut(input, from, n), n),
         rest |-> SubSeq(input, from + n * BlockLen + 1, Len(input))]

\* The whole blocks of the input behind position from, and what is left.
Transformed(s, input, from) ==
    LET n == (Len(input) - from) \div BlockLen
    IN  [state |-> Chained(s, Cut(input, from, n), n),
         rest |-> SubSeq(input, from + n * BlockLen + 1, Len(input))]

update(o, input) ==
    LET index == o.count[1] % BlockLen
        partLen == BlockLen - index
        full == Over(o.buffer, index, SubSeq(input, 1, partLen))
        after == Transformed(Compress(o.state, full), input, partLen)
        fed == [o EXCEPT !.finished = FALSE, !.count = Counted(o.count, Len(input))]
    IN  IF Len(input) >= partLen
        THEN [fed EXCEPT !.state = after.state, !.buffer = Over(full, 0, after.rest)]
        ELSE [fed EXCEPT !.buffer = Over(o.buffer, index, input)]

\* final(): pads through update() and puts back what it has saved, which is
\* never the buffer, and where ulong has eight bytes half of the state and the
\* low word of the count only.  _finished stays as update() leaves it.
final(o) ==
    LET index == o.count[1] % BlockLen
        padLen == IF index < PadTo THEN PadTo - index ELSE BlockLen + PadTo - index
        padded == update(o, <<Marker>> \o Zeros(padLen - 1))
        done == update(padded, Encoded(o.count))
    IN  [done EXCEPT !.digest = done.state,
                     !.state = IF ulong = 4 THEN o.state ELSE [done.state EXCEPT !.lo = o.state.lo],
                     !.count = IF ulong = 4 THEN o.count ELSE <<o.count[1], done.count[2]>>]

-----------------------------------------------------------------------------
Constructed ==
    [state |-> IV, count |-> <<0, 0>>, finished |-> FALSE, digest |-> IV,
     buffer |-> [j \in 1 .. BlockLen |-> 200]]

MdInit ==
    /\ ulong \in {4, 8}
    /\ md = Constructed
    /\ total = 0 /\ asked = FALSE /\ spoilt = FALSE /\ calls = 0

Call == calls < MaxCalls /\ calls' = calls + 1 /\ UNCHANGED ulong

\* A call that is not reset() makes use of what the digest() before it left.
Reused ==
    spoilt' = (spoilt \/ (asked /\ (ulong = 8 \/ total % BlockLen >= PadTo)))

\* update() of a string, or of the next piece of a file.
MdUpdate(n) ==
    /\ Call
    /\ md' = update(md, Input(total, n))
    /\ total' = total + n
    /\ asked' = FALSE /\ Reused

\* digest(), or toString(): _finished is set, and update() inside final()
\* clears it, so that the next digest() computes again.
MdDigest ==
    /\ Call
    /\ md' = IF md.finished THEN md ELSE final([md EXCEPT !.finished = TRUE])
    /\ asked' = TRUE /\ Reused
    /\ UNCHANGED total

MdReset ==
    /\ Call
    /\ md' = Reset(md)
    /\ total' = 0 /\ asked' = FALSE /\ spoilt' = FALSE

MdNext == (\E n \in Lengths : MdUpdate(n)) \/ MdDigest \/ MdReset

MdSpec == MdInit /\ [][MdNext]_mdVars

-----------------------------------------------------------------------------
\* The length that is appended to n bytes.
LengthOf(n) == <<n % WordRange, (n \div WordRange) % WordRange>>

\* n bytes, padded as RFC 1321 pads them, through the code's own transform()
\* block by block.
Reference(n) ==
    LET gap == (2 * BlockLen + PadTo - 1 - (n % BlockLen)) % BlockLen
        message == Input(0, n) \o <<Marker>> \o Zeros(gap) \o LengthOf(n)
    IN  Transformed(IV, message, 0).state

\* A digest is transform() over every byte since reset(), however they were
\* cut into updates, unless the object was asked or fed again after a digest
\* (which is harmless only with a ulong of four bytes and while the padding
\* needs no second block), or, with a ulong of eight, the high word of the
\* length has missed what the pieces pass of 2^29 bytes together and not one
\* by one (update, digest and final of md5.cpp).
DigestIsOfAll ==
    LET lost == ulong = 8 /\ Encoded(md.count) # LengthOf(total)
    IN  asked => (md.digest = Reference(total) <=> ~spoilt /\ ~lost)
==============================================================================
