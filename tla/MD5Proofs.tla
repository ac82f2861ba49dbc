------------------------------ MODULE MD5Proofs ------------------------------
(***************************************************************************)
(* Theorem about MD5: a digest is that of all bytes since reset(), for     *)
(* every sequence of calls and every length of update().                   *)
(*                                                                         *)
(* The state of the object is a chain of compressed blocks.  As the        *)
(* compression function is injective, an object holds the first n bytes of *)
(* a message (Holds) after an update exactly if it held those before it;   *)
(* final() is two updates more, after which the state is the reference's   *)
(* exactly if the bytes were held and their length was counted.  Chains    *)
(* are recursive functions: what is said of all of them is proved by        *)
(* induction over the set of the lengths of which it is true.              *)
(***************************************************************************)
EXTENDS MD5, SequenceTheorems, TLAPS, WellFoundedInduction

-----------------------------------------------------------------------------
(* Induction *)

\* A set of numbers that is not empty has a least one.
LEMMA Least ==
    ASSUME NEW T \in SUBSET Nat, T # {}
    PROVE  \E x \in T : \A y \in T : x <= y
<1> DEFINE R == {ss \in Nat \X Nat : ss[1] < ss[2]}
<1>1. IsWellFoundedOn(R, Nat)
    BY NatLessThanWellFounded DEF OpToRel
<1> HIDE DEF R
<1>2. \E x \in T : \A y \in T : ~ (<<y, x>> \in R)
    BY <1>1, WFMin
<1>3. PICK x \in T : \A y \in T : <<y, x>> \notin R
    BY <1>2
<1>4. ASSUME NEW y \in T PROVE x <= y
    <2>1. <<y, x>> \in Nat \X Nat /\ <<y, x>> \notin R
        BY <1>3
    <2>2. ~(<<y, x>>[1] < <<y, x>>[2])
        BY <2>1 DEF R
    <2>3. QED BY <2>1, <2>2
<1>5. QED BY <1>4

\* A set with 0, and with the successor of each of its numbers, has them all.
LEMMA Induct ==
    ASSUME NEW S, 0 \in S, \A n \in Nat : n \in S => n + 1 \in S
    PROVE  Nat \subseteq S
<1> SUFFICES ASSUME NEW T, T = Nat \ S, T # {} PROVE FALSE
    OBVIOUS
<1>1. PICK x \in T : \A y \in T : x <= y
    BY Least
<1>2. x # 0 /\ x - 1 \in Nat
    OBVIOUS
<1>3. x - 1 \notin T
    BY <1>1, <1>2
<1>4. (x - 1) + 1 = x
    OBVIOUS
<1>5. QED BY <1>2, <1>3, <1>4

-----------------------------------------------------------------------------
(* MD5: chains of blocks *)

\* What the recursion of Chained says of a function.
IsChain(c, s, blocks, n) ==
    c = [b \in 0 .. n |-> IF b = 0 THEN s ELSE Compress(c[b - 1], blocks[b])]

\* A function that satisfies it exists, for every number of blocks.
LEMMA ChainExists ==
    ASSUME NEW s, NEW blocks, NEW n \in Nat
    PROVE  \E c : IsChain(c, s, blocks, n)
<1> DEFINE S == {k \in Nat : \E c : IsChain(c, s, blocks, k)}
<1>1. 0 \in S
    <2> DEFINE c == [b \in 0 .. 0 |-> s]
    <2>1. c = [b \in 0 .. 0 |-> IF b = 0 THEN s ELSE Compress(c[b - 1], blocks[b])]
        OBVIOUS
    <2>2. QED BY <2>1 DEF IsChain
<1>2. ASSUME NEW k \in Nat, k \in S PROVE k + 1 \in S
    <2>1. PICK c : IsChain(c, s, blocks, k)
        BY <1>2
    <2> DEFINE d == [b \in 0 .. k + 1 |-> IF b <= k THEN c[b]
                                          ELSE Compress(c[k], blocks[k + 1])]
    <2>2. ASSUME NEW b \in 0 .. k + 1
          PROVE  d[b] = IF b = 0 THEN s ELSE Compress(d[b - 1], blocks[b])
        <3>1. CASE b = 0
            <4>1. d[b] = c[0] /\ 0 \in 0 .. k
                BY <3>1
            <4>2. c[0] = s
                BY <2>1, <4>1 DEF IsChain
            <4>3. QED BY <3>1, <4>1, <4>2
        <3>2. CASE b \in 1 .. k
            <4>1. d[b] = c[b] /\ d[b - 1] = c[b - 1]
                BY <3>2
            <4>2. b \in 0 .. k /\ b # 0
                BY <3>2
            <4>3. c[b] = Compress(c[b - 1], blocks[b])
                BY <2>1, <4>2 DEF IsChain
            <4>4. QED BY <4>1, <4>2, <4>3
        <3>3. CASE b = k + 1
            <4>1. d[b] = Compress(c[k], blocks[k + 1]) /\ d[b - 1] = c[k] /\ b # 0
                BY <3>3
            <4>2. QED BY <3>3, <4>1
        <3>4. QED BY <3>1, <3>2, <3>3
    <2>3. d = [b \in 0 .. k + 1 |-> IF b = 0 THEN s ELSE Compress(d[b - 1], blocks[b])]
        <3>1. d = [b \in 0 .. k + 1 |-> d[b]]
            OBVIOUS
        <3> HIDE DEF d
        <3>2. QED BY <2>2, <3>1
    <2>4. k + 1 \in Nat
        OBVIOUS
    <2> HIDE DEF d
    <2>5. QED BY <2>3, <2>4 DEF IsChain
<1> HIDE DEF S
<1>3. Nat \subseteq S
    BY <1>1, <1>2, Induct
<1>4. QED BY <1>3 DEF S

\* Two of them agree as far as both go.
LEMMA ChainUnique ==
    ASSUME NEW s, NEW blocks, NEW n \in Nat, NEW m \in Nat, n <= m,
           NEW c, IsChain(c, s, blocks, n), NEW d, IsChain(d, s, blocks, m)
    PROVE  \A k \in 0 .. n : c[k] = d[k]
<1> DEFINE S == {k \in Nat : k <= n => c[k] = d[k]}
<1>1. 0 \in S
    BY DEF IsChain
<1>2. ASSUME NEW k \in Nat, k \in S PROVE k + 1 \in S
    <2>1. SUFFICES ASSUME k + 1 <= n PROVE c[k + 1] = d[k + 1]
        OBVIOUS
    <2>2. k + 1 \in 0 .. n /\ k + 1 \in 0 .. m /\ k + 1 # 0 /\ (k + 1) - 1 = k
        BY <2>1
    <2>3. c[k + 1] = Compress(c[k], blocks[k + 1])
        BY <2>2 DEF IsChain
    <2>4. d[k + 1] = Compress(d[k], blocks[k + 1])
        BY <2>2 DEF IsChain
    <2>5. c[k] = d[k]
        BY <1>2, <2>1
    <2>6. QED BY <2>3, <2>4, <2>5
<1> HIDE DEF S
<1>3. Nat \subseteq S
    BY <1>1, <1>2, Induct
<1>4. QED BY <1>3 DEF S

\* Chained compresses one block after another.
LEMMA ChainedStep ==
    ASSUME NEW s, NEW blocks
    PROVE  /\ Chained(s, blocks, 0) = s
           /\ \A n \in Nat : Chained(s, blocks, n + 1)
                                = Compress(Chained(s, blocks, n), blocks[n + 1])
<1> DEFINE C(n) == CHOOSE c : IsChain(c, s, blocks, n)
<1>1. ASSUME NEW n \in Nat PROVE Chained(s, blocks, n) = C(n)[n] /\ IsChain(C(n), s, blocks, n)
    <2>1. Chained(s, blocks, n) = C(n)[n]
        BY DEF Chained, IsChain
    <2>2. \E c : IsChain(c, s, blocks, n)
        BY ChainExists
    <2>3. QED BY <2>1, <2>2
<1> HIDE DEF C
<1>2. Chained(s, blocks, 0) = s
    <2>1. C(0)[0] = s
        BY <1>1 DEF IsChain
    <2>2. QED BY <1>1, <2>1
<1>3. ASSUME NEW n \in Nat
      PROVE  Chained(s, blocks, n + 1) = Compress(Chained(s, blocks, n), blocks[n + 1])
    <2>1. n + 1 \in Nat /\ n <= n + 1 /\ n + 1 \in 0 .. n + 1 /\ n + 1 # 0 /\ (n + 1) - 1 = n
          /\ n \in 0 .. n
        OBVIOUS
    <2>2. C(n + 1)[n + 1] = Compress(C(n + 1)[n], blocks[n + 1])
        BY <1>1, <2>1 DEF IsChain
    <2>3. C(n)[n] = C(n + 1)[n]
        BY <1>1, <2>1, ChainUnique
    <2>4. QED BY <1>1, <2>1, <2>2, <2>3
<1>4. QED BY <1>2, <1>3

\* A state of the object: the two halves that final() may save apart.
IsState(s) == s = [lo |-> s.lo, hi |-> s.hi]

\* The compression function is injective.
LEMMA CompressEqual ==
    ASSUME NEW s, NEW t, IsState(s), IsState(t), NEW a, NEW b
    PROVE  /\ IsState(Compress(s, a))
           /\ Compress(s, a) = Compress(t, b) <=> s = t /\ a = b
<1>1. IsState(Compress(s, a))
    BY DEF IsState, Compress
<1>2. ASSUME Compress(s, a) = Compress(t, b) PROVE s = t /\ a = b
    <2>1. Compress(s, a).lo = <<"lo", s.lo, s.hi, a>> /\ Compress(t, b).lo = <<"lo", t.lo, t.hi, b>>
        BY DEF Compress
    <2>2. <<"lo", s.lo, s.hi, a>> = <<"lo", t.lo, t.hi, b>>
        BY <1>2, <2>1
    <2>3. s.lo = t.lo /\ s.hi = t.hi /\ a = b
        BY <2>2
    <2>4. QED BY <2>3 DEF IsState
<1>3. QED BY <1>1, <1>2

\* Every state of a chain is one.
LEMMA ChainedState ==
    ASSUME NEW s, IsState(s), NEW blocks, NEW n \in Nat
    PROVE  IsState(Chained(s, blocks, n))
<1> DEFINE S == {k \in Nat : IsState(Chained(s, blocks, k))}
<1>1. 0 \in S
    BY ChainedStep
<1>2. ASSUME NEW k \in Nat, k \in S PROVE k + 1 \in S
    <2>1. Chained(s, blocks, k + 1) = Compress(Chained(s, blocks, k), blocks[k + 1])
        BY ChainedStep
    <2>2. IsState(Chained(s, blocks, k)) /\ k + 1 \in Nat
        BY <1>2
    <2>3. IsState(Chained(s, blocks, k + 1))
        BY <2>1, <2>2, CompressEqual
    <2>4. QED BY <2>2, <2>3
<1> HIDE DEF S
<1>3. Nat \subseteq S
    BY <1>1, <1>2, Induct
<1>4. QED BY <1>3 DEF S

\* A chain goes on where another stands, and only there, with the same result.
LEMMA ChainedJoin ==
    ASSUME NEW s, IsState(s), NEW t, IsState(t), NEW blocks, NEW more,
           NEW q \in Nat, NEW n \in Nat, \A b \in 1 .. n : more[b] = blocks[q + b]
    PROVE  Chained(t, more, n) = Chained(s, blocks, q + n) <=> t = Chained(s, blocks, q)
<1> DEFINE S == {k \in Nat : k <= n =>
                    (Chained(t, more, k) = Chained(s, blocks, q + k)
                        <=> t = Chained(s, blocks, q))}
<1>1. 0 \in S
    BY ChainedStep
<1>2. ASSUME NEW k \in Nat, k \in S PROVE k + 1 \in S
    <2>1. SUFFICES ASSUME k + 1 <= n
                   PROVE  Chained(t, more, k + 1) = Chained(s, blocks, q + (k + 1))
                             <=> t = Chained(s, blocks, q)
        OBVIOUS
    <2>2. k + 1 \in 1 .. n /\ q + (k + 1) = (q + k) + 1 /\ q + k \in Nat
        BY <2>1
    <2>3. Chained(t, more, k + 1) = Compress(Chained(t, more, k), more[k + 1])
        BY ChainedStep
    <2>4. Chained(s, blocks, q + (k + 1)) = Compress(Chained(s, blocks, q + k), more[k + 1])
        <3>1. more[k + 1] = blocks[(q + k) + 1]
            BY <2>2
        <3>2. Chained(s, blocks, (q + k) + 1)
                 = Compress(Chained(s, blocks, q + k), blocks[(q + k) + 1])
            BY <2>2, ChainedStep, ZenonT(30)
        <3>3. QED BY <2>2, <3>1, <3>2
    <2>5. IsState(Chained(t, more, k)) /\ IsState(Chained(s, blocks, q + k))
        BY <2>2, ChainedState
    <2>6. QED BY <1>2, <2>1, <2>3, <2>4, <2>5, CompressEqual
<1> HIDE DEF S
<1>3. Nat \subseteq S
    BY <1>1, <1>2, Induct
<1>4. QED BY <1>3 DEF S

-----------------------------------------------------------------------------
(* MD5: an object that holds the bytes of a message *)

\* A message is a function of positions; its first byte is at 1.
Fed == [i \in Nat |-> 1 + (i % 90)]
Block(f, b) == [j \in 1 .. BlockLen |-> f[BlockLen * (b - 1) + j]]
StateOf(f, b) == Chained(IV, [k \in Nat |-> Block(f, k)], b)

Sound(o, n) ==
    /\ o = [state |-> o.state, count |-> o.count, finished |-> o.finished,
            digest |-> o.digest, buffer |-> o.buffer]
    /\ IsState(o.state)
    /\ o.buffer \in [1 .. BlockLen -> Nat]
    /\ o.count \in Nat \X Nat /\ o.count[1] % BlockLen = n % BlockLen

\* The first n bytes of f are in the object: whole blocks in the state, the
\* others in the buffer.
Holds(o, f, n) ==
    /\ o.state = StateOf(f, n \div BlockLen)
    /\ \A j \in 1 .. n % BlockLen : o.buffer[j] = f[BlockLen * (n \div BlockLen) + j]

\* The state at the start.
LEMMA IVState == IsState(IV)
BY DEF IsState, IV

\* The state after a block more.
LEMMA StateOfStep ==
    ASSUME NEW f, NEW b \in Nat
    PROVE  /\ IsState(StateOf(f, b))
           /\ StateOf(f, 0) = IV
           /\ StateOf(f, b + 1) = Compress(StateOf(f, b), Block(f, b + 1))
<1> DEFINE B == [k \in Nat |-> Block(f, k)]
<1> HIDE DEF B
<1>1. IsState(StateOf(f, b))
    BY IVState, ChainedState DEF StateOf
<1>2. B[b + 1] = Block(f, b + 1)
    BY DEF B
<1>3. StateOf(f, 0) = Chained(IV, B, 0) /\ StateOf(f, b) = Chained(IV, B, b)
      /\ StateOf(f, b + 1) = Chained(IV, B, b + 1)
    BY DEF StateOf, B
<1>4. Chained(IV, B, 0) = IV /\ Chained(IV, B, b + 1) = Compress(Chained(IV, B, b), B[b + 1])
    BY ChainedStep
<1>5. QED BY <1>1, <1>2, <1>3, <1>4

\* It depends on nothing behind it.
LEMMA StateOfAgree ==
    ASSUME NEW f, NEW g, NEW b \in Nat, \A i \in 1 .. BlockLen * b : f[i] = g[i]
    PROVE  StateOf(f, b) = StateOf(g, b)
<1> DEFINE B == [k \in Nat |-> Block(f, k)]
           C == [k \in Nat |-> Block(g, k)]
<1>1. ASSUME NEW k \in 1 .. b PROVE B[k] = C[0 + k]
    <2>1. ASSUME NEW j \in 1 .. BlockLen PROVE f[BlockLen * (k - 1) + j] = g[BlockLen * (k - 1) + j]
        <3>1. BlockLen * (k - 1) + j \in 1 .. BlockLen * b
            BY DEF BlockLen
        <3>2. QED BY <3>1
    <2>2. Block(f, k) = Block(g, k)
        BY <2>1 DEF Block
    <2>3. B[k] = Block(f, k) /\ C[0 + k] = Block(g, k)
        OBVIOUS
    <2>4. QED BY <2>2, <2>3
<1> HIDE DEF B, C
<1>2. Chained(IV, B, b) = Chained(IV, C, 0 + b) <=> IV = Chained(IV, C, 0)
    BY <1>1, ChainedJoin, IVState
<1>3. IV = Chained(IV, C, 0) /\ 0 + b = b
    BY ChainedStep
<1>4. QED BY <1>2, <1>3 DEF StateOf, B, C

\* The same bytes are held or not.
LEMMA HoldsAgree ==
    ASSUME NEW o, NEW f, NEW g, NEW n \in Nat, \A i \in 1 .. n : f[i] = g[i]
    PROVE  Holds(o, f, n) <=> Holds(o, g, n)
<1> DEFINE q == n \div BlockLen
<1>1. q \in Nat /\ n = (8 * q) + (n % 8) /\ n % 8 \in 0 .. 7 /\ BlockLen = 8
    BY DEF BlockLen
<1> HIDE DEF q
<1>2. StateOf(f, q) = StateOf(g, q)
    <2>1. \A i \in 1 .. BlockLen * q : i \in 1 .. n
        BY <1>1
    <2>2. QED BY <1>1, <2>1, StateOfAgree
<1>3. \A j \in 1 .. n % BlockLen : f[BlockLen * q + j] = g[BlockLen * q + j]
    <2>1. \A j \in 1 .. n % BlockLen : BlockLen * q + j \in 1 .. n
        BY <1>1
    <2>2. QED BY <2>1
<1>4. QED BY <1>2, <1>3 DEF Holds, q

-----------------------------------------------------------------------------
(* MD5: update() *)

\* What memcpy leaves in the buffer.
LEMMA OverAt ==
    ASSUME NEW buffer \in [1 .. BlockLen -> Nat], NEW index \in Nat, NEW bytes \in Seq(Nat)
    PROVE  /\ Over(buffer, index, bytes) \in [1 .. BlockLen -> Nat]
           /\ \A j \in 1 .. BlockLen : j <= index => Over(buffer, index, bytes)[j] = buffer[j]
           /\ \A j \in 1 .. BlockLen : j > index /\ j <= index + Len(bytes) =>
                 Over(buffer, index, bytes)[j] = bytes[j - index]
<1>1. ASSUME NEW j \in 1 .. BlockLen, j > index, j <= index + Len(bytes)
      PROVE  j - index \in 1 .. Len(bytes) /\ bytes[j - index] \in Nat
    <2>1. j \in Nat /\ Len(bytes) \in Nat
        BY DEF BlockLen
    <2>2. j - index \in 1 .. Len(bytes)
        BY <1>1, <2>1
    <2>3. QED BY <2>2
<1>2. QED BY <1>1 DEF Over

\* An object that takes more bytes is no longer finished.
LEMMA FedAgain ==
    ASSUME NEW o, o = [state |-> o.state, count |-> o.count, finished |-> o.finished,
                       digest |-> o.digest, buffer |-> o.buffer],
           NEW c, NEW e
    PROVE  [o EXCEPT !.finished = e, !.count = c]
              = [state |-> o.state, count |-> c, finished |-> e,
                 digest |-> o.digest, buffer |-> o.buffer]
<1> DEFINE s == o.state
           x == o.count
           f == o.finished
           d == o.digest
           b == o.buffer
           p == [o EXCEPT !.finished = e]
<1>1. o = [state |-> s, count |-> x, finished |-> f, digest |-> d, buffer |-> b]
    OBVIOUS
<1> HIDE DEF s, x, f, d, b
<1>2. p = [state |-> s, count |-> x, finished |-> e, digest |-> d, buffer |-> b]
    BY <1>1
<1>3. [o EXCEPT !.finished = e, !.count = c] = [p EXCEPT !.count = c]
    OBVIOUS
<1> HIDE DEF p
<1>4. [p EXCEPT !.count = c]
         = [state |-> s, count |-> c, finished |-> e, digest |-> d, buffer |-> b]
    BY <1>2
<1>5. QED BY <1>3, <1>4 DEF s, d, b

\* The object's members after update(), and the branches of update().
LEMMA UpdateIs ==
    ASSUME NEW o, NEW n \in Nat, Sound(o, n), NEW input \in Seq(Nat)
    PROVE  LET r == n % BlockLen
               part == BlockLen - r
               k == (Len(input) - part) \div BlockLen
               full == Over(o.buffer, r, SubSeq(input, 1, part))
               u == update(o, input)
           IN  /\ u = [state |-> u.state, count |-> u.count, finished |-> u.finished,
                       digest |-> u.digest, buffer |-> u.buffer]
               /\ u.count = Counted(o.count, Len(input))
               /\ u.finished = FALSE /\ u.digest = o.digest
               /\ Len(input) < part =>
                     u.state = o.state /\ u.buffer = Over(o.buffer, r, input)
               /\ Len(input) >= part =>
                     /\ u.state = Chained(Compress(o.state, full), Cut(input, part, k), k)
                     /\ u.buffer = Over(full, 0, SubSeq(input, part + k * BlockLen + 1, Len(input)))
<1> DEFINE r == n % BlockLen
           part == BlockLen - r
           k == (Len(input) - part) \div BlockLen
           full == Over(o.buffer, r, SubSeq(input, 1, part))
           after == Transformed(Compress(o.state, full), input, part)
           c == Counted(o.count, Len(input))
           fed == [o EXCEPT !.finished = FALSE, !.count = c]
           u == update(o, input)
<1>1. /\ after.state = Chained(Compress(o.state, full), Cut(input, part, k), k)
      /\ after.rest = SubSeq(input, part + k * BlockLen + 1, Len(input))
    BY DEF Transformed
<1>2. u = IF Len(input) >= part
          THEN [fed EXCEPT !.state = after.state, !.buffer = Over(full, 0, after.rest)]
          ELSE [fed EXCEPT !.buffer = Over(o.buffer, r, input)]
    BY DEF update, Sound
<1> HIDE DEF u, after, full, c, k
<1>3. fed = [state |-> o.state, count |-> c, finished |-> FALSE,
             digest |-> o.digest, buffer |-> o.buffer]
    <2>1. o = [state |-> o.state, count |-> o.count, finished |-> o.finished,
               digest |-> o.digest, buffer |-> o.buffer]
        BY DEF Sound
    <2> DEFINE e == FALSE
    <2>2. fed = [o EXCEPT !.finished = e, !.count = c]
        OBVIOUS
    <2> HIDE DEF e, fed
    <2>3. QED BY <2>1, <2>2, FedAgain DEF e
<1> HIDE DEF fed
<1>4. Len(input) \in Nat /\ part \in Int
    BY DEF BlockLen
<1>5. CASE Len(input) >= part
    <2>1. u = [state |-> after.state, count |-> c, finished |-> FALSE,
               digest |-> o.digest, buffer |-> Over(full, 0, after.rest)]
        BY <1>2, <1>3, <1>5
    <2>2. QED BY <1>1, <1>4, <1>5, <2>1 DEF u, full, k, c
<1>6. CASE Len(input) < part
    <2>1. ~(Len(input) >= part)
        BY <1>4, <1>6
    <2>2. u = [state |-> o.state, count |-> c, finished |-> FALSE,
               digest |-> o.digest, buffer |-> Over(o.buffer, r, input)]
        BY <1>2, <1>3, <2>1
    <2>3. QED BY <1>6, <2>1, <2>2 DEF u, full, k, c
<1>7. Len(input) >= part \/ Len(input) < part
    BY <1>4
<1>8. QED BY <1>5, <1>6, <1>7

\* The counter.
LEMMA CountedIs ==
    ASSUME ulong \in {4, 8}, NEW c \in Nat \X Nat, NEW n \in Nat
    PROVE  /\ Counted(c, n) \in Nat \X Nat
           /\ Counted(c, n)[1] % 8 = (c[1] + n) % 8
           /\ ulong = 8 => Counted(c, n) = <<c[1] + n, c[2] + (n \div 16)>>
           /\ ulong = 4 => \A t \in Nat : c = <<t % 16, t \div 16>> =>
                 Counted(c, n) = <<(t + n) % 16, (t + n) \div 16>>
<1>1. CASE ulong = 4
    <2> DEFINE low == (c[1] + n) % 16
               carry == IF low < n % 16 THEN 1 ELSE 0
    <2>1. Counted(c, n) = <<low, c[2] + (n \div 16) + carry>>
        BY <1>1 DEF Counted, WordRange
    <2>2. low \in Nat /\ carry \in Nat /\ n \div 16 \in Nat /\ c[1] \in Nat /\ c[2] \in Nat
        OBVIOUS
    <2>3. low % 8 = (c[1] + n) % 8
        BY <2>2
    <2>4. ASSUME NEW t \in Nat, c = <<t % 16, t \div 16>>
          PROVE  low = (t + n) % 16 /\ c[2] + (n \div 16) + carry = (t + n) \div 16
        <3>1. c[1] = t % 16 /\ c[2] = t \div 16
            BY <2>4
        <3>2. QED BY <3>1
    <2> HIDE DEF low, carry
    <2>5. QED BY <1>1, <2>1, <2>2, <2>3, <2>4
<1>2. CASE ulong = 8
    <2>1. Counted(c, n) = <<c[1] + n, c[2] + (n \div 16)>>
        BY <1>2 DEF Counted, WordRange
    <2>2. QED BY <1>2, <2>1
<1>3. QED BY <1>1, <1>2

\* The bytes of a message behind position n.
Follows(input, f, n) == \A i \in 1 .. Len(input) : input[i] = f[n + i]

\* The k blocks of the input behind position from are those of the message
\* behind the first p.
Aligned(input, from, k, f, p) ==
    from + 8 * k <= Len(input) /\ Follows(input, f, 8 * p - from)

\* The blocks that update() hands to transform().
LEMMA CutAt ==
    ASSUME NEW input \in Seq(Nat), NEW from \in Nat, NEW k \in Nat, NEW f, NEW p \in Nat,
           Aligned(input, from, k, f, p), NEW b \in 1 .. k
    PROVE  Cut(input, from, k)[b] = Block(f, p + b)
<1> DEFINE m == from + (b - 1) * 8 + 1
           e == from + b * 8
           part == SubSeq(input, m, e)
<1>1. m \in 1 .. Len(input) /\ e \in 1 .. Len(input) /\ e = m + 7
    BY DEF Aligned
<1>2. Cut(input, from, k)[b] = part
    BY DEF Cut, BlockLen
<1>3. part = [j \in 1 .. 8 |-> input[m + j - 1]]
    <2>1. part = [j \in 1 .. (1 + e) - m |-> input[(j + m) - 1]]
        BY <1>1
    <2>2. (1 + e) - m = 8 /\ \A j \in 1 .. 8 : (j + m) - 1 = m + j - 1
        BY <1>1
    <2> HIDE DEF m, e, part
    <2>3. QED BY <2>1, <2>2
<1>4. ASSUME NEW j \in 1 .. 8 PROVE input[m + j - 1] = f[8 * ((p + b) - 1) + j]
    <2>1. m + j - 1 \in 1 .. Len(input)
        BY <1>1
    <2>2. (8 * p - from) + (m + j - 1) = 8 * ((p + b) - 1) + j
        OBVIOUS
    <2> HIDE DEF m
    <2>3. QED BY <2>1, <2>2 DEF Aligned, Follows
<1>5. QED BY <1>2, <1>3, <1>4 DEF Block, BlockLen

\* Places in a block that agree go on agreeing.
LEMMA ModAdd ==
    ASSUME NEW a \in Nat, NEW b \in Nat, NEW c \in Nat, a % 8 = b % 8
    PROVE  (a + c) % 8 = (b + c) % 8
OBVIOUS

\* update() leaves a sound object that holds as many bytes more.
LEMMA UpdateSound ==
    ASSUME ulong \in {4, 8}, NEW o, NEW n \in Nat, Sound(o, n), NEW input \in Seq(Nat)
    PROVE  Sound(update(o, input), n + Len(input))
<1> DEFINE r == n % BlockLen
           part == BlockLen - r
           k == (Len(input) - part) \div BlockLen
           first == SubSeq(input, 1, part)
           full == Over(o.buffer, r, first)
           rest == SubSeq(input, part + k * BlockLen + 1, Len(input))
           u == update(o, input)
<1>1. r \in 0 .. 7 /\ part \in 1 .. 8 /\ BlockLen = 8 /\ Len(input) \in Nat
    BY DEF BlockLen
<1>2. u.count \in Nat \X Nat /\ u.count[1] % BlockLen = (n + Len(input)) % BlockLen
    <2>1. u.count = Counted(o.count, Len(input))
        BY UpdateIs
    <2>2. o.count \in Nat \X Nat /\ o.count[1] % 8 = n % 8
        BY <1>1 DEF Sound
    <2>3. u.count \in Nat \X Nat /\ u.count[1] % 8 = (o.count[1] + Len(input)) % 8
        BY <1>1, <2>1, <2>2, CountedIs
    <2>4. (o.count[1] + Len(input)) % 8 = (n + Len(input)) % 8
        BY <1>1, <2>2, ModAdd
    <2>5. QED BY <1>1, <2>3, <2>4
<1>3. IsState(u.state) /\ u.buffer \in [1 .. BlockLen -> Nat]
    <2>1. IsState(o.state) /\ o.buffer \in [1 .. BlockLen -> Nat]
        BY DEF Sound
    <2>2. CASE Len(input) < part
        <3>1. u.state = o.state /\ u.buffer = Over(o.buffer, r, input)
            BY <2>2, UpdateIs
        <3>2. r \in Nat
            BY <1>1
        <3> HIDE DEF u, r
        <3>3. QED BY <2>1, <3>1, <3>2, OverAt
    <2>3. CASE Len(input) >= part
        <3>1. /\ u.state = Chained(Compress(o.state, full), Cut(input, part, k), k)
              /\ u.buffer = Over(full, 0, rest)
            BY <2>3, UpdateIs
        <3>2. k \in Nat /\ part + k * 8 <= Len(input)
            BY <1>1, <2>3
        <3>3. first \in Seq(Nat)
            <4>1. \A i \in 1 .. part : input[i] \in Nat
                BY <1>1, <2>3
            <4>2. QED BY <1>1, <4>1, SubSeqProperties
        <3>4. rest \in Seq(Nat)
            <4>1. part + k * BlockLen + 1 \in Int /\ part + k * BlockLen + 1 >= 1
                BY <1>1, <3>2
            <4>2. \A i \in part + k * BlockLen + 1 .. Len(input) : input[i] \in Nat
                BY <4>1
            <4>3. QED BY <1>1, <4>1, <4>2, SubSeqProperties
        <3>5. r \in Nat
            BY <1>1
        <3> HIDE DEF u, r, part, k, first, rest
        <3>6. full \in [1 .. BlockLen -> Nat]
            BY <2>1, <3>3, <3>5, OverAt
        <3> HIDE DEF full
        <3>7. Over(full, 0, rest) \in [1 .. BlockLen -> Nat]
            BY <3>4, <3>6, OverAt
        <3>8. IsState(Compress(o.state, full))
            BY <2>1, CompressEqual
        <3>9. QED BY <3>1, <3>2, <3>7, <3>8, ChainedState
    <2>4. QED BY <1>1, <2>2, <2>3
<1>4. u = [state |-> u.state, count |-> u.count, finished |-> u.finished,
           digest |-> u.digest, buffer |-> u.buffer]
    BY UpdateIs
<1>5. QED BY <1>2, <1>3, <1>4 DEF Sound

\* Bytes that do not fill the block.
LEMMA UpdateShort ==
    ASSUME NEW o, NEW n \in Nat, Sound(o, n), NEW input \in Seq(Nat),
           NEW r, r = n % 8, Len(input) < 8 - r
    PROVE  update(o, input).state = o.state /\ update(o, input).buffer = Over(o.buffer, r, input)
<1>1. BlockLen = 8 /\ n % BlockLen = r
    BY DEF BlockLen
<1>2. Len(input) < BlockLen - (n % BlockLen)
    BY <1>1
<1>3. /\ update(o, input).state = o.state
      /\ update(o, input).buffer = Over(o.buffer, n % BlockLen, input)
    BY <1>2, UpdateIs
<1>4. QED BY <1>1, <1>3

\* The input fills the block of which r bytes are there with its first part
\* bytes, and k blocks more.
Fills(n, input, r, part, k) ==
    /\ r = n % 8 /\ part = 8 - r
    /\ Len(input) >= part /\ k = (Len(input) - part) \div 8

\* Bytes that fill the block, and perhaps others.
LEMMA UpdateLong ==
    ASSUME NEW o, NEW n \in Nat, Sound(o, n), NEW input \in Seq(Nat),
           NEW r, NEW part, NEW k, Fills(n, input, r, part, k)
    PROVE  LET full == Over(o.buffer, r, SubSeq(input, 1, part))
           IN  /\ update(o, input).state
                     = Chained(Compress(o.state, full), Cut(input, part, k), k)
               /\ update(o, input).buffer
                     = Over(full, 0, SubSeq(input, part + k * 8 + 1, Len(input)))
<1> DEFINE full == Over(o.buffer, r, SubSeq(input, 1, part))
<1>1. BlockLen = 8 /\ n % BlockLen = r /\ BlockLen - r = part
      /\ (Len(input) - part) \div BlockLen = k /\ Len(input) >= part
    BY DEF BlockLen, Fills
<1> DEFINE x == n % BlockLen
           y == BlockLen - x
           z == (Len(input) - y) \div BlockLen
           w == Over(o.buffer, x, SubSeq(input, 1, y))
<1>2. Len(input) >= y
    BY <1>1
<1>3. /\ update(o, input).state = Chained(Compress(o.state, w), Cut(input, y, z), z)
      /\ update(o, input).buffer = Over(w, 0, SubSeq(input, y + z * BlockLen + 1, Len(input)))
    BY <1>2, UpdateIs
<1>4. x = r /\ y = part /\ z = k
    BY <1>1
<1> HIDE DEF x, y, z
<1>5. w = full
    BY <1>4
<1> HIDE DEF w
<1>6. QED BY <1>1, <1>3, <1>4, <1>5

\* Where the bytes behind position n come to lie.
LEMMA Places ==
    ASSUME NEW n \in Nat, NEW len \in Nat
    PROVE  \E r \in 0 .. 7, q \in Nat :
              /\ r = n % 8 /\ q = n \div 8 /\ n = (8 * q) + r
              /\ len < 8 - r => (n + len) \div 8 = q /\ (n + len) % 8 = r + len
              /\ len >= 8 - r => \E k \in Nat, l \in 0 .. 7 :
                    /\ k = (len - (8 - r)) \div 8 /\ l = (len - (8 - r)) % 8
                    /\ len = (8 - r) + (8 * k) + l
                    /\ (n + len) \div 8 = q + 1 + k /\ (n + len) % 8 = l
<1>1. PICK r \in 0 .. 7, q \in Nat : r = n % 8 /\ q = n \div 8 /\ n = (8 * q) + r
    <2>1. n % 8 \in 0 .. 7 /\ n \div 8 \in Nat /\ n = (8 * (n \div 8)) + (n % 8)
        OBVIOUS
    <2>2. QED BY <2>1
<1>2. ASSUME len < 8 - r PROVE (n + len) \div 8 = q /\ (n + len) % 8 = r + len
    BY <1>1, <1>2
<1>3. ASSUME len >= 8 - r
      PROVE  \E k \in Nat, l \in 0 .. 7 :
                /\ k = (len - (8 - r)) \div 8 /\ l = (len - (8 - r)) % 8
                /\ len = (8 - r) + (8 * k) + l
                /\ (n + len) \div 8 = q + 1 + k /\ (n + len) % 8 = l
    <2>1. PICK d \in Nat : d = len - (8 - r)
        BY <1>3
    <2>2. PICK k \in Nat, l \in 0 .. 7 : k = d \div 8 /\ l = d % 8 /\ d = (8 * k) + l
        <3>1. d % 8 \in 0 .. 7 /\ d \div 8 \in Nat /\ d = (8 * (d \div 8)) + (d % 8)
            OBVIOUS
        <3>2. QED BY <3>1
    <2>3. n + len = (8 * (q + 1 + k)) + l
        BY <1>1, <2>1, <2>2
    <2>4. (n + len) \div 8 = q + 1 + k /\ (n + len) % 8 = l
        BY <2>3
    <2>5. len = (8 - r) + (8 * k) + l
        BY <2>1, <2>2
    <2>6. QED BY <2>1, <2>2, <2>4, <2>5
<1>4. QED BY <1>1, <1>2, <1>3

\* update() of the next bytes of a message holds them exactly if those before
\* them were held.
LEMMA UpdateHolds ==
    ASSUME ulong \in {4, 8}, NEW o, NEW n \in Nat, Sound(o, n), NEW input \in Seq(Nat),
           NEW f, Follows(input, f, n)
    PROVE  Holds(update(o, input), f, n + Len(input)) <=> Holds(o, f, n)
<1>1. PICK len \in Nat : len = Len(input)
    OBVIOUS
<1>2. PICK r \in 0 .. 7, q \in Nat :
              /\ r = n % 8 /\ q = n \div 8 /\ n = (8 * q) + r
              /\ len < 8 - r => (n + len) \div 8 = q /\ (n + len) % 8 = r + len
              /\ len >= 8 - r => \E k \in Nat, l \in 0 .. 7 :
                    /\ k = (len - (8 - r)) \div 8 /\ l = (len - (8 - r)) % 8
                    /\ len = (8 - r) + (8 * k) + l
                    /\ (n + len) \div 8 = q + 1 + k /\ (n + len) % 8 = l
    BY Places
<1>3. PICK u : u = update(o, input)
    OBVIOUS
<1>4. PICK b : b = o.buffer
    OBVIOUS
<1>5. IsState(o.state) /\ b \in [1 .. BlockLen -> Nat] /\ BlockLen = 8
    BY <1>4 DEF Sound, BlockLen
<1>6. Holds(o, f, n) <=> /\ o.state = StateOf(f, q)
                         /\ \A j \in 1 .. r : b[j] = f[(8 * q) + j]
    BY <1>2, <1>4, <1>5 DEF Holds
<1>7. ASSUME len < 8 - r PROVE Holds(u, f, n + len) <=> Holds(o, f, n)
    <2>1. u.state = o.state /\ u.buffer = Over(b, r, input)
        BY <1>1, <1>2, <1>3, <1>4, <1>7, UpdateShort
    <2>2. PICK v : v = Over(b, r, input)
        OBVIOUS
    <2>3. Holds(u, f, n + len) <=> /\ o.state = StateOf(f, q)
                                   /\ \A j \in 1 .. r + len : v[j] = f[(8 * q) + j]
        BY <1>2, <1>5, <1>7, <2>1, <2>2 DEF Holds
    <2>4. /\ \A j \in 1 .. 8 : j <= r => v[j] = b[j]
          /\ \A j \in 1 .. 8 : j > r /\ j <= r + len => v[j] = input[j - r]
        <3>1. r \in Nat
            OBVIOUS
        <3>2. /\ \A j \in 1 .. BlockLen : j <= r => Over(b, r, input)[j] = b[j]
              /\ \A j \in 1 .. BlockLen : j > r /\ j <= r + Len(input) =>
                    Over(b, r, input)[j] = input[j - r]
            BY <1>1, <1>5, <3>1 DEF Over
        <3>3. QED BY <1>1, <1>5, <2>2, <3>2
    <2>5. ASSUME NEW j \in r + 1 .. r + len PROVE v[j] = f[(8 * q) + j]
        <3>1. j \in 1 .. 8 /\ j > r /\ j <= r + len
            BY <1>7
        <3>2. v[j] = input[j - r]
            BY <2>4, <3>1
        <3>3. j - r \in 1 .. len /\ n + (j - r) = (8 * q) + j
            BY <1>2, <3>1
        <3>4. QED BY <1>1, <3>2, <3>3 DEF Follows
    <2>6. \A j \in 1 .. r : j \in 1 .. r + len /\ j \in 1 .. 8 /\ j <= r
        OBVIOUS
    <2>7. \A j \in 1 .. r + len : j \in 1 .. r \/ j \in r + 1 .. r + len
        OBVIOUS
    <2>8. QED BY <1>6, <2>3, <2>4, <2>5, <2>6, <2>7
<1>8. ASSUME len >= 8 - r PROVE Holds(u, f, n + len) <=> Holds(o, f, n)
    <2>1. PICK part \in 1 .. 8 : part = 8 - r
        OBVIOUS
    <2>2. PICK k \in Nat, l \in 0 .. 7 :
                /\ k = (len - part) \div 8
                /\ len = part + (8 * k) + l
                /\ (n + len) \div 8 = q + 1 + k /\ (n + len) % 8 = l
        BY <1>2, <1>8, <2>1
    <2>3. PICK p \in Nat : p = q + 1
        OBVIOUS
    <2>4. PICK first : first = SubSeq(input, 1, part)
        OBVIOUS
    <2>5. PICK full : full = Over(b, r, first)
        OBVIOUS
    <2>6. PICK m \in Nat : m = part + k * 8 + 1
        OBVIOUS
    <2>7. PICK rest : rest = SubSeq(input, m, len)
        OBVIOUS
    <2>8. PICK cut : cut = Cut(input, part, k)
        OBVIOUS
    <2>9. PICK next : next = Compress(o.state, full)
        OBVIOUS
    <2>10. u.state = Chained(next, cut, k) /\ u.buffer = Over(full, 0, rest)
        <3>1. Fills(n, input, r, part, k)
            BY <1>1, <1>2, <1>8, <2>1, <2>2 DEF Fills
        <3>2. full = Over(o.buffer, r, SubSeq(input, 1, part))
            BY <1>4, <2>4, <2>5
        <3>3. /\ update(o, input).state = Chained(Compress(o.state, full), Cut(input, part, k), k)
              /\ update(o, input).buffer
                    = Over(full, 0, SubSeq(input, part + k * 8 + 1, Len(input)))
            BY <3>1, <3>2, UpdateLong
        <3>4. QED BY <1>1, <1>3, <2>6, <2>7, <2>8, <2>9, <3>3
    <2>11. \A i \in 1 .. k : cut[i] = Block(f, p + i)
        <3>1. part + 8 * k <= Len(input) /\ n + part = 8 * p /\ part \in Nat
            BY <1>1, <1>2, <2>1, <2>2, <2>3
        <3>2. ASSUME NEW i \in 1 .. k PROVE Cut(input, part, k)[i] = Block(f, p + i)
            <4>1. Follows(input, f, 8 * p - part)
                <5>1. n = 8 * p - part
                    BY <3>1
                <5>2. QED BY <5>1
            <4>2. Aligned(input, part, k, f, p) /\ part \in Nat
                BY <3>1, <4>1 DEF Aligned
            <4>3. QED BY <4>2, CutAt
        <3>3. QED BY <2>8, <3>2
    <2>12. first \in Seq(Nat) /\ Len(first) = part /\ \A j \in 1 .. part : first[j] = f[n + j]
        <3>1. \A i \in 1 .. part : i \in 1 .. Len(input) /\ input[i] \in Nat
            BY <1>1, <1>8, <2>1
        <3>2. part \in Int /\ 1 <= part /\ (part - 1) + 1 = part
            OBVIOUS
        <3>3. /\ first \in Seq(Nat) /\ Len(first) = part
              /\ \A i \in 1 .. part : first[i] = input[1 + i - 1]
            BY <2>4, <3>1, <3>2, SubSeqProperties
        <3>4. ASSUME NEW j \in 1 .. part PROVE first[j] = f[n + j]
            <4>1. 1 + j - 1 = j
                OBVIOUS
            <4>2. QED BY <3>1, <3>3, <4>1 DEF Follows
        <3>5. QED BY <3>3, <3>4
    <2>13. /\ full \in [1 .. 8 -> Nat]
           /\ \A j \in 1 .. 8 : j <= r => full[j] = b[j]
           /\ \A j \in 1 .. 8 : j > r => full[j] = f[(8 * q) + j]
        <3>1. r \in Nat /\ r + part = 8
            BY <2>1
        <3>2. /\ full \in [1 .. 8 -> Nat]
              /\ \A j \in 1 .. 8 : j <= r => full[j] = b[j]
              /\ \A j \in 1 .. 8 : j > r /\ j <= r + Len(first) => full[j] = first[j - r]
            <4>1. /\ Over(b, r, first) \in [1 .. BlockLen -> Nat]
                  /\ \A j \in 1 .. BlockLen : j <= r => Over(b, r, first)[j] = b[j]
                  /\ \A j \in 1 .. BlockLen : j > r /\ j <= r + Len(first) =>
                        Over(b, r, first)[j] = first[j - r]
                <5>1. Over(b, r, first) \in [1 .. BlockLen -> Nat]
                    BY <1>5, <2>12, <3>1, OverAt
                <5>2. QED BY <1>5, <2>12, <3>1, <5>1 DEF Over
            <4>2. QED BY <1>5, <2>5, <4>1
        <3>3. ASSUME NEW j \in 1 .. 8, j > r PROVE full[j] = f[(8 * q) + j]
            <4>1. j <= r + part /\ j - r \in 1 .. part /\ n + (j - r) = (8 * q) + j
                BY <1>2, <3>1, <3>3
            <4>2. full[j] = first[j - r]
                BY <2>12, <3>2, <3>3, <4>1
            <4>3. QED BY <2>12, <4>1, <4>2
        <3>4. QED BY <3>2, <3>3
    <2>14. \A j \in 1 .. l : u.buffer[j] = f[8 * (p + k) + j]
        <3>1. l = len - m + 1 /\ \A i \in m .. len : i \in 1 .. Len(input)
            BY <1>1, <2>2, <2>6
        <3>2. rest \in Seq(Nat) /\ Len(rest) = l /\ \A i \in 1 .. l : rest[i] = input[m + i - 1]
            <4>1. \A i \in m .. len : input[i] \in Nat
                BY <3>1
            <4>2. m <= len \/ l = 0
                BY <3>1
            <4>3. m \in Int /\ len \in Int /\ len - m + 1 = l
                BY <3>1
            <4>4. /\ SubSeq(input, m, len) \in Seq(Nat)
                  /\ Len(SubSeq(input, m, len)) = IF m <= len THEN len - m + 1 ELSE 0
                  /\ \A i \in 1 .. len - m + 1 : SubSeq(input, m, len)[i] = input[m + i - 1]
                BY <4>1, <4>3, SubSeqProperties
            <4>5. QED BY <2>7, <4>2, <4>3, <4>4
        <3>3. PICK v : v = Over(full, 0, rest)
            OBVIOUS
        <3>4. \A j \in 1 .. 8 : j > 0 /\ j <= 0 + l => v[j] = rest[j - 0]
            <4>1. full \in [1 .. BlockLen -> Nat] /\ 0 \in Nat
                BY <1>5, <2>13
            <4>2. \A j \in 1 .. BlockLen : j > 0 /\ j <= 0 + Len(rest) =>
                      Over(full, 0, rest)[j] = rest[j - 0]
                BY <3>2, <4>1, OverAt
            <4>3. QED BY <1>5, <3>2, <3>3, <4>2
        <3>5. ASSUME NEW j \in 1 .. l PROVE u.buffer[j] = f[8 * (p + k) + j]
            <4>1. j \in 1 .. 8 /\ j > 0 /\ j <= 0 + l /\ j - 0 = j
                OBVIOUS
            <4>2. u.buffer[j] = rest[j]
                BY <2>10, <3>3, <3>4, <4>1
            <4>3. m + j - 1 \in 1 .. Len(input) /\ n + (m + j - 1) = 8 * (p + k) + j
                <5>1. len = part + (8 * k) + l /\ n = (8 * q) + r /\ part = 8 - r
                      /\ p = q + 1 /\ m = part + (k * 8) + 1 /\ len = Len(input)
                    BY <1>1, <1>2, <2>1, <2>2, <2>3, <2>6
                <5>2. n + (m + j - 1) = (8 * q) + r + (8 - r) + (8 * k) + j
                    BY <5>1
                <5>3. m + j - 1 \in 1 .. len
                    BY <5>1
                <5>4. QED BY <5>1, <5>2, <5>3
            <4>4. QED BY <3>2, <4>2, <4>3 DEF Follows
        <3>6. QED BY <3>5
    <2>15. Holds(u, f, n + len) <=> u.state = StateOf(f, p + k)
        <3>1. (n + len) \div BlockLen = p + k /\ (n + len) % BlockLen = l
            BY <1>5, <2>2, <2>3
        <3>2. QED BY <1>5, <2>14, <3>1 DEF Holds
    <2>16. u.state = StateOf(f, p + k) <=> next = StateOf(f, p)
        <3>1. PICK B : B = [i \in Nat |-> Block(f, i)]
            OBVIOUS
        <3>2. IsState(next)
            BY <1>5, <2>9, CompressEqual
        <3>3. \A i \in 1 .. k : cut[i] = B[p + i]
            <4>1. \A i \in 1 .. k : p + i \in Nat
                OBVIOUS
            <4>2. QED BY <2>11, <3>1, <4>1
        <3>4. StateOf(f, p + k) = Chained(IV, B, p + k) /\ StateOf(f, p) = Chained(IV, B, p)
            BY <3>1 DEF StateOf
        <3>5. Chained(next, cut, k) = Chained(IV, B, p + k) <=> next = Chained(IV, B, p)
            BY IVState, <3>2, <3>3, ChainedJoin
        <3>6. QED BY <2>10, <3>4, <3>5
    <2>17. next = StateOf(f, p) <=> o.state = StateOf(f, q) /\ full = Block(f, p)
        <3>1. StateOf(f, p) = Compress(StateOf(f, q), Block(f, p)) /\ IsState(StateOf(f, q))
            BY <2>3, StateOfStep
        <3>2. QED BY <1>5, <2>9, <3>1, CompressEqual, SMTT(30)
    <2>18. full = Block(f, p) <=> \A j \in 1 .. r : b[j] = f[(8 * q) + j]
        <3>1. Block(f, p) = [j \in 1 .. 8 |-> f[(8 * q) + j]]
            <4>1. 8 * (p - 1) = 8 * q
                BY <2>3
            <4>2. QED BY <4>1 DEF Block, BlockLen
        <3>2. full = Block(f, p) <=> \A j \in 1 .. 8 : full[j] = f[(8 * q) + j]
            BY <2>13, <3>1
        <3>3. \A j \in 1 .. r : j \in 1 .. 8 /\ j <= r
            OBVIOUS
        <3>4. \A j \in 1 .. 8 : j \in 1 .. r \/ j > r
            OBVIOUS
        <3>5. QED BY <2>13, <3>2, <3>3, <3>4
    <2>19. QED BY <1>6, <2>15, <2>16, <2>17, <2>18
<1>9. len < 8 - r \/ len >= 8 - r
    OBVIOUS
<1>10. QED BY <1>1, <1>3, <1>7, <1>8, <1>9

-----------------------------------------------------------------------------
(* MD5: padding *)

PadLen(n) == IF n % 8 < 6 THEN 6 - (n % 8) ELSE 14 - (n % 8)
Padding(n) == <<Marker>> \o Zeros(PadLen(n) - 1)

\* The n bytes that were fed, their padding, and a length of a and b.
Message(n, a, b) ==
    [i \in Nat |-> IF i <= n THEN Fed[i]
                   ELSE IF i = n + 1 THEN Marker
                   ELSE IF i <= n + PadLen(n) THEN 0
                   ELSE IF i = n + PadLen(n) + 1 THEN a ELSE b]

\* The length is appended behind six bytes of the last block.
LEMMA PadPlaces ==
    ASSUME NEW n \in Nat
    PROVE  \E r \in 0 .. 7, q \in Nat, p \in 1 .. 8, t \in Nat :
              /\ r = n % 8 /\ q = n \div 8 /\ n = (8 * q) + r
              /\ p = PadLen(n) /\ p = (IF r < 6 THEN 6 - r ELSE 14 - r)
              /\ n + p = (8 * t) + 6 /\ (n + p) % 8 = 6
              /\ (n + p + 2) \div 8 = t + 1 /\ (n + p + 2) % 8 = 0
<1>1. PICK r \in 0 .. 7, q \in Nat : r = n % 8 /\ q = n \div 8 /\ n = (8 * q) + r
    BY Places
<1>2. PICK p \in 1 .. 8 : p = PadLen(n) /\ p = (IF r < 6 THEN 6 - r ELSE 14 - r)
    BY <1>1 DEF PadLen
<1>3. PICK t \in Nat : n + p = (8 * t) + 6
    <2>1. CASE r < 6
        BY <1>1, <1>2, <2>1
    <2>2. CASE ~(r < 6)
        <3>1. n + p = (8 * (q + 1)) + 6 /\ q + 1 \in Nat
            BY <1>1, <1>2, <2>2
        <3>2. QED BY <3>1
    <2>3. QED BY <2>1, <2>2
<1>4. (n + p) % 8 = 6 /\ (n + p + 2) \div 8 = t + 1 /\ (n + p + 2) % 8 = 0
    BY <1>3
<1>5. QED BY <1>1, <1>2, <1>3, <1>4

\* What is fed lies between 1 and 90: no marker, and no zero.
LEMMA FedIs ==
    ASSUME NEW i \in Nat
    PROVE  Fed[i] \in 1 .. 90
BY DEF Fed

\* The padding, byte by byte.
LEMMA PaddingIs ==
    ASSUME NEW n \in Nat
    PROVE  /\ Padding(n) \in Seq(Nat) /\ Len(Padding(n)) = PadLen(n)
           /\ \A i \in 1 .. PadLen(n) : Padding(n)[i] = IF i = 1 THEN Marker ELSE 0
<1>1. PICK p \in 1 .. 8 : p = PadLen(n)
    BY PadPlaces
<1>2. PICK z : z = Zeros(p - 1)
    OBVIOUS
<1>3. z \in Seq(Nat) /\ Len(z) = p - 1 /\ \A i \in 1 .. p - 1 : z[i] = 0
    <2>1. z = [i \in 1 .. p - 1 |-> 0] /\ p - 1 \in Nat
        BY <1>2 DEF Zeros
    <2>2. QED BY <2>1
<1>4. <<Marker>> \in Seq(Nat) /\ Len(<<Marker>>) = 1 /\ <<Marker>>[1] = Marker
    BY DEF Marker
<1>5. PICK m : m = <<Marker>>
    OBVIOUS
<1>6. /\ m \o z \in Seq(Nat) /\ Len(m \o z) = Len(m) + Len(z)
      /\ \A i \in 1 .. Len(m) + Len(z) : (m \o z)[i] = IF i <= Len(m) THEN m[i] ELSE z[i - Len(m)]
    BY <1>3, <1>4, <1>5, ConcatProperties
<1>7. Padding(n) = m \o z
    BY <1>1, <1>2, <1>5 DEF Padding
<1>8. ASSUME NEW i \in 1 .. p PROVE (m \o z)[i] = IF i = 1 THEN Marker ELSE 0
    <2>1. CASE i = 1
        BY <1>3, <1>4, <1>5, <1>6, <2>1
    <2>2. CASE i # 1
        <3>1. i - 1 \in 1 .. p - 1 /\ ~(i <= 1)
            BY <2>2
        <3>2. (m \o z)[i] = z[i - 1]
            BY <1>3, <1>4, <1>5, <1>6, <3>1
        <3>3. QED BY <1>3, <2>2, <3>1, <3>2
    <2>3. QED BY <2>1, <2>2
<1>9. QED BY <1>1, <1>3, <1>4, <1>5, <1>6, <1>7, <1>8

\* final() feeds the rest of the message.
LEMMA PaddingFollows ==
    ASSUME NEW n \in Nat, NEW a \in Nat, NEW b \in Nat
    PROVE  /\ Follows(Padding(n), Message(n, a, b), n)
           /\ <<a, b>> \in Seq(Nat) /\ Len(<<a, b>>) = 2
           /\ Follows(<<a, b>>, Message(n, a, b), n + PadLen(n))
           /\ \A i \in 1 .. n : Fed[i] = Message(n, a, b)[i]
<1>1. PICK p \in 1 .. 8 : p = PadLen(n)
    BY PadPlaces
<1>2. PICK m : m = Message(n, a, b)
    OBVIOUS
<1>3. m = [i \in Nat |-> IF i <= n THEN Fed[i]
                         ELSE IF i = n + 1 THEN Marker
                         ELSE IF i <= n + p THEN 0
                         ELSE IF i = n + p + 1 THEN a ELSE b]
    BY <1>1, <1>2 DEF Message
<1>4. Follows(Padding(n), m, n)
    <2>1. ASSUME NEW i \in 1 .. p PROVE m[n + i] = IF i = 1 THEN Marker ELSE 0
        <3>1. n + i \in Nat /\ ~(n + i <= n) /\ n + i <= n + p /\ (n + i = n + 1 <=> i = 1)
            OBVIOUS
        <3>2. QED BY <1>3, <3>1
    <2>2. QED BY <1>1, <2>1, PaddingIs DEF Follows
<1>5. <<a, b>> \in Seq(Nat) /\ Len(<<a, b>>) = 2
    OBVIOUS
<1>6. m[n + p + 1] = a /\ m[n + p + 2] = b
    <2>1. /\ n + p + 1 \in Nat /\ ~(n + p + 1 <= n) /\ n + p + 1 # n + 1 /\ ~(n + p + 1 <= n + p)
          /\ n + p + 2 \in Nat /\ ~(n + p + 2 <= n) /\ n + p + 2 # n + 1 /\ ~(n + p + 2 <= n + p)
          /\ n + p + 2 # n + p + 1
        OBVIOUS
    <2>2. QED BY <1>3, <2>1
<1>7. Follows(<<a, b>>, m, n + p)
    <2>1. ASSUME NEW i \in 1 .. 2 PROVE <<a, b>>[i] = m[n + p + i]
        BY <1>6
    <2>2. QED BY <1>5, <2>1 DEF Follows
<1>8. \A i \in 1 .. n : Fed[i] = m[i]
    BY <1>3
<1>9. QED BY <1>1, <1>2, <1>4, <1>5, <1>7, <1>8

\* The reference is the state of the padded message.
LEMMA ReferenceIs ==
    ASSUME NEW n \in Nat, NEW a, NEW b, a = LengthOf(n)[1], b = LengthOf(n)[2],
           NEW t \in Nat, n + PadLen(n) = (8 * t) + 6
    PROVE  Reference(n) = StateOf(Message(n, a, b), t + 1)
<1>1. PICK r \in 0 .. 7, p \in 1 .. 8 :
          r = n % 8 /\ p = PadLen(n) /\ p = (IF r < 6 THEN 6 - r ELSE 14 - r)
    BY PadPlaces
<1>2. a \in Nat /\ b \in Nat /\ LengthOf(n) = <<a, b>>
    BY DEF LengthOf, WordRange
<1>3. (2 * BlockLen + PadTo - 1 - (n % BlockLen)) % BlockLen = p - 1
    <2>1. (21 - r) % 8 = p - 1
        <3>1. r \in {0, 1, 2, 3, 4, 5, 6, 7}
            OBVIOUS
        <3>2. QED BY <1>1, <3>1
    <2>2. QED BY <1>1, <2>1 DEF BlockLen, PadTo
<1>4. PICK m : m = Message(n, a, b)
    OBVIOUS
<1>5. PICK in : in = Input(0, n)
    OBVIOUS
<1>6. in \in Seq(Nat) /\ Len(in) = n /\ \A i \in 1 .. n : in[i] = m[i]
    <2>1. in = [i \in 1 .. n |-> 1 + ((0 + i) % 90)]
        BY <1>5 DEF Input
    <2>2. \A i \in 1 .. n : 1 + ((0 + i) % 90) \in Nat /\ Fed[i] = 1 + ((0 + i) % 90)
        BY DEF Fed
    <2>3. in \in Seq(Nat) /\ Len(in) = n
        BY <2>1, <2>2
    <2>4. \A i \in 1 .. n : Fed[i] = m[i]
        <3>1. \A i \in 1 .. n : Fed[i] = Message(n, a, b)[i]
            BY <1>2, PaddingFollows
        <3>2. QED BY <1>4, <3>1
    <2>5. QED BY <2>1, <2>2, <2>3, <2>4
<1>7. PICK pad : pad = Padding(n)
    OBVIOUS
<1>8. pad \in Seq(Nat) /\ Len(pad) = p /\ Follows(pad, m, n)
    BY <1>1, <1>2, <1>4, <1>7, PaddingIs, PaddingFollows
<1>9. PICK e : e = <<a, b>>
    OBVIOUS
<1>10. e \in Seq(Nat) /\ Len(e) = 2 /\ Follows(e, m, n + p)
    BY <1>1, <1>2, <1>4, <1>9, PaddingFollows
<1>11. PICK x : x = in \o pad
    OBVIOUS
<1>12. x \in Seq(Nat) /\ Len(x) = n + p
       /\ \A i \in 1 .. n + p : x[i] = IF i <= n THEN in[i] ELSE pad[i - n]
    BY <1>6, <1>8, <1>11, ConcatProperties
<1>13. PICK message : message = x \o e
    OBVIOUS
<1>14. message \in Seq(Nat) /\ Len(message) = n + p + 2
       /\ \A i \in 1 .. n + p + 2 : message[i] = IF i <= n + p THEN x[i] ELSE e[i - (n + p)]
    <2>1. /\ x \o e \in Seq(Nat) /\ Len(x \o e) = Len(x) + Len(e)
          /\ \A i \in 1 .. Len(x) + Len(e) :
                (x \o e)[i] = IF i <= Len(x) THEN x[i] ELSE e[i - Len(x)]
        BY <1>10, <1>12, ConcatProperties
    <2>2. QED BY <1>10, <1>12, <1>13, <2>1
<1>15. ASSUME NEW i \in 1 .. n + p + 2 PROVE message[i] = m[i]
    <2>1. CASE i <= n
        <3>1. i \in 1 .. n + p /\ i <= n + p /\ i \in 1 .. n
            BY <2>1
        <3>2. message[i] = in[i]
            BY <1>12, <1>14, <2>1, <3>1
        <3>3. QED BY <1>6, <3>1, <3>2
    <2>2. CASE ~(i <= n) /\ i <= n + p
        <3>1. i \in 1 .. n + p /\ i - n \in 1 .. p /\ n + (i - n) = i
            BY <2>2
        <3>2. message[i] = pad[i - n]
            BY <1>12, <1>14, <2>2, <3>1
        <3>3. pad[i - n] = m[n + (i - n)]
            BY <1>8, <3>1 DEF Follows
        <3>4. QED BY <3>1, <3>2, <3>3
    <2>3. CASE ~(i <= n + p)
        <3>1. i - (n + p) \in 1 .. 2 /\ (n + p) + (i - (n + p)) = i
            BY <2>3
        <3>2. message[i] = e[i - (n + p)]
            BY <1>14, <2>3
        <3>3. e[i - (n + p)] = m[(n + p) + (i - (n + p))]
            BY <1>10, <3>1 DEF Follows
        <3>4. QED BY <3>1, <3>2, <3>3
    <2>4. QED BY <2>1, <2>2, <2>3
<1>16. PICK k \in Nat : k = t + 1
    OBVIOUS
<1>17. PICK cut : cut = Cut(message, 0, k)
    OBVIOUS
<1>18. Reference(n) = Chained(IV, cut, k)
    <2>1. message = Input(0, n) \o <<Marker>> \o Zeros(p - 1) \o LengthOf(n)
        <3>1. /\ in \in Seq(Nat) /\ <<Marker>> \in Seq(Nat) /\ Zeros(p - 1) \in Seq(Nat)
            <4>1. Zeros(p - 1) = [i \in 1 .. p - 1 |-> 0] /\ p - 1 \in Nat
                BY DEF Zeros
            <4>2. Zeros(p - 1) \in Seq(Nat)
                BY <4>1
            <4>3. <<Marker>> \in Seq(Nat)
                BY DEF Marker
            <4>4. QED BY <1>6, <4>2, <4>3
        <3>2. (in \o <<Marker>>) \o Zeros(p - 1) = in \o (<<Marker>> \o Zeros(p - 1))
            BY <3>1, ConcatAssociative
        <3>3. QED BY <1>1, <1>2, <1>5, <1>7, <1>9, <1>11, <1>13, <3>2 DEF Padding
    <2>2. Reference(n) = Transformed(IV, message, 0).state
        BY <1>3, <2>1 DEF Reference
    <2>3. (Len(message) - 0) \div BlockLen = k
        <3>1. Len(message) - 0 = 8 * k
            BY <1>1, <1>14, <1>16
        <3>2. (8 * k) \div 8 = k
            OBVIOUS
        <3>3. QED BY <3>1, <3>2 DEF BlockLen
    <2>4. QED BY <1>17, <2>2, <2>3 DEF Transformed
<1>19. PICK B : B = [i \in Nat |-> Block(m, i)]
    OBVIOUS
<1>20. ASSUME NEW i \in 1 .. k PROVE cut[i] = B[0 + i]
    <2>1. Aligned(message, 0, k, m, 0)
        <3>1. 0 + 8 * k <= Len(message) /\ 8 * 0 - 0 = 0
            BY <1>1, <1>14, <1>16
        <3>2. Follows(message, m, 0)
            <4>1. \A i_1 \in 1 .. Len(message) : i_1 \in 1 .. n + p + 2 /\ 0 + i_1 = i_1
                BY <1>14
            <4>2. QED BY <1>15, <4>1 DEF Follows
        <3>3. QED BY <3>1, <3>2 DEF Aligned
    <2>2. cut[i] = Block(m, 0 + i)
        BY <1>14, <1>17, <2>1, CutAt
    <2>3. 0 + i \in Nat
        OBVIOUS
    <2>4. QED BY <1>19, <2>2, <2>3
<1>21. Chained(IV, cut, k) = Chained(IV, B, 0 + k) <=> IV = Chained(IV, B, 0)
    BY <1>20, ChainedJoin, IVState
<1>22. Chained(IV, B, 0) = IV /\ 0 + k = k
    BY ChainedStep
<1>23. QED BY <1>4, <1>16, <1>18, <1>19, <1>21, <1>22 DEF StateOf

-----------------------------------------------------------------------------
(* MD5: final() *)

Padded(o, n) == update(o, Padding(n))
Done(o, n) == update(Padded(o, n), Encoded(o.count))

\* What final() makes of an object.
LEMMA FinalIs ==
    ASSUME ulong \in {4, 8}, NEW o, NEW n \in Nat, Sound(o, n)
    PROVE  final(o) = [state |-> IF ulong = 4 THEN o.state
                                 ELSE [Done(o, n).state EXCEPT !.lo = o.state.lo],
                       count |-> IF ulong = 4 THEN o.count
                                 ELSE <<o.count[1], Done(o, n).count[2]>>,
                       finished |-> FALSE, digest |-> Done(o, n).state,
                       buffer |-> Done(o, n).buffer]
<1> DEFINE done == Done(o, n)
           d == done.state
           s == IF ulong = 4 THEN o.state ELSE [done.state EXCEPT !.lo = o.state.lo]
           c == IF ulong = 4 THEN o.count ELSE <<o.count[1], done.count[2]>>
<1>1. final(o) = [done EXCEPT !.digest = d, !.state = s, !.count = c]
    <2>1. o.count[1] % BlockLen = n % 8 /\ BlockLen = 8 /\ PadTo = 6
        BY DEF Sound, BlockLen, PadTo
    <2>2. (IF o.count[1] % BlockLen < PadTo THEN PadTo - (o.count[1] % BlockLen)
           ELSE BlockLen + PadTo - (o.count[1] % BlockLen)) = PadLen(n)
        BY <2>1 DEF PadLen
    <2>3. QED BY <2>2 DEF final, Done, Padded, Padding
<1>2. /\ done = [state |-> done.state, count |-> done.count, finished |-> done.finished,
                 digest |-> done.digest, buffer |-> done.buffer]
      /\ done.finished = FALSE
    <2>1. Padding(n) \in Seq(Nat)
        BY PaddingIs
    <2>2. Sound(Padded(o, n), n + Len(Padding(n)))
        BY <2>1, UpdateSound DEF Padded
    <2>3. Encoded(o.count) \in Seq(Nat) /\ n + Len(Padding(n)) \in Nat
        <3>1. o.count[1] \in Nat /\ o.count[2] \in Nat
            BY DEF Sound
        <3>2. o.count[1] % 16 \in Nat /\ o.count[2] % 16 \in Nat
            BY <3>1
        <3>3. QED BY <2>1, <3>2 DEF Encoded, WordRange
    <2>4. QED BY <2>2, <2>3, UpdateIs DEF Done
<1>3. PICK w : w = done
    OBVIOUS
<1>4. PICK ws, wc, wf, wd, wb :
          w = [state |-> ws, count |-> wc, finished |-> wf, digest |-> wd, buffer |-> wb]
    BY <1>2, <1>3
<1>5. wf = FALSE
    BY <1>2, <1>3, <1>4
<1> HIDE DEF done, d, s, c
<1> DEFINE p1 == [w EXCEPT !.digest = d]
           p2 == [p1 EXCEPT !.state = s]
<1>6. p1 = [state |-> ws, count |-> wc, finished |-> wf, digest |-> d, buffer |-> wb]
    BY <1>4
<1>7. [w EXCEPT !.digest = d, !.state = s, !.count = c] = [p2 EXCEPT !.count = c]
    OBVIOUS
<1> HIDE DEF p1
<1>8. p2 = [state |-> s, count |-> wc, finished |-> wf, digest |-> d, buffer |-> wb]
    BY <1>6
<1> HIDE DEF p2
<1>9. [p2 EXCEPT !.count = c]
         = [state |-> s, count |-> c, finished |-> wf, digest |-> d, buffer |-> wb]
    BY <1>8
<1>10. wb = w.buffer
    BY <1>4
<1>11. final(o) = [state |-> s, count |-> c, finished |-> FALSE, digest |-> d,
                   buffer |-> w.buffer]
    BY <1>1, <1>3, <1>5, <1>7, <1>9, <1>10
<1>12. QED BY <1>3, <1>11 DEF done, d, s, c

\* final() leaves the counter as it found it, and a sound object.
LEMMA FinalSound ==
    ASSUME ulong \in {4, 8}, NEW o, NEW n \in Nat, Sound(o, n),
           NEW a, NEW b, <<a, b>> = Encoded(o.count)
    PROVE  /\ a \in Nat /\ b \in Nat
           /\ Sound(Padded(o, n), n + PadLen(n))
           /\ Done(o, n) = update(Padded(o, n), <<a, b>>)
           /\ Sound(Done(o, n), n + PadLen(n) + 2)
           /\ Done(o, n).count \in Nat \X Nat
           /\ ulong = 8 => Done(o, n).count[2] = o.count[2]
           /\ final(o).count = o.count
           /\ Sound(final(o), n)
<1>1. PICK p \in 1 .. 8 : p = PadLen(n)
    BY PadPlaces
<1>2. PICK c1 \in Nat, c2 \in Nat : o.count = <<c1, c2>>
    BY DEF Sound
<1>3. a = c1 % 16 /\ b = c2 % 16 /\ a \in Nat /\ b \in Nat
    <2>1. Encoded(o.count) = <<c1 % 16, c2 % 16>>
        BY <1>2 DEF Encoded, WordRange
    <2>2. QED BY <2>1
<1>4. PICK u : u = Padded(o, n)
    OBVIOUS
<1>5. PICK w : w = Done(o, n)
    OBVIOUS
<1>6. PICK pad : pad = Padding(n)
    OBVIOUS
<1>7. pad \in Seq(Nat) /\ Len(pad) = p
    BY <1>1, <1>6, PaddingIs
<1>8. u = update(o, pad) /\ Sound(u, n + p)
    <2>1. u = update(o, pad)
        BY <1>4, <1>6 DEF Padded
    <2>2. Sound(update(o, pad), n + Len(pad))
        BY <1>7, UpdateSound
    <2>3. QED BY <1>7, <2>1, <2>2
<1>9. w = update(u, <<a, b>>) /\ Sound(w, n + p + 2)
    <2>1. <<a, b>> \in Seq(Nat) /\ Len(<<a, b>>) = 2 /\ n + p \in Nat
        BY <1>3
    <2>2. w = update(u, <<a, b>>)
        BY <1>4, <1>5 DEF Done
    <2>3. Sound(update(u, <<a, b>>), (n + p) + Len(<<a, b>>))
        BY <1>8, <2>1, UpdateSound
    <2>4. (n + p) + Len(<<a, b>>) = n + p + 2
        BY <2>1
    <2>5. QED BY <2>2, <2>3, <2>4
<1>10. w.count \in Nat \X Nat
    BY <1>9 DEF Sound
<1>11. ASSUME ulong = 8 PROVE w.count[2] = o.count[2]
    <2>1. u.count = Counted(o.count, p)
        <3>1. update(o, pad).count = Counted(o.count, Len(pad))
            BY <1>7, UpdateIs
        <3>2. QED BY <1>7, <1>8, <3>1
    <2>2. u.count = <<c1 + p, c2 + (p \div 16)>>
        <3>1. o.count \in Nat \X Nat /\ p \in Nat
            BY <1>2
        <3>2. Counted(o.count, p) = <<o.count[1] + p, o.count[2] + (p \div 16)>>
            BY <1>11, <3>1, CountedIs
        <3>3. QED BY <1>2, <2>1, <3>2
    <2>3. p \div 16 = 0 /\ 2 \div 16 = 0
        OBVIOUS
    <2>4. w.count = Counted(u.count, 2)
        <3>1. <<a, b>> \in Seq(Nat) /\ Len(<<a, b>>) = 2 /\ n + p \in Nat
            BY <1>3
        <3>2. update(u, <<a, b>>).count = Counted(u.count, Len(<<a, b>>))
            BY <1>8, <3>1, UpdateIs
        <3>3. QED BY <1>9, <3>1, <3>2
    <2>5. w.count = <<c1 + p + 2, c2>>
        <3>1. u.count = <<c1 + p, c2>> /\ u.count \in Nat \X Nat
            BY <2>2, <2>3
        <3>2. PICK two \in Nat : two = 2
            OBVIOUS
        <3>3. Counted(u.count, two) = <<u.count[1] + two, u.count[2] + (two \div 16)>>
            BY <1>11, <3>1, CountedIs
        <3>4. QED BY <2>3, <2>4, <3>1, <3>2, <3>3
    <2>6. QED BY <1>2, <2>5
<1>12. final(o).count = o.count
    <2>1. final(o).count = IF ulong = 4 THEN o.count ELSE <<o.count[1], w.count[2]>>
        BY <1>5, FinalIs
    <2>2. QED BY <1>2, <1>11, <2>1
<1>13. Sound(final(o), n)
    <2>1. PICK z : z = final(o)
        OBVIOUS
    <2>2. PICK s : s = IF ulong = 4 THEN o.state ELSE [w.state EXCEPT !.lo = o.state.lo]
        OBVIOUS
    <2>3. PICK c : c = IF ulong = 4 THEN o.count ELSE <<o.count[1], w.count[2]>>
        OBVIOUS
    <2>4. z = [state |-> s, count |-> c, finished |-> FALSE, digest |-> w.state,
               buffer |-> w.buffer]
        BY <1>5, <2>1, <2>2, <2>3, FinalIs
    <2>5. IsState(s)
        <3>1. IsState(o.state) /\ IsState(w.state)
            BY <1>9 DEF Sound
        <3>2. IsState([w.state EXCEPT !.lo = o.state.lo])
            BY <3>1 DEF IsState
        <3>3. QED BY <2>2, <3>1, <3>2
    <2>6. w.buffer \in [1 .. BlockLen -> Nat]
        BY <1>9 DEF Sound
    <2>7. o.count \in Nat \X Nat /\ o.count[1] % BlockLen = n % BlockLen
        BY DEF Sound
    <2>8. z.count = o.count
        BY <1>12, <2>1
    <2>9. z = [state |-> z.state, count |-> z.count, finished |-> z.finished,
               digest |-> z.digest, buffer |-> z.buffer]
        BY <2>4
    <2>10. z.state = s /\ z.buffer = w.buffer
        BY <2>4
    <2>11. Sound(z, n)
        BY <2>5, <2>6, <2>7, <2>8, <2>9, <2>10 DEF Sound
    <2>12. QED BY <2>1, <2>11
<1>14. QED BY <1>1, <1>3, <1>4, <1>5, <1>8, <1>9, <1>10, <1>11, <1>12, <1>13

\* The block that final() compresses last: what precedes it in the buffer, and
\* the length in its last two bytes.  It stays in the buffer.
LEMMA LastBlock ==
    ASSUME ulong \in {4, 8}, NEW o, NEW n \in Nat, Sound(o, n),
           NEW a, NEW b, <<a, b>> = Encoded(o.count)
    PROVE  \E full \in [1 .. 8 -> Nat] :
              /\ Done(o, n).state = Compress(Padded(o, n).state, full)
              /\ Done(o, n).buffer = full
              /\ full[7] = a /\ full[8] = b
              /\ \A j \in 1 .. 6 : full[j] = Padded(o, n).buffer[j]
<1>1. PICK p \in 1 .. 8 : p = PadLen(n) /\ (n + p) % 8 = 6
    BY PadPlaces
<1>2. PICK u : u = Padded(o, n)
    OBVIOUS
<1>3. PICK e : e = <<a, b>>
    OBVIOUS
<1>4. /\ a \in Nat /\ b \in Nat /\ Sound(u, n + p) /\ n + p \in Nat
      /\ Done(o, n) = update(u, e) /\ Sound(Done(o, n), n + p + 2)
    BY <1>1, <1>2, <1>3, FinalSound
<1>5. e \in Seq(Nat) /\ Len(e) = 2 /\ e[1] = a /\ e[2] = b
    BY <1>3, <1>4
<1>6. PICK first : first = SubSeq(e, 1, 2)
    OBVIOUS
<1>7. first = e
    <2>1. SubSeq(e, 1, Len(e)) = e
        BY <1>5, SubSeqFull
    <2>2. QED BY <1>5, <1>6, <2>1
<1>8. PICK full : full = Over(u.buffer, 6, first)
    OBVIOUS
<1>9. u.buffer \in [1 .. BlockLen -> Nat] /\ BlockLen = 8 /\ IsState(u.state)
    BY <1>4 DEF Sound, BlockLen
<1>10. /\ full \in [1 .. 8 -> Nat] /\ full[7] = a /\ full[8] = b
       /\ \A j \in 1 .. 6 : full[j] = u.buffer[j]
    <2>1. full = [j \in 1 .. 8 |-> IF j > 6 /\ j <= 6 + Len(first) THEN first[j - 6]
                                   ELSE u.buffer[j]]
        BY <1>8, <1>9 DEF Over
    <2>2. full[7] = first[1] /\ full[8] = first[2] /\ \A j \in 1 .. 6 : full[j] = u.buffer[j]
        BY <1>5, <1>7, <2>1
    <2>3. \A j \in 1 .. 8 : full[j] \in Nat
        <3>1. \A j \in 1 .. 8 : j \in 1 .. 6 \/ j = 7 \/ j = 8
            OBVIOUS
        <3>2. QED BY <1>4, <1>5, <1>7, <1>9, <2>2, <3>1
    <2>4. QED BY <1>5, <1>7, <2>1, <2>2, <2>3
<1>11. PICK w : w = update(u, e)
    OBVIOUS
<1>12. w.state = Compress(u.state, full) /\ w.buffer = Over(full, 0, SubSeq(e, 3, 2))
    <2>1. PICK r, part, k, m \in Nat : r = 6 /\ part = 2 /\ k = 0 /\ m = n + p
        OBVIOUS
    <2>2. /\ r = m % 8 /\ part = 8 - r /\ Len(e) >= part /\ k = (Len(e) - part) \div 8
          /\ full = Over(u.buffer, r, SubSeq(e, 1, part)) /\ part + k * 8 + 1 = 3
        BY <1>1, <1>5, <1>6, <1>8, <2>1
    <2>3. /\ update(u, e).state = Chained(Compress(u.state, full), Cut(e, part, k), k)
          /\ update(u, e).buffer = Over(full, 0, SubSeq(e, part + k * 8 + 1, Len(e)))
        <3>1. Sound(u, m) /\ e \in Seq(Nat) /\ full = Over(u.buffer, r, SubSeq(e, 1, part))
            BY <1>4, <1>5, <2>1, <2>2
        <3>2. Fills(m, e, r, part, k)
            BY <2>2 DEF Fills
        <3>3. QED BY <3>1, <3>2, UpdateLong
    <2>4. Chained(Compress(u.state, full), Cut(e, part, k), 0) = Compress(u.state, full)
        BY ChainedStep
    <2>5. QED BY <1>5, <1>11, <2>1, <2>2, <2>3, <2>4
<1>13. Over(full, 0, SubSeq(e, 3, 2)) = full
    <2>1. Len(SubSeq(e, 3, 2)) = 0
        BY <1>3
    <2>2. Over(full, 0, SubSeq(e, 3, 2)) = [j \in 1 .. 8 |-> full[j]]
        BY <1>9, <2>1 DEF Over
    <2>3. QED BY <1>10, <2>2
<1>14. QED BY <1>2, <1>4, <1>10, <1>11, <1>12, <1>13

\* What the padding leaves in front of the length: the bytes that were there,
\* and the marker, or nothing but zeros.
LEMMA PaddedBuffer ==
    ASSUME ulong \in {4, 8}, NEW o, NEW n \in Nat, Sound(o, n), NEW r \in 0 .. 7, r = n % 8
    PROVE  /\ r < 6 => /\ \A j \in 1 .. r : Padded(o, n).buffer[j] = o.buffer[j]
                       /\ Padded(o, n).buffer[r + 1] = Marker
           /\ r >= 6 => Padded(o, n).buffer[1] = 0
<1>1. PICK p \in 1 .. 8 : p = PadLen(n) /\ p = (IF r < 6 THEN 6 - r ELSE 14 - r)
    BY DEF PadLen
<1>2. PICK u : u = Padded(o, n)
    OBVIOUS
<1>3. PICK pad : pad = Padding(n)
    OBVIOUS
<1>4. /\ pad \in Seq(Nat) /\ Len(pad) = p /\ u = update(o, pad)
      /\ \A i \in 1 .. p : pad[i] = IF i = 1 THEN Marker ELSE 0
    BY <1>1, <1>2, <1>3, PaddingIs DEF Padded
<1>5. o.buffer \in [1 .. BlockLen -> Nat] /\ BlockLen = 8
    BY DEF Sound, BlockLen
<1>6. ASSUME r < 6
      PROVE  /\ \A j \in 1 .. r : u.buffer[j] = o.buffer[j]
             /\ u.buffer[r + 1] = Marker
    <2>1. Len(pad) < 8 - r
        BY <1>1, <1>4, <1>6
    <2>2. u.buffer = Over(o.buffer, r, pad)
        BY <1>4, <2>1, UpdateShort
    <2>3. u.buffer = [j \in 1 .. 8 |-> IF j > r /\ j <= r + p THEN pad[j - r] ELSE o.buffer[j]]
        BY <1>4, <1>5, <2>2 DEF Over
    <2>4. r + 1 \in 1 .. 8 /\ r + 1 > r /\ r + 1 <= r + p /\ (r + 1) - r = 1
        OBVIOUS
    <2>5. pad[1] = Marker
        BY <1>4
    <2>6. \A j \in 1 .. r : j \in 1 .. 8 /\ ~(j > r)
        OBVIOUS
    <2>7. QED BY <2>3, <2>4, <2>5, <2>6
<1>7. ASSUME r >= 6 PROVE u.buffer[1] = 0
    <2>1. PICK part \in 1 .. 2 : part = 8 - r /\ p = part + 6
        BY <1>1, <1>7
    <2>2. PICK k \in Nat : k = 0
        OBVIOUS
    <2>3. PICK full : full = Over(o.buffer, r, SubSeq(pad, 1, part))
        OBVIOUS
    <2>4. Len(pad) >= part /\ k = (Len(pad) - part) \div 8
        BY <1>4, <2>1, <2>2
    <2>5. u.buffer = Over(full, 0, SubSeq(pad, part + k * 8 + 1, Len(pad)))
        <3>1. pad \in Seq(Nat) /\ u = update(o, pad)
            BY <1>4
        <3>2. Fills(n, pad, r, part, k)
            BY <2>1, <2>4 DEF Fills
        <3>3. update(o, pad).buffer = Over(full, 0, SubSeq(pad, part + k * 8 + 1, Len(pad)))
            BY <2>3, <3>1, <3>2, UpdateLong
        <3>4. QED BY <3>1, <3>3
    <2>6. PICK m \in 2 .. 3 : m = part + 1 /\ p = m + 5
        BY <2>1
    <2>7. PICK rest : rest = SubSeq(pad, m, p)
        OBVIOUS
    <2>8. rest = [i \in 1 .. (1 + p) - m |-> pad[(i + m) - 1]]
        BY <2>7
    <2>9. Len(rest) = 6 /\ rest[1] = pad[m]
        <3>1. (1 + p) - m = 6 /\ (1 + m) - 1 = m
            BY <2>6
        <3>2. QED BY <2>8, <3>1
    <2>10. pad[m] = 0
        <3>1. m \in 1 .. p /\ m # 1
            BY <2>6
        <3>2. QED BY <1>4, <3>1
    <2>11. u.buffer = Over(full, 0, rest)
        BY <1>4, <2>2, <2>5, <2>6, <2>7
    <2>12. u.buffer = [j \in 1 .. 8 |-> IF j > 0 /\ j <= 0 + 6 THEN rest[j - 0] ELSE full[j]]
        BY <1>5, <2>9, <2>11 DEF Over
    <2>13. u.buffer[1] = rest[1]
        BY <2>12
    <2>14. QED BY <2>9, <2>10, <2>13
<1>8. QED BY <1>2, <1>6, <1>7

\* A digest is that of the message exactly if its bytes were held and its
\* length was counted.
LEMMA DigestIs ==
    ASSUME ulong \in {4, 8}, NEW o, NEW n \in Nat, Sound(o, n)
    PROVE  Done(o, n).state = Reference(n)
              <=> Holds(o, Fed, n) /\ Encoded(o.count) = LengthOf(n)
<1>1. PICK p \in 1 .. 8, t \in Nat :
          /\ p = PadLen(n) /\ n + p = (8 * t) + 6
          /\ (n + p + 2) \div 8 = t + 1 /\ (n + p + 2) % 8 = 0
    BY PadPlaces
<1>2. PICK a, b : <<a, b>> = Encoded(o.count)
    BY DEF Encoded
<1>3. PICK c, d : <<c, d>> = LengthOf(n) /\ c \in Nat /\ d \in Nat
    BY DEF LengthOf, WordRange
<1>4. PICK u : u = Padded(o, n)
    OBVIOUS
<1>5. PICK w : w = Done(o, n)
    OBVIOUS
<1>6. PICK f : f = Message(n, a, b)
    OBVIOUS
<1>7. PICK g : g = Message(n, c, d)
    OBVIOUS
<1>8. /\ a \in Nat /\ b \in Nat /\ Sound(u, n + p)
      /\ w = update(u, <<a, b>>) /\ Sound(w, n + p + 2)
    BY <1>1, <1>2, <1>4, <1>5, FinalSound
<1>9. Reference(n) = StateOf(g, t + 1)
    BY <1>1, <1>3, <1>7, ReferenceIs
<1>10. w.state = StateOf(f, t + 1) <=> Holds(o, Fed, n)
    <2>1. PICK pad : pad = Padding(n)
        OBVIOUS
    <2>2. PICK e : e = <<a, b>>
        OBVIOUS
    <2>3. /\ pad \in Seq(Nat) /\ Len(pad) = p /\ Follows(pad, f, n)
          /\ e \in Seq(Nat) /\ Len(e) = 2 /\ Follows(e, f, n + p)
        <3>1. pad \in Seq(Nat) /\ Len(pad) = p
            BY <1>1, <2>1, PaddingIs
        <3>2. /\ Follows(Padding(n), Message(n, a, b), n)
              /\ <<a, b>> \in Seq(Nat) /\ Len(<<a, b>>) = 2
              /\ Follows(<<a, b>>, Message(n, a, b), n + PadLen(n))
            BY <1>8, PaddingFollows
        <3>3. QED BY <1>1, <1>6, <2>1, <2>2, <3>1, <3>2
    <2>4. u = update(o, pad) /\ w = update(u, e)
        BY <1>4, <1>8, <2>1, <2>2 DEF Padded
    <2>5. \A i \in 1 .. n : Fed[i] = f[i]
        <3>1. \A i \in 1 .. n : Fed[i] = Message(n, a, b)[i]
            BY <1>8, PaddingFollows
        <3>2. QED BY <1>6, <3>1
    <2>6. Holds(o, Fed, n) <=> Holds(o, f, n)
        BY <2>5, HoldsAgree
    <2>7. Holds(u, f, n + p) <=> Holds(o, f, n)
        <3>1. Holds(update(o, pad), f, n + Len(pad)) <=> Holds(o, f, n)
            BY <2>3, UpdateHolds
        <3>2. QED BY <2>3, <2>4, <3>1
    <2>8. Holds(w, f, n + p + 2) <=> Holds(u, f, n + p)
        <3>1. PICK m \in Nat : m = n + p
            OBVIOUS
        <3>2. Follows(e, f, m) /\ Sound(u, m)
            BY <1>8, <2>3, <3>1
        <3>3. Holds(update(u, e), f, m + Len(e)) <=> Holds(u, f, m)
            BY <2>3, <3>2, UpdateHolds
        <3>4. m + Len(e) = n + p + 2
            BY <2>3, <3>1
        <3>5. QED BY <2>4, <3>1, <3>3, <3>4
    <2>9. Holds(w, f, n + p + 2) <=> w.state = StateOf(f, t + 1)
        BY <1>1 DEF Holds, BlockLen
    <2>10. QED BY <2>6, <2>7, <2>8, <2>9
<1>11. CASE <<a, b>> = <<c, d>>
    <2>1. f = g
        <3>1. a = c /\ b = d
            BY <1>11
        <3>2. QED BY <1>6, <1>7, <3>1
    <2>2. QED BY <1>2, <1>3, <1>5, <1>9, <1>10, <1>11, <2>1
<1>12. CASE <<a, b>> # <<c, d>>
    <2>1. SUFFICES ASSUME w.state = StateOf(g, t + 1) PROVE FALSE
        BY <1>2, <1>3, <1>5, <1>9, <1>12
    <2>2. PICK full \in [1 .. 8 -> Nat] :
              w.state = Compress(u.state, full) /\ full[7] = a /\ full[8] = b
        BY <1>2, <1>4, <1>5, LastBlock
    <2>3. StateOf(g, t + 1) = Compress(StateOf(g, t), Block(g, t + 1)) /\ IsState(StateOf(g, t))
        BY StateOfStep
    <2>4. IsState(u.state)
        BY <1>8 DEF Sound
    <2>5. full = Block(g, t + 1)
        BY <2>1, <2>2, <2>3, <2>4, CompressEqual
    <2>6. Block(g, t + 1) = [j \in 1 .. 8 |-> g[8 * ((t + 1) - 1) + j]]
        BY DEF Block, BlockLen
    <2>7. full[7] = g[n + p + 1] /\ full[8] = g[n + p + 2]
        <3>1. 8 * ((t + 1) - 1) + 7 = n + p + 1 /\ 8 * ((t + 1) - 1) + 8 = n + p + 2
            BY <1>1
        <3>2. full[7] = g[8 * ((t + 1) - 1) + 7] /\ full[8] = g[8 * ((t + 1) - 1) + 8]
            BY <2>5, <2>6
        <3>3. QED BY <3>1, <3>2
    <2>8. g[n + p + 1] = c /\ g[n + p + 2] = d
        <3>1. Follows(<<c, d>>, Message(n, c, d), n + PadLen(n)) /\ Len(<<c, d>>) = 2
            BY <1>3, PaddingFollows
        <3>2. \A i \in 1 .. 2 : <<c, d>>[i] = g[n + p + i]
            BY <1>1, <1>7, <3>1 DEF Follows
        <3>3. QED BY <3>2
    <2>9. QED BY <1>12, <2>2, <2>7, <2>8
<1>13. QED BY <1>11, <1>12

\* After final() the bytes are still held only where ulong has four bytes and
\* the padding fitted into the block.
LEMMA FinalHolds ==
    ASSUME ulong \in {4, 8}, NEW o, NEW n \in Nat, Sound(o, n)
    PROVE  Holds(final(o), Fed, n) <=> Holds(o, Fed, n) /\ ulong = 4 /\ n % 8 < 6
<1>1. PICK r \in 0 .. 7, q \in Nat : r = n % 8 /\ q = n \div 8 /\ n = (8 * q) + r
    BY PadPlaces
<1>2. PICK u : u = Padded(o, n)
    OBVIOUS
<1>3. PICK w : w = Done(o, n)
    OBVIOUS
<1>4. PICK z : z = final(o)
    OBVIOUS
<1>5. PICK full \in [1 .. 8 -> Nat] :
          /\ w.state = Compress(u.state, full) /\ w.buffer = full
          /\ \A j \in 1 .. 6 : full[j] = u.buffer[j]
    <2>1. \E a, b : <<a, b>> = Encoded(o.count)
        BY DEF Encoded
    <2>2. QED BY <1>2, <1>3, <2>1, LastBlock
<1>6. /\ r < 6 => (\A j \in 1 .. r : full[j] = o.buffer[j]) /\ full[r + 1] = Marker
      /\ r >= 6 => full[1] = 0
    <2>1. /\ r < 6 => /\ \A j \in 1 .. r : u.buffer[j] = o.buffer[j]
                      /\ u.buffer[r + 1] = Marker
          /\ r >= 6 => u.buffer[1] = 0
        BY <1>1, <1>2, PaddedBuffer
    <2>2. r < 6 => r + 1 \in 1 .. 6 /\ \A j \in 1 .. r : j \in 1 .. 6
        OBVIOUS
    <2>3. QED BY <1>5, <2>1, <2>2
<1>7. /\ z.state = (IF ulong = 4 THEN o.state ELSE [w.state EXCEPT !.lo = o.state.lo])
      /\ z.buffer = full
    BY <1>3, <1>4, <1>5, FinalIs
<1>8. ASSUME NEW x
      PROVE  Holds(x, Fed, n) <=> /\ x.state = StateOf(Fed, q)
                                  /\ \A j \in 1 .. r : x.buffer[j] = Fed[(8 * q) + j]
    BY <1>1 DEF Holds, BlockLen
<1>9. CASE ulong = 4 /\ r < 6
    BY <1>1, <1>4, <1>6, <1>7, <1>8, <1>9
<1>10. CASE ulong = 4 /\ ~(r < 6)
    <2>1. z.buffer[1] = 0 /\ 1 \in 1 .. r
        BY <1>6, <1>7, <1>10
    <2>2. Fed[(8 * q) + 1] # 0
        <3>1. (8 * q) + 1 \in Nat
            OBVIOUS
        <3>2. Fed[(8 * q) + 1] \in 1 .. 90
            BY <3>1, FedIs
        <3>3. QED BY <3>2
    <2>3. ~Holds(z, Fed, n)
        BY <1>8, <2>1, <2>2
    <2>4. QED BY <1>1, <1>4, <1>10, <2>3
<1>11. CASE ulong # 4
    <2>1. SUFFICES ASSUME Holds(z, Fed, n) PROVE FALSE
        BY <1>4, <1>11
    <2>2. z.state = StateOf(Fed, q) /\ z.state = [w.state EXCEPT !.lo = o.state.lo]
        BY <1>7, <1>8, <1>11, <2>1
    <2>3. z.state.hi = <<"hi", u.state.lo, u.state.hi, full>>
        <3>1. w.state = [lo |-> <<"lo", u.state.lo, u.state.hi, full>>,
                         hi |-> <<"hi", u.state.lo, u.state.hi, full>>]
            BY <1>5 DEF Compress
        <3>2. PICK x, y : w.state = [lo |-> x, hi |-> y]
                          /\ y = <<"hi", u.state.lo, u.state.hi, full>>
            BY <3>1
        <3>3. [w.state EXCEPT !.lo = o.state.lo].hi = y
            BY <3>2
        <3>4. QED BY <2>2, <3>2, <3>3
    <2>4. CASE q = 0
        <3>1. StateOf(Fed, 0) = IV
            BY StateOfStep
        <3>2. z.state.hi = << >>
            <4>1. PICK x, y : IV = [lo |-> x, hi |-> y] /\ y = << >>
                BY DEF IV
            <4>2. z.state = [lo |-> x, hi |-> y]
                BY <2>2, <2>4, <3>1, <4>1
            <4>3. QED BY <4>1, <4>2
        <3>3. << >> # <<"hi", u.state.lo, u.state.hi, full>>
            <4>1. Len(<< >>) = 0 /\ Len(<<"hi", u.state.lo, u.state.hi, full>>) = 4
                OBVIOUS
            <4>2. QED BY <4>1
        <3>4. QED BY <2>3, <3>2, <3>3
    <2>5. CASE q # 0
        <3>1. PICK s \in Nat : q = s + 1
            BY <2>5
        <3>2. StateOf(Fed, q) = Compress(StateOf(Fed, s), Block(Fed, q))
            BY <3>1, StateOfStep
        <3>3. z.state.hi = <<"hi", StateOf(Fed, s).lo, StateOf(Fed, s).hi, Block(Fed, q)>>
            <4>1. PICK x, y : Compress(StateOf(Fed, s), Block(Fed, q)) = [lo |-> x, hi |-> y]
                      /\ y = <<"hi", StateOf(Fed, s).lo, StateOf(Fed, s).hi, Block(Fed, q)>>
                BY DEF Compress
            <4>2. z.state = [lo |-> x, hi |-> y]
                BY <2>2, <3>2, <4>1
            <4>3. QED BY <4>1, <4>2
        <3>4. full = Block(Fed, q)
            BY <2>3, <3>3
        <3>5. \A j \in 1 .. 8 : full[j] \in 1 .. 90
            <4>1. ASSUME NEW j \in 1 .. 8 PROVE full[j] \in 1 .. 90
                <5>1. Block(Fed, q)[j] = Fed[8 * (q - 1) + j]
                    BY DEF Block, BlockLen
                <5>2. 8 * (q - 1) + j \in Nat
                    BY <3>1
                <5>3. QED BY <3>4, <5>1, <5>2, FedIs
            <4>2. QED BY <4>1
        <3>6. r < 6 => r + 1 \in 1 .. 8
            OBVIOUS
        <3>7. QED BY <1>6, <3>5, <3>6 DEF Marker
    <2>6. QED BY <2>4, <2>5
<1>12. QED BY <1>9, <1>10, <1>11

-----------------------------------------------------------------------------
(* MD5: the invariant *)

\* While the object has not been used again after a digest that spoilt it, it
\* holds what it was given, and its digest is that of all of it.
MdIInv ==
    /\ ulong \in {4, 8} /\ total \in Nat /\ asked \in BOOLEAN /\ spoilt \in BOOLEAN
    /\ Sound(md, total) /\ md.finished = FALSE
    /\ ulong = 4 => md.count = <<total % WordRange, total \div WordRange>>
    /\ ulong = 8 => md.count[1] = total
    /\ Holds(md, Fed, total)
          <=> ~spoilt /\ (asked => ulong = 4 /\ total % BlockLen < PadTo)
    /\ asked =>
          (md.digest = Reference(total) <=> ~spoilt /\ Encoded(md.count) = LengthOf(total))

\* The bytes given to update() are those of the message.
LEMMA InputIs ==
    ASSUME NEW n \in Nat, NEW k \in Nat
    PROVE  Input(n, k) \in Seq(Nat) /\ Len(Input(n, k)) = k /\ Follows(Input(n, k), Fed, n)
<1>1. Input(n, k) = [i \in 1 .. k |-> 1 + ((n + i) % 90)]
    BY DEF Input
<1>2. \A i \in 1 .. k : 1 + ((n + i) % 90) \in Nat
    OBVIOUS
<1>3. Input(n, k) \in Seq(Nat) /\ Len(Input(n, k)) = k
    BY <1>1, <1>2
<1>4. ASSUME NEW i \in 1 .. k PROVE Input(n, k)[i] = Fed[n + i]
    <2>1. Input(n, k)[i] = 1 + ((n + i) % 90)
        BY <1>1
    <2>2. n + i \in Nat
        OBVIOUS
    <2>3. QED BY <2>1, <2>2 DEF Fed
<1>5. QED BY <1>3, <1>4 DEF Follows

\* Nothing has been fed to an object at its start.
LEMMA StartHolds ==
    ASSUME NEW o, o.state = IV
    PROVE  Holds(o, Fed, 0)
<1>1. StateOf(Fed, 0) = IV
    BY StateOfStep
<1>2. 0 \div BlockLen = 0 /\ 0 % BlockLen = 0
    BY DEF BlockLen
<1>3. QED BY <1>1, <1>2 DEF Holds

\* A constructed object satisfies the invariant.
LEMMA MdInitIInv == MdInit => MdIInv
<1> SUFFICES ASSUME MdInit PROVE MdIInv
    OBVIOUS
<1> USE DEF MdInit
<1>1. PICK b : b = [j \in 1 .. BlockLen |-> 200]
    OBVIOUS
<1>2. PICK c : c = <<0, 0>>
    OBVIOUS
<1>3. md = [state |-> IV, count |-> c, finished |-> FALSE, digest |-> IV, buffer |-> b]
    BY <1>1, <1>2 DEF Constructed
<1>4. /\ md.state = IV /\ md.count = c /\ md.buffer = b /\ md.finished = FALSE /\ md.digest = IV
    BY <1>3
<1>5. b \in [1 .. BlockLen -> Nat] /\ c \in Nat \X Nat /\ c[1] = 0 /\ 0 % 16 = 0 /\ 0 \div 16 = 0
    BY <1>1, <1>2
<1>6. md = [state |-> md.state, count |-> md.count, finished |-> md.finished,
            digest |-> md.digest, buffer |-> md.buffer]
    BY <1>3, <1>4
<1>7. Sound(md, 0)
    BY <1>4, <1>5, <1>6, IVState DEF Sound
<1>8. Holds(md, Fed, 0)
    BY <1>4, StartHolds
<1>9. QED BY <1>2, <1>4, <1>5, <1>7, <1>8 DEF MdIInv, WordRange

\* update().
LEMMA MdUpdateIInv ==
    ASSUME MdIInv, NEW n \in Lengths, MdUpdate(n)
    PROVE  MdIInv'
<1>1. n \in Nat
    BY MdAssumption
<1>2. PICK in : in = Input(total, n)
    OBVIOUS
<1>3. /\ ulong \in {4, 8} /\ ulong' = ulong /\ total \in Nat /\ total' = total + n
      /\ md' = update(md, in) /\ Sound(md, total)
      /\ spoilt' = (spoilt \/ (asked /\ (ulong = 8 \/ total % BlockLen >= PadTo)))
      /\ asked' = FALSE
    BY <1>2 DEF MdIInv, MdUpdate, Call, Reused
<1>4. in \in Seq(Nat) /\ Len(in) = n /\ Follows(in, Fed, total)
    BY <1>1, <1>2, <1>3, InputIs
<1>5. Sound(md', total')
    <2>1. Sound(update(md, in), total + Len(in))
        BY <1>3, <1>4, UpdateSound
    <2>2. QED BY <1>3, <1>4, <2>1
<1>6. md'.finished = FALSE /\ md'.count = Counted(md.count, n)
    <2>1. update(md, in).finished = FALSE /\ update(md, in).count = Counted(md.count, Len(in))
        BY <1>3, <1>4, UpdateIs
    <2>2. QED BY <1>3, <1>4, <2>1
<1>7. md.count \in Nat \X Nat
    BY <1>3 DEF Sound
<1>8. ulong = 4 => md'.count = <<total' % 16, total' \div 16>>
    <2>1. SUFFICES ASSUME ulong = 4
                   PROVE  Counted(md.count, n) = <<(total + n) % 16, (total + n) \div 16>>
        BY <1>3, <1>6
    <2>2. md.count = <<total % 16, total \div 16>>
        BY <2>1 DEF MdIInv, WordRange
    <2>3. QED BY <1>1, <1>3, <1>7, <2>1, <2>2, CountedIs
<1>9. ulong = 8 => md'.count[1] = total'
    <2>1. SUFFICES ASSUME ulong = 8 PROVE Counted(md.count, n)[1] = total + n
        BY <1>3, <1>6
    <2>2. Counted(md.count, n) = <<md.count[1] + n, md.count[2] + (n \div 16)>>
        BY <1>1, <1>3, <1>7, <2>1, CountedIs
    <2>3. md.count[1] = total
        BY <2>1 DEF MdIInv
    <2>4. QED BY <2>2, <2>3
<1>10. Holds(md', Fed, total') <=> ~spoilt'
    <2>1. Holds(update(md, in), Fed, total + Len(in)) <=> Holds(md, Fed, total)
        BY <1>3, <1>4, UpdateHolds
    <2>2. Holds(md, Fed, total)
             <=> ~spoilt /\ (asked => ulong = 4 /\ total % BlockLen < PadTo)
        BY DEF MdIInv
    <2>3. total % BlockLen < PadTo <=> ~(total % BlockLen >= PadTo)
        BY <1>3 DEF BlockLen, PadTo
    <2>4. ulong = 4 <=> ~(ulong = 8)
        BY <1>3
    <2>5. QED BY <1>3, <1>4, <2>1, <2>2, <2>3, <2>4
<1>11. spoilt' \in BOOLEAN /\ total' \in Nat /\ ulong' \in {4, 8}
    BY <1>1, <1>3
<1>12. QED BY <1>3, <1>5, <1>6, <1>8, <1>9, <1>10, <1>11 DEF MdIInv, WordRange

\* The object digest() hands to final(): nothing but _finished is changed.
LEMMA MarkedIs ==
    ASSUME NEW o, NEW n \in Nat, Sound(o, n), NEW yes,
           NEW m, m = [o EXCEPT !.finished = yes]
    PROVE  Sound(m, n) /\ m.count = o.count /\ (Holds(m, Fed, n) <=> Holds(o, Fed, n))
<1>1. PICK s, c, f, d, b :
          o = [state |-> s, count |-> c, finished |-> f, digest |-> d, buffer |-> b]
    BY DEF Sound
<1>3. m = [state |-> s, count |-> c, finished |-> yes, digest |-> d, buffer |-> b]
    BY <1>1
<1>4. m.state = s /\ m.count = c /\ m.finished = yes /\ m.digest = d /\ m.buffer = b
    BY <1>3
<1>5. m = [state |-> m.state, count |-> m.count, finished |-> m.finished,
           digest |-> m.digest, buffer |-> m.buffer]
    BY <1>3, <1>4
<1>6. o.state = s /\ o.count = c /\ o.buffer = b
    BY <1>1
<1>7. Sound(m, n)
    BY <1>4, <1>5, <1>6 DEF Sound
<1>8. Holds(m, Fed, n) <=> Holds(o, Fed, n)
    BY <1>4, <1>6 DEF Holds
<1>9. QED BY <1>4, <1>6, <1>7, <1>8

\* digest().
LEMMA MdDigestIInv ==
    ASSUME MdIInv, MdDigest
    PROVE  MdIInv'
<1>1. /\ ulong \in {4, 8} /\ ulong' = ulong /\ total \in Nat /\ total' = total
      /\ spoilt' = (spoilt \/ (asked /\ (ulong = 8 \/ total % BlockLen >= PadTo)))
      /\ asked' = TRUE /\ Sound(md, total) /\ md.finished = FALSE
    BY DEF MdIInv, MdDigest, Call, Reused
<1>2. PICK yes, m : yes = TRUE /\ m = [md EXCEPT !.finished = yes]
    OBVIOUS
<1>3. Sound(m, total) /\ m.count = md.count /\ (Holds(m, Fed, total) <=> Holds(md, Fed, total))
    BY <1>1, <1>2, MarkedIs
<1>4. md' = final(m)
    BY <1>1, <1>2 DEF MdDigest
<1>5. md'.finished = FALSE /\ md'.digest = Done(m, total).state
    BY <1>1, <1>3, <1>4, FinalIs
<1>6. md'.count = md.count /\ Sound(md', total)
    <2>1. PICK a, b : <<a, b>> = Encoded(m.count)
        BY DEF Encoded
    <2>2. ulong \in {4, 8} /\ total \in Nat /\ Sound(m, total)
        BY <1>1, <1>3
    <2>3. /\ final(m).count = m.count
          /\ Sound(final(m), total)
        BY ONLY <2>1, <2>2, FinalSound
    <2>4. QED BY <1>3, <1>4, <2>3
<1>7. spoilt' \in BOOLEAN /\ (Holds(m, Fed, total) <=> ~spoilt')
    <2>1. /\ spoilt \in BOOLEAN /\ asked \in BOOLEAN
          /\ Holds(md, Fed, total)
                <=> ~spoilt /\ (asked => ulong = 4 /\ total % BlockLen < PadTo)
        BY DEF MdIInv
    <2>2. total % BlockLen < PadTo <=> ~(total % BlockLen >= PadTo)
        BY <1>1 DEF BlockLen, PadTo
    <2>3. ulong = 4 <=> ~(ulong = 8)
        BY <1>1
    <2>4. QED BY <1>1, <1>3, <2>1, <2>2, <2>3
<1>8. Holds(md', Fed, total) <=> ~spoilt' /\ ulong = 4 /\ total % 8 < 6
    BY <1>1, <1>3, <1>4, <1>7, FinalHolds
<1>9. md'.digest = Reference(total) <=> ~spoilt' /\ Encoded(md'.count) = LengthOf(total)
    <2>1. Done(m, total).state = Reference(total)
             <=> Holds(m, Fed, total) /\ Encoded(m.count) = LengthOf(total)
        BY <1>1, <1>3, DigestIs
    <2>2. Encoded(md'.count) = Encoded(m.count)
        BY <1>3, <1>6
    <2>3. QED BY <1>5, <1>7, <2>1, <2>2
<1>10. /\ ulong = 4 => md.count = <<total % WordRange, total \div WordRange>>
       /\ ulong = 8 => md.count[1] = total
    BY DEF MdIInv
<1>11. Holds(md', Fed, total)
          <=> ~spoilt' /\ (asked' => ulong = 4 /\ total % BlockLen < PadTo)
    BY <1>1, <1>8 DEF BlockLen, PadTo
<1>12. QED BY <1>1, <1>5, <1>6, <1>7, <1>9, <1>10, <1>11 DEF MdIInv

\* reset().
LEMMA MdResetIInv ==
    ASSUME MdIInv, MdReset
    PROVE  MdIInv'
<1>1. /\ ulong \in {4, 8} /\ ulong' = ulong /\ total \in Nat /\ total' = 0 /\ asked' = FALSE
      /\ spoilt' = FALSE
      /\ md' = Reset(md) /\ Sound(md, total)
    BY DEF MdIInv, MdReset, Call
<1>2. PICK s, c, f, d, b :
          md = [state |-> s, count |-> c, finished |-> f, digest |-> d, buffer |-> b]
    BY <1>1 DEF Sound
<1>3. PICK no, zero, iv : no = FALSE /\ zero = <<0, 0>> /\ iv = IV
    OBVIOUS
<1> DEFINE p1 == [md EXCEPT !.finished = no]
           p2 == [p1 EXCEPT !.count = zero]
           p3 == [p2 EXCEPT !.state = iv]
<1>4. Reset(md) = p3
    BY <1>3 DEF Reset
<1>5. p1 = [state |-> s, count |-> c, finished |-> no, digest |-> d, buffer |-> b]
    BY <1>2
<1> HIDE DEF p1
<1>6. p2 = [state |-> s, count |-> zero, finished |-> no, digest |-> d, buffer |-> b]
    BY <1>5
<1> HIDE DEF p2
<1>7. p3 = [state |-> iv, count |-> zero, finished |-> no, digest |-> d, buffer |-> b]
    BY <1>6
<1> HIDE DEF p3
<1>8. PICK z : z = md'
    OBVIOUS
<1>9. z = [state |-> iv, count |-> zero, finished |-> no, digest |-> d, buffer |-> b]
    BY <1>1, <1>4, <1>7, <1>8
<1>10. z.state = iv /\ z.count = zero /\ z.finished = no /\ z.digest = d /\ z.buffer = b
    BY <1>9
<1>11. b \in [1 .. BlockLen -> Nat]
    <2>1. md.buffer = b
        BY <1>2
    <2>2. QED BY <1>1, <2>1 DEF Sound
<1>12. zero \in Nat \X Nat /\ zero[1] = 0 /\ 0 % 16 = 0 /\ 0 \div 16 = 0
    BY <1>3
<1>13. Sound(z, 0)
    <2>1. z = [state |-> z.state, count |-> z.count, finished |-> z.finished,
               digest |-> z.digest, buffer |-> z.buffer]
        BY <1>9, <1>10
    <2>2. QED BY <1>3, <1>10, <1>11, <1>12, <2>1, IVState DEF Sound
<1>14. Holds(z, Fed, 0)
    BY <1>3, <1>10, StartHolds
<1>15. QED BY <1>1, <1>3, <1>8, <1>10, <1>12, <1>13, <1>14 DEF MdIInv, WordRange

\* Every step keeps the invariant.
LEMMA MdNextIInv == MdIInv /\ [MdNext]_mdVars => MdIInv'
<1> SUFFICES ASSUME MdIInv, [MdNext]_mdVars PROVE MdIInv'
    OBVIOUS
<1>1. CASE \E n \in Lengths : MdUpdate(n)
    BY <1>1, MdUpdateIInv
<1>2. CASE MdDigest
    BY <1>2, MdDigestIInv
<1>3. CASE MdReset
    BY <1>3, MdResetIInv
<1>4. CASE UNCHANGED mdVars
    BY <1>4 DEF MdIInv, mdVars
<1>5. QED BY <1>1, <1>2, <1>3, <1>4 DEF MdNext

\* However the bytes were cut into updates, whatever their number and however
\* often the digest was asked for, it is transform() over all bytes since
\* reset(), padded, but for the two ways in which the code loses some of them
\* or of their count: which digests those are is said exactly.
THEOREM DigestIsAlwaysOfAll == MdSpec => []DigestIsOfAll
<1>1. MdIInv => DigestIsOfAll
    <2> SUFFICES ASSUME MdIInv PROVE DigestIsOfAll
        OBVIOUS
    <2>1. ulong = 4 => Encoded(md.count) = LengthOf(total)
        <3>1. SUFFICES ASSUME ulong = 4 PROVE Encoded(md.count) = LengthOf(total)
            OBVIOUS
        <3>2. md.count = <<total % 16, total \div 16>> /\ total \in Nat
            BY <3>1 DEF MdIInv, WordRange
        <3>3. Encoded(md.count) = <<(total % 16) % 16, (total \div 16) % 16>>
            BY <3>2 DEF Encoded, WordRange
        <3>4. (total % 16) % 16 = total % 16
            BY <3>2
        <3>5. QED BY <3>3, <3>4 DEF LengthOf, WordRange
    <2>2. ulong = 4 \/ ulong = 8
        BY DEF MdIInv
    <2>3. asked =>
             (md.digest = Reference(total) <=> ~spoilt /\ Encoded(md.count) = LengthOf(total))
        BY DEF MdIInv
    <2>4. QED BY <2>1, <2>2, <2>3 DEF DigestIsOfAll
<1>2. QED BY <1>1, MdInitIInv, MdNextIInv, PTL DEF MdSpec
==============================================================================
