----------------------------- MODULE CodecProofs -----------------------------
(***************************************************************************)
(* Theorems about ProtoCodec: every message of the protocol is read as it  *)
(* was set, for all values its accessors take (AccessorSpec, of which      *)
(* CodecSpec is a part), all tables that meet SchemaAssumption and any      *)
(* number of fields set and objects serialized.                            *)
(*                                                                         *)
(* The tokens of an object are pieces, one for each row of the table, and  *)
(* each piece alone puts its field (ReadsBack): so does a list, and so a   *)
(* message inside another, whose own fields hold no further messages.      *)
(* Pieces have fields of their own, so they lead from any object to the    *)
(* merged one, in the order of the table (ObjectRead) or the opposite one  *)
(* (ReversedSent).  Sizes are sums over the same rows (ObjectSized), and   *)
(* merging makes no sum larger (ObjectSmall).  What a peer may do to an    *)
(* encoding is one lemma each (AllHeard).  The invariant (CodecInv) says   *)
(* that the packet on its way is made of what was serialized, at most      *)
(* rewritten once, and that what was received is what becomes of it.       *)
(*                                                                         *)
(* What is recursive is a recursive function: what is said of all its      *)
(* values is proved by induction over the set of the numbers of which it   *)
(* is true.                                                                *)
(***************************************************************************)
EXTENDS ProtoCodec, SequenceTheorems, TLAPS, WellFoundedInduction

-----------------------------------------------------------------------------
(* Induction *)

\* A set of numbers that is not empty has a least one.
LEMMA Least ==
    ASSUME NEW T \in SUBSET Nat, T # {}
    PROVE  \E x \in T : \A y \in T : x <= y
<1> DEFINE R == {ss \in Nat \X Nat : ss[1] < ss[2]}
<1>1. IsWellFoundedOn(R, Nat)
    BY NatLessThanWellFounded DEF OpToRel
<1> HIDE DEF R
<1>2. \E x \in T : \A y \in T : ~ (<<y, x>> \in R)
    BY <1>1, WFMin
<1>3. PICK x \in T : \A y \in T : <<y, x>> \notin R
    BY <1>2
<1>4. ASSUME NEW y \in T PROVE x <= y
    <2>1. <<y, x>> \in Nat \X Nat /\ <<y, x>> \notin R
        BY <1>3
    <2>2. ~(<<y, x>>[1] < <<y, x>>[2])
        BY <2>1 DEF R
    <2>3. QED BY <2>1, <2>2
<1>5. QED BY <1>4

\* A set with 0, and with the successor of each of its numbers, has them all.
LEMMA Induct ==
    ASSUME NEW S, 0 \in S, \A n \in Nat : n \in S => n + 1 \in S
    PROVE  Nat \subseteq S
<1> SUFFICES ASSUME NEW T, T = Nat \ S, T # {} PROVE FALSE
    OBVIOUS
<1>1. PICK x \in T : \A y \in T : x <= y
    BY Least
<1>2. x # 0 /\ x - 1 \in Nat
    OBVIOUS
<1>3. x - 1 \notin T
    BY <1>1, <1>2
<1>4. (x - 1) + 1 = x
    OBVIOUS
<1>5. QED BY <1>2, <1>3, <1>4

-----------------------------------------------------------------------------
(* What is done one after another *)

\* What the recursion of SumTo says of a function.
IsSum(c, s, n) ==
    c = [b \in 0 .. n |-> IF b = 0 THEN 0 ELSE (c[b - 1] + s[b])]

\* A function that satisfies it exists, for every length.
LEMMA SumExists ==
    ASSUME NEW s, NEW n \in Nat
    PROVE  \E c : IsSum(c, s, n)
<1> DEFINE S == {k \in Nat : \E c : IsSum(c, s, k)}
<1>1. 0 \in S
    <2> DEFINE c == [b \in 0 .. 0 |-> 0]
    <2>1. c = [b \in 0 .. 0 |-> IF b = 0 THEN 0 ELSE (c[b - 1] + s[b])]
        OBVIOUS
    <2>2. QED BY <2>1 DEF IsSum
<1>2. ASSUME NEW k \in Nat, k \in S PROVE k + 1 \in S
    <2>1. PICK c : IsSum(c, s, k)
        BY <1>2
    <2> DEFINE d == [b \in 0 .. k + 1 |-> IF b <= k THEN c[b]
                                          ELSE (c[k] + s[k + 1])]
    <2>2. ASSUME NEW b \in 0 .. k + 1
          PROVE  d[b] = IF b = 0 THEN 0 ELSE (d[b - 1] + s[b])
        <3>1. CASE b = 0
            <4>1. d[b] = c[0] /\ 0 \in 0 .. k
                BY <3>1
            <4>2. c[0] = 0
                BY <2>1, <4>1 DEF IsSum
            <4>3. QED BY <3>1, <4>1, <4>2
        <3>2. CASE b \in 1 .. k
            <4>1. d[b] = c[b] /\ d[b - 1] = c[b - 1]
                BY <3>2
            <4>2. b \in 0 .. k /\ b # 0
                BY <3>2
            <4>3. c[b] = (c[b - 1] + s[b])
                BY <2>1, <4>2 DEF IsSum
            <4>4. QED BY <4>1, <4>2, <4>3
        <3>3. CASE b = k + 1
            <4>1. d[b] = (c[k] + s[k + 1]) /\ d[b - 1] = c[k] /\ b # 0
                BY <3>3
            <4>2. QED BY <3>3, <4>1
        <3>4. QED BY <3>1, <3>2, <3>3
    <2>3. d = [b \in 0 .. k + 1 |-> IF b = 0 THEN 0 ELSE (d[b - 1] + s[b])]
        <3>1. d = [b \in 0 .. k + 1 |-> d[b]]
            OBVIOUS
        <3> HIDE DEF d
        <3>2. QED BY <2>2, <3>1
    <2>4. k + 1 \in Nat
        OBVIOUS
    <2> HIDE DEF d
    <2>5. QED BY <2>3, <2>4 DEF IsSum
<1> HIDE DEF S
<1>3. Nat \subseteq S
    BY <1>1, <1>2, Induct
<1>4. QED BY <1>3 DEF S

\* Two of them agree as far as both go.
LEMMA SumUnique ==
    ASSUME NEW s, NEW n \in Nat, NEW m \in Nat, n <= m,
           NEW c, IsSum(c, s, n), NEW d, IsSum(d, s, m)
    PROVE  \A k \in 0 .. n : c[k] = d[k]
<1> DEFINE S == {k \in Nat : k <= n => c[k] = d[k]}
<1>1. 0 \in S
    BY DEF IsSum
<1>2. ASSUME NEW k \in Nat, k \in S PROVE k + 1 \in S
    <2>1. SUFFICES ASSUME k + 1 <= n PROVE c[k + 1] = d[k + 1]
        OBVIOUS
    <2>2. k + 1 \in 0 .. n /\ k + 1 \in 0 .. m /\ k + 1 # 0 /\ (k + 1) - 1 = k
        BY <2>1
    <2>3. c[k + 1] = (c[k] + s[k + 1])
        BY <2>2 DEF IsSum
    <2>4. d[k + 1] = (d[k] + s[k + 1])
        BY <2>2 DEF IsSum
    <2>5. c[k] = d[k]
        BY <1>2, <2>1
    <2>6. QED BY <2>3, <2>4, <2>5
<1> HIDE DEF S
<1>3. Nat \subseteq S
    BY <1>1, <1>2, Induct
<1>4. QED BY <1>3 DEF S

\* SumTo adds one number after another.
LEMMA SumStep ==
    ASSUME NEW s
    PROVE  /\ SumTo(s, 0) = 0
           /\ \A n \in Nat : SumTo(s, n + 1)
                                = (SumTo(s, n) + s[n + 1])
<1> DEFINE C(n) == CHOOSE c : IsSum(c, s, n)
<1>1. ASSUME NEW n \in Nat PROVE SumTo(s, n) = C(n)[n] /\ IsSum(C(n), s, n)
    <2>1. SumTo(s, n) = C(n)[n]
        BY DEF SumTo, IsSum
    <2>2. \E c : IsSum(c, s, n)
        BY SumExists
    <2>3. QED BY <2>1, <2>2
<1> HIDE DEF C
<1>2. SumTo(s, 0) = 0
    <2>1. IsSum(C(0), s, 0) /\ 0 \in 0 .. 0
        BY <1>1
    <2> PICK c : c = C(0)
        OBVIOUS
    <2>2. c[0] = 0
        BY <2>1 DEF IsSum
    <2>3. QED BY <1>1, <2>2
<1>3. ASSUME NEW n \in Nat
      PROVE  SumTo(s, n + 1) = (SumTo(s, n) + s[n + 1])
    <2>1. n + 1 \in Nat /\ n <= n + 1 /\ n + 1 \in 0 .. n + 1 /\ n + 1 # 0 /\ (n + 1) - 1 = n
          /\ n \in 0 .. n
        OBVIOUS
    <2>2. C(n + 1)[n + 1] = (C(n + 1)[n] + s[n + 1])
        BY <1>1, <2>1 DEF IsSum
    <2>3. C(n)[n] = C(n + 1)[n]
        BY <1>1, <2>1, SumUnique
    <2>4. QED BY <1>1, <2>1, <2>2, <2>3
<1>4. QED BY <1>2, <1>3

\* What the recursion of JointTo says of a function.
IsJoint(c, ss, n) ==
    c = [b \in 0 .. n |-> IF b = 0 THEN << >> ELSE c[b - 1] \o ss[b]]

\* A function that satisfies it exists, for every length.
LEMMA JointExists ==
    ASSUME NEW ss, NEW n \in Nat
    PROVE  \E c : IsJoint(c, ss, n)
<1> DEFINE S == {k \in Nat : \E c : IsJoint(c, ss, k)}
<1>1. 0 \in S
    <2> DEFINE c == [b \in 0 .. 0 |-> << >>]
    <2>1. c = [b \in 0 .. 0 |-> IF b = 0 THEN << >> ELSE c[b - 1] \o ss[b]]
        OBVIOUS
    <2>2. QED BY <2>1 DEF IsJoint
<1>2. ASSUME NEW k \in Nat, k \in S PROVE k + 1 \in S
    <2>1. PICK c : IsJoint(c, ss, k)
        BY <1>2
    <2> DEFINE d == [b \in 0 .. k + 1 |-> IF b <= k THEN c[b]
                                          ELSE c[k] \o ss[k + 1]]
    <2>2. ASSUME NEW b \in 0 .. k + 1
          PROVE  d[b] = IF b = 0 THEN << >> ELSE d[b - 1] \o ss[b]
        <3>1. CASE b = 0
            <4>1. d[b] = c[0] /\ 0 \in 0 .. k
                BY <3>1
            <4>2. c[0] = << >>
                BY <2>1, <4>1 DEF IsJoint
            <4>3. QED BY <3>1, <4>1, <4>2
        <3>2. CASE b \in 1 .. k
            <4>1. d[b] = c[b] /\ d[b - 1] = c[b - 1]
                BY <3>2
            <4>2. b \in 0 .. k /\ b # 0
                BY <3>2
            <4>3. c[b] = c[b - 1] \o ss[b]
                BY <2>1, <4>2 DEF IsJoint
            <4>4. QED BY <4>1, <4>2, <4>3
        <3>3. CASE b = k + 1
            <4>1. d[b] = c[k] \o ss[k + 1] /\ d[b - 1] = c[k] /\ b # 0
                BY <3>3
            <4>2. QED BY <3>3, <4>1
        <3>4. QED BY <3>1, <3>2, <3>3
    <2>3. d = [b \in 0 .. k + 1 |-> IF b = 0 THEN << >> ELSE d[b - 1] \o ss[b]]
        <3>1. d = [b \in 0 .. k + 1 |-> d[b]]
            OBVIOUS
        <3> HIDE DEF d
        <3>2. QED BY <2>2, <3>1
    <2>4. k + 1 \in Nat
        OBVIOUS
    <2> HIDE DEF d
    <2>5. QED BY <2>3, <2>4 DEF IsJoint
<1> HIDE DEF S
<1>3. Nat \subseteq S
    BY <1>1, <1>2, Induct
<1>4. QED BY <1>3 DEF S

\* Two of them agree as far as both go.
LEMMA JointUnique ==
    ASSUME NEW ss, NEW n \in Nat, NEW m \in Nat, n <= m,
           NEW c, IsJoint(c, ss, n), NEW d, IsJoint(d, ss, m)
    PROVE  \A k \in 0 .. n : c[k] = d[k]
<1> DEFINE S == {k \in Nat : k <= n => c[k] = d[k]}
<1>1. 0 \in S
    BY DEF IsJoint
<1>2. ASSUME NEW k \in Nat, k \in S PROVE k + 1 \in S
    <2>1. SUFFICES ASSUME k + 1 <= n PROVE c[k + 1] = d[k + 1]
        OBVIOUS
    <2>2. k + 1 \in 0 .. n /\ k + 1 \in 0 .. m /\ k + 1 # 0 /\ (k + 1) - 1 = k
        BY <2>1
    <2>3. c[k + 1] = c[k] \o ss[k + 1]
        BY <2>2 DEF IsJoint
    <2>4. d[k + 1] = d[k] \o ss[k + 1]
        BY <2>2 DEF IsJoint
    <2>5. c[k] = d[k]
        BY <1>2, <2>1
    <2>6. QED BY <2>3, <2>4, <2>5
<1> HIDE DEF S
<1>3. Nat \subseteq S
    BY <1>1, <1>2, Induct
<1>4. QED BY <1>3 DEF S

\* JointTo adds one sequence after another.
LEMMA JointStep ==
    ASSUME NEW ss
    PROVE  /\ JointTo(ss, 0) = << >>
           /\ \A n \in Nat : JointTo(ss, n + 1)
                                = JointTo(ss, n) \o ss[n + 1]
<1> DEFINE C(n) == CHOOSE c : IsJoint(c, ss, n)
<1>1. ASSUME NEW n \in Nat PROVE JointTo(ss, n) = C(n)[n] /\ IsJoint(C(n), ss, n)
    <2>1. JointTo(ss, n) = C(n)[n]
        BY DEF JointTo, IsJoint
    <2>2. \E c : IsJoint(c, ss, n)
        BY JointExists
    <2>3. QED BY <2>1, <2>2
<1> HIDE DEF C
<1>2. JointTo(ss, 0) = << >>
    <2>1. IsJoint(C(0), ss, 0) /\ 0 \in 0 .. 0
        BY <1>1
    <2> PICK c : c = C(0)
        OBVIOUS
    <2>2. c[0] = << >>
        BY <2>1 DEF IsJoint
    <2>3. QED BY <1>1, <2>2
<1>3. ASSUME NEW n \in Nat
      PROVE  JointTo(ss, n + 1) = JointTo(ss, n) \o ss[n + 1]
    <2>1. n + 1 \in Nat /\ n <= n + 1 /\ n + 1 \in 0 .. n + 1 /\ n + 1 # 0 /\ (n + 1) - 1 = n
          /\ n \in 0 .. n
        OBVIOUS
    <2>2. C(n + 1)[n + 1] = C(n + 1)[n] \o ss[n + 1]
        BY <1>1, <2>1 DEF IsJoint
    <2>3. C(n)[n] = C(n + 1)[n]
        BY <1>1, <2>1, JointUnique
    <2>4. QED BY <1>1, <2>1, <2>2, <2>3
<1>4. QED BY <1>2, <1>3

\* What the recursion of PlainLoopTo says of a function.
IsPlainLoop(c, T, r, w, n) ==
    c = [b \in 0 .. n |-> IF b = 0 THEN r ELSE ReadPlainToken(T, c[b - 1], w[b])]

\* A function that satisfies it exists, for every length.
LEMMA PlainLoopExists ==
    ASSUME NEW T, NEW r, NEW w, NEW n \in Nat
    PROVE  \E c : IsPlainLoop(c, T, r, w, n)
<1> DEFINE S == {k \in Nat : \E c : IsPlainLoop(c, T, r, w, k)}
<1>1. 0 \in S
    <2> DEFINE c == [b \in 0 .. 0 |-> r]
    <2>1. c = [b \in 0 .. 0 |-> IF b = 0 THEN r ELSE ReadPlainToken(T, c[b - 1], w[b])]
        OBVIOUS
    <2>2. QED BY <2>1 DEF IsPlainLoop
<1>2. ASSUME NEW k \in Nat, k \in S PROVE k + 1 \in S
    <2>1. PICK c : IsPlainLoop(c, T, r, w, k)
        BY <1>2
    <2> DEFINE d == [b \in 0 .. k + 1 |-> IF b <= k THEN c[b]
                                          ELSE ReadPlainToken(T, c[k], w[k + 1])]
    <2>2. ASSUME NEW b \in 0 .. k + 1
          PROVE  d[b] = IF b = 0 THEN r ELSE ReadPlainToken(T, d[b - 1], w[b])
        <3>1. CASE b = 0
            <4>1. d[b] = c[0] /\ 0 \in 0 .. k
                BY <3>1
            <4>2. c[0] = r
                BY <2>1, <4>1 DEF IsPlainLoop
            <4>3. QED BY <3>1, <4>1, <4>2
        <3>2. CASE b \in 1 .. k
            <4>1. d[b] = c[b] /\ d[b - 1] = c[b - 1]
                BY <3>2
            <4>2. b \in 0 .. k /\ b # 0
                BY <3>2
            <4>3. c[b] = ReadPlainToken(T, c[b - 1], w[b])
                BY <2>1, <4>2 DEF IsPlainLoop
            <4>4. QED BY <4>1, <4>2, <4>3
        <3>3. CASE b = k + 1
            <4>1. d[b] = ReadPlainToken(T, c[k], w[k + 1]) /\ d[b - 1] = c[k] /\ b # 0
                BY <3>3
            <4>2. QED BY <3>3, <4>1
        <3>4. QED BY <3>1, <3>2, <3>3
    <2>3. d = [b \in 0 .. k + 1 |-> IF b = 0 THEN r ELSE ReadPlainToken(T, d[b - 1], w[b])]
        <3>1. d = [b \in 0 .. k + 1 |-> d[b]]
            OBVIOUS
        <3> HIDE DEF d
        <3>2. QED BY <2>2, <3>1
    <2>4. k + 1 \in Nat
        OBVIOUS
    <2> HIDE DEF d
    <2>5. QED BY <2>3, <2>4 DEF IsPlainLoop
<1> HIDE DEF S
<1>3. Nat \subseteq S
    BY <1>1, <1>2, Induct
<1>4. QED BY <1>3 DEF S

\* Two of them agree as far as both go.
LEMMA PlainLoopUnique ==
    ASSUME NEW T, NEW r, NEW w, NEW n \in Nat, NEW m \in Nat, n <= m,
           NEW c, IsPlainLoop(c, T, r, w, n), NEW d, IsPlainLoop(d, T, r, w, m)
    PROVE  \A k \in 0 .. n : c[k] = d[k]
<1> DEFINE S == {k \in Nat : k <= n => c[k] = d[k]}
<1>1. 0 \in S
    BY DEF IsPlainLoop
<1>2. ASSUME NEW k \in Nat, k \in S PROVE k + 1 \in S
    <2>1. SUFFICES ASSUME k + 1 <= n PROVE c[k + 1] = d[k + 1]
        OBVIOUS
    <2>2. k + 1 \in 0 .. n /\ k + 1 \in 0 .. m /\ k + 1 # 0 /\ (k + 1) - 1 = k
        BY <2>1
    <2>3. c[k + 1] = ReadPlainToken(T, c[k], w[k + 1])
        BY <2>2 DEF IsPlainLoop
    <2>4. d[k + 1] = ReadPlainToken(T, d[k], w[k + 1])
        BY <2>2 DEF IsPlainLoop
    <2>5. c[k] = d[k]
        BY <1>2, <2>1
    <2>6. QED BY <2>3, <2>4, <2>5
<1> HIDE DEF S
<1>3. Nat \subseteq S
    BY <1>1, <1>2, Induct
<1>4. QED BY <1>3 DEF S

\* PlainLoopTo reads one token after another.
LEMMA PlainLoopStep ==
    \A T, r, w :
        /\ PlainLoopTo(T, r, w, 0) = r
        /\ \A n \in Nat : PlainLoopTo(T, r, w, n + 1)
                             = ReadPlainToken(T, PlainLoopTo(T, r, w, n), w[n + 1])
<1> SUFFICES ASSUME NEW T, NEW r, NEW w
             PROVE  /\ PlainLoopTo(T, r, w, 0) = r
                    /\ \A n \in Nat : PlainLoopTo(T, r, w, n + 1)
                                = ReadPlainToken(T, PlainLoopTo(T, r, w, n), w[n + 1])
    OBVIOUS
<1> DEFINE C(n) == CHOOSE c : IsPlainLoop(c, T, r, w, n)
<1>1. ASSUME NEW n \in Nat PROVE PlainLoopTo(T, r, w, n) = C(n)[n] /\ IsPlainLoop(C(n), T, r, w, n)
    <2>1. PlainLoopTo(T, r, w, n) = C(n)[n]
        BY DEF PlainLoopTo, IsPlainLoop
    <2>2. \E c : IsPlainLoop(c, T, r, w, n)
        BY PlainLoopExists
    <2>3. QED BY <2>1, <2>2
<1> HIDE DEF C
<1>2. PlainLoopTo(T, r, w, 0) = r
    <2>1. IsPlainLoop(C(0), T, r, w, 0) /\ 0 \in 0 .. 0
        BY <1>1
    <2> PICK c : c = C(0)
        OBVIOUS
    <2>2. c[0] = r
        BY <2>1 DEF IsPlainLoop
    <2>3. QED BY <1>1, <2>2
<1>3. ASSUME NEW n \in Nat
      PROVE  PlainLoopTo(T, r, w, n + 1) = ReadPlainToken(T, PlainLoopTo(T, r, w, n), w[n + 1])
    <2>1. n + 1 \in Nat /\ n <= n + 1 /\ n + 1 \in 0 .. n + 1 /\ n + 1 # 0 /\ (n + 1) - 1 = n
          /\ n \in 0 .. n
        OBVIOUS
    <2>2. C(n + 1)[n + 1] = ReadPlainToken(T, C(n + 1)[n], w[n + 1])
        BY <1>1, <2>1 DEF IsPlainLoop
    <2>3. C(n)[n] = C(n + 1)[n]
        BY <1>1, <2>1, PlainLoopUnique
    <2>4. QED BY <1>1, <2>1, <2>2, <2>3
<1>4. QED BY <1>2, <1>3

\* What the recursion of LoopTo says of a function.
IsLoop(c, T, r, w, n) ==
    c = [b \in 0 .. n |-> IF b = 0 THEN r ELSE ReadToken(T, c[b - 1], w[b])]

\* A function that satisfies it exists, for every length.
LEMMA LoopExists ==
    ASSUME NEW T, NEW r, NEW w, NEW n \in Nat
    PROVE  \E c : IsLoop(c, T, r, w, n)
<1> DEFINE S == {k \in Nat : \E c : IsLoop(c, T, r, w, k)}
<1>1. 0 \in S
    <2> DEFINE c == [b \in 0 .. 0 |-> r]
    <2>1. c = [b \in 0 .. 0 |-> IF b = 0 THEN r ELSE ReadToken(T, c[b - 1], w[b])]
        OBVIOUS
    <2>2. QED BY <2>1 DEF IsLoop
<1>2. ASSUME NEW k \in Nat, k \in S PROVE k + 1 \in S
    <2>1. PICK c : IsLoop(c, T, r, w, k)
        BY <1>2
    <2> DEFINE d == [b \in 0 .. k + 1 |-> IF b <= k THEN c[b]
                                          ELSE ReadToken(T, c[k], w[k + 1])]
    <2>2. ASSUME NEW b \in 0 .. k + 1
          PROVE  d[b] = IF b = 0 THEN r ELSE ReadToken(T, d[b - 1], w[b])
        <3>1. CASE b = 0
            <4>1. d[b] = c[0] /\ 0 \in 0 .. k
                BY <3>1
            <4>2. c[0] = r
                BY <2>1, <4>1 DEF IsLoop
            <4>3. QED BY <3>1, <4>1, <4>2
        <3>2. CASE b \in 1 .. k
            <4>1. d[b] = c[b] /\ d[b - 1] = c[b - 1]
                BY <3>2
            <4>2. b \in 0 .. k /\ b # 0
                BY <3>2
            <4>3. c[b] = ReadToken(T, c[b - 1], w[b])
                BY <2>1, <4>2 DEF IsLoop
            <4>4. QED BY <4>1, <4>2, <4>3
        <3>3. CASE b = k + 1
            <4>1. d[b] = ReadToken(T, c[k], w[k + 1]) /\ d[b - 1] = c[k] /\ b # 0
                BY <3>3
            <4>2. QED BY <3>3, <4>1
        <3>4. QED BY <3>1, <3>2, <3>3
    <2>3. d = [b \in 0 .. k + 1 |-> IF b = 0 THEN r ELSE ReadToken(T, d[b - 1], w[b])]
        <3>1. d = [b \in 0 .. k + 1 |-> d[b]]
            OBVIOUS
        <3> HIDE DEF d
        <3>2. QED BY <2>2, <3>1
    <2>4. k + 1 \in Nat
        OBVIOUS
    <2> HIDE DEF d
    <2>5. QED BY <2>3, <2>4 DEF IsLoop
<1> HIDE DEF S
<1>3. Nat \subseteq S
    BY <1>1, <1>2, Induct
<1>4. QED BY <1>3 DEF S

\* Two of them agree as far as both go.
LEMMA LoopUnique ==
    ASSUME NEW T, NEW r, NEW w, NEW n \in Nat, NEW m \in Nat, n <= m,
           NEW c, IsLoop(c, T, r, w, n), NEW d, IsLoop(d, T, r, w, m)
    PROVE  \A k \in 0 .. n : c[k] = d[k]
<1> DEFINE S == {k \in Nat : k <= n => c[k] = d[k]}
<1>1. 0 \in S
    BY DEF IsLoop
<1>2. ASSUME NEW k \in Nat, k \in S PROVE k + 1 \in S
    <2>1. SUFFICES ASSUME k + 1 <= n PROVE c[k + 1] = d[k + 1]
        OBVIOUS
    <2>2. k + 1 \in 0 .. n /\ k + 1 \in 0 .. m /\ k + 1 # 0 /\ (k + 1) - 1 = k
        BY <2>1
    <2>3. c[k + 1] = ReadToken(T, c[k], w[k + 1])
        BY <2>2 DEF IsLoop
    <2>4. d[k + 1] = ReadToken(T, d[k], w[k + 1])
        BY <2>2 DEF IsLoop
    <2>5. c[k] = d[k]
        BY <1>2, <2>1
    <2>6. QED BY <2>3, <2>4, <2>5
<1> HIDE DEF S
<1>3. Nat \subseteq S
    BY <1>1, <1>2, Induct
<1>4. QED BY <1>3 DEF S

\* LoopTo reads one token after another.
LEMMA LoopStep ==
    \A T, r, w :
        /\ LoopTo(T, r, w, 0) = r
        /\ \A n \in Nat : LoopTo(T, r, w, n + 1)
                             = ReadToken(T, LoopTo(T, r, w, n), w[n + 1])
<1> SUFFICES ASSUME NEW T, NEW r, NEW w
             PROVE  /\ LoopTo(T, r, w, 0) = r
                    /\ \A n \in Nat : LoopTo(T, r, w, n + 1)
                                = ReadToken(T, LoopTo(T, r, w, n), w[n + 1])
    OBVIOUS
<1> DEFINE C(n) == CHOOSE c : IsLoop(c, T, r, w, n)
<1>1. ASSUME NEW n \in Nat PROVE LoopTo(T, r, w, n) = C(n)[n] /\ IsLoop(C(n), T, r, w, n)
    <2>1. LoopTo(T, r, w, n) = C(n)[n]
        BY DEF LoopTo, IsLoop
    <2>2. \E c : IsLoop(c, T, r, w, n)
        BY LoopExists
    <2>3. QED BY <2>1, <2>2
<1> HIDE DEF C
<1>2. LoopTo(T, r, w, 0) = r
    <2>1. IsLoop(C(0), T, r, w, 0) /\ 0 \in 0 .. 0
        BY <1>1
    <2> PICK c : c = C(0)
        OBVIOUS
    <2>2. c[0] = r
        BY <2>1 DEF IsLoop
    <2>3. QED BY <1>1, <2>2
<1>3. ASSUME NEW n \in Nat
      PROVE  LoopTo(T, r, w, n + 1) = ReadToken(T, LoopTo(T, r, w, n), w[n + 1])
    <2>1. n + 1 \in Nat /\ n <= n + 1 /\ n + 1 \in 0 .. n + 1 /\ n + 1 # 0 /\ (n + 1) - 1 = n
          /\ n \in 0 .. n
        OBVIOUS
    <2>2. C(n + 1)[n + 1] = ReadToken(T, C(n + 1)[n], w[n + 1])
        BY <1>1, <2>1 DEF IsLoop
    <2>3. C(n)[n] = C(n + 1)[n]
        BY <1>1, <2>1, LoopUnique
    <2>4. QED BY <1>1, <2>1, <2>2, <2>3
<1>4. QED BY <1>2, <1>3

-----------------------------------------------------------------------------
(* Sums *)

\* A sum depends on its numbers only.
LEMMA SumAgree ==
    ASSUME NEW s, NEW t, NEW n \in Nat, \A i \in 1 .. n : s[i] = t[i]
    PROVE  SumTo(s, n) = SumTo(t, n)
<1> DEFINE S == {k \in Nat : k <= n => SumTo(s, k) = SumTo(t, k)}
<1>1. 0 \in S
    BY SumStep
<1>2. ASSUME NEW k \in Nat, k \in S PROVE k + 1 \in S
    <2>1. SumTo(s, k + 1) = (SumTo(s, k) + s[k + 1]) /\ SumTo(t, k + 1) = (SumTo(t, k) + t[k + 1])
        BY SumStep
    <2>2. k + 1 <= n => s[k + 1] = t[k + 1]
        OBVIOUS
    <2>3. QED BY <1>2, <2>1, <2>2
<1> HIDE DEF S
<1>3. Nat \subseteq S
    BY <1>1, <1>2, Induct
<1>4. QED BY <1>3 DEF S

\* A sum of natural numbers is one.
LEMMA SumType ==
    ASSUME NEW s, NEW n \in Nat, \A i \in 1 .. n : s[i] \in Nat
    PROVE  \A k \in 0 .. n : SumTo(s, k) \in Nat
<1> DEFINE S == {k \in Nat : k <= n => SumTo(s, k) \in Nat}
<1>1. 0 \in S
    BY SumStep
<1>2. ASSUME NEW k \in Nat, k \in S PROVE k + 1 \in S
    <2>1. SumTo(s, k + 1) = (SumTo(s, k) + s[k + 1])
        BY SumStep
    <2>2. k + 1 <= n => s[k + 1] \in Nat
        OBVIOUS
    <2>3. QED BY <1>2, <2>1, <2>2
<1> HIDE DEF S
<1>3. Nat \subseteq S
    BY <1>1, <1>2, Induct
<1>4. QED BY <1>3 DEF S

\* The sum of two numbers is one.
LEMMA PlusNat == \A i, j \in Nat : i + j \in Nat
OBVIOUS

\* So is the sum of all of them.
LEMMA SumNat ==
    ASSUME NEW s, NEW n \in Nat, \A i \in 1 .. n : s[i] \in Nat
    PROVE  SumTo(s, n) \in Nat
<1>1. \A k \in 0 .. n : SumTo(s, k) \in Nat
    BY SumType
<1>2. n \in 0 .. n
    OBVIOUS
<1>3. QED BY <1>1, <1>2

\* How the numbers of two or three sums are related.
Halves(s, t, n, m) ==
    (\A i \in 1 .. n + m : s[i] \in Nat) /\ \A i \in 1 .. m : t[i] = s[n + i]
Below(s, t, n) == \A i \in 1 .. n : s[i] \in Nat /\ t[i] \in Nat /\ s[i] <= t[i]
Added(s, t, u, n) == \A i \in 1 .. n : s[i] \in Nat /\ t[i] \in Nat /\ u[i] = s[i] + t[i]
Mirrored(s, t, n) == \A i \in 1 .. n : s[i] \in Nat /\ t[i] = s[n + 1 - i]

\* A sum may be cut in two.
LEMMA SumSplit ==
    ASSUME NEW s, NEW t, NEW n \in Nat, NEW m \in Nat, Halves(s, t, n, m)
    PROVE  SumTo(s, n + m) = SumTo(s, n) + SumTo(t, m)
<1> USE DEF Halves
<1>1. \A i \in 1 .. m : t[i] \in Nat
    OBVIOUS
<1> DEFINE S == {k \in Nat : k <= m => SumTo(s, n + k) = SumTo(s, n) + SumTo(t, k)}
<1>2. SumTo(s, n) \in Nat
    <2>1. \A i \in 1 .. n : s[i] \in Nat
        OBVIOUS
    <2>2. QED BY <2>1, SumNat
<1>3. 0 \in S
    BY <1>2, SumStep
<1>4. ASSUME NEW k \in Nat, k \in S PROVE k + 1 \in S
    <2>1. SUFFICES ASSUME k + 1 <= m PROVE SumTo(s, n + (k + 1)) = SumTo(s, n) + SumTo(t, k + 1)
        OBVIOUS
    <2>2. n + (k + 1) = (n + k) + 1 /\ n + k \in Nat /\ k + 1 \in 1 .. m /\ k \in 0 .. m
        BY <2>1
    <2>3. SumTo(s, (n + k) + 1) = (SumTo(s, n + k) + s[(n + k) + 1])
          /\ SumTo(t, k + 1) = (SumTo(t, k) + t[k + 1])
        BY <2>2, SumStep
    <2>4. t[k + 1] = s[(n + k) + 1] /\ t[k + 1] \in Nat
        BY <1>1, <2>2
    <2>5. SumTo(t, k) \in Nat
        BY <1>1, <2>2, SumType
    <2>6. SumTo(s, n + k) = SumTo(s, n) + SumTo(t, k)
        BY <1>4, <2>1
    <2>7. QED BY <1>2, <2>2, <2>3, <2>4, <2>5, <2>6
<1> HIDE DEF S
<1>5. Nat \subseteq S
    BY <1>3, <1>4, Induct
<1>6. QED BY <1>5 DEF S

\* Smaller numbers have a smaller sum.
LEMMA SumLess ==
    ASSUME NEW s, NEW t, NEW n \in Nat, Below(s, t, n)
    PROVE  SumTo(s, n) <= SumTo(t, n)
<1> USE DEF Below
<1> DEFINE S == {k \in Nat : k <= n => SumTo(s, k) <= SumTo(t, k)}
<1>1. 0 \in S
    BY SumStep
<1>2. ASSUME NEW k \in Nat, k \in S PROVE k + 1 \in S
    <2>1. SUFFICES ASSUME k + 1 <= n PROVE SumTo(s, k + 1) <= SumTo(t, k + 1)
        OBVIOUS
    <2>2. SumTo(s, k + 1) = (SumTo(s, k) + s[k + 1]) /\ SumTo(t, k + 1) = (SumTo(t, k) + t[k + 1])
        BY SumStep
    <2>3. k + 1 \in 1 .. n /\ k \in 0 .. n
        BY <2>1
    <2>4. SumTo(s, k) \in Nat
        BY <2>3, SumType
    <2>5. SumTo(t, k) \in Nat
        BY <2>3, SumType
    <2>6. SumTo(s, k) <= SumTo(t, k)
        BY <1>2, <2>1
    <2>7. s[k + 1] \in Nat /\ t[k + 1] \in Nat /\ s[k + 1] <= t[k + 1]
        BY <2>3
    <2>8. QED BY <2>2, <2>4, <2>5, <2>6, <2>7
<1> HIDE DEF S
<1>3. Nat \subseteq S
    BY <1>1, <1>2, Induct
<1>4. QED BY <1>3 DEF S

\* Sums are added number by number.
LEMMA SumAdd ==
    ASSUME NEW s, NEW t, NEW u, NEW n \in Nat, Added(s, t, u, n)
    PROVE  SumTo(u, n) = SumTo(s, n) + SumTo(t, n)
<1> USE DEF Added
<1> DEFINE S == {k \in Nat : k <= n => SumTo(u, k) = SumTo(s, k) + SumTo(t, k)}
<1>1. 0 \in S
    BY SumStep
<1>2. ASSUME NEW k \in Nat, k \in S PROVE k + 1 \in S
    <2>1. SUFFICES ASSUME k + 1 <= n PROVE SumTo(u, k + 1) = SumTo(s, k + 1) + SumTo(t, k + 1)
        OBVIOUS
    <2>2. /\ SumTo(s, k + 1) = (SumTo(s, k) + s[k + 1])
          /\ SumTo(t, k + 1) = (SumTo(t, k) + t[k + 1])
          /\ SumTo(u, k + 1) = (SumTo(u, k) + u[k + 1])
        BY SumStep
    <2>3. k + 1 \in 1 .. n /\ k \in 0 .. n
        BY <2>1
    <2>4. SumTo(s, k) \in Nat
        BY <2>3, SumType
    <2>5. SumTo(t, k) \in Nat
        BY <2>3, SumType
    <2>6. SumTo(u, k) = SumTo(s, k) + SumTo(t, k)
        BY <1>2, <2>1
    <2>7. s[k + 1] \in Nat /\ t[k + 1] \in Nat /\ u[k + 1] = s[k + 1] + t[k + 1]
        BY <2>3
    <2>8. QED BY <2>2, <2>4, <2>5, <2>6, <2>7
<1> HIDE DEF S
<1>3. Nat \subseteq S
    BY <1>1, <1>2, Induct
<1>4. QED BY <1>3 DEF S

\* Nor does the order matter.
LEMMA SumBackwards ==
    ASSUME NEW s, NEW t, NEW n \in Nat, Mirrored(s, t, n)
    PROVE  SumTo(t, n) = SumTo(s, n)
<1> USE DEF Mirrored
<1>1. \A i \in 1 .. n : t[i] \in Nat
    OBVIOUS
<1> DEFINE S == {k \in Nat : k <= n => SumTo(t, k) + SumTo(s, n - k) = SumTo(s, n)}
<1>2. SumTo(s, n) \in Nat /\ SumTo(t, 0) = 0 /\ n - 0 = n
    <2>1. SumTo(s, n) \in Nat
        BY SumNat
    <2>2. SumTo(t, 0) = 0
        BY SumStep
    <2>3. QED BY <2>1, <2>2
<1>3. 0 \in S
    BY <1>2
<1>4. ASSUME NEW k \in Nat, k \in S PROVE k + 1 \in S
    <2>1. SUFFICES ASSUME k + 1 <= n
                   PROVE  SumTo(t, k + 1) + SumTo(s, n - (k + 1)) = SumTo(s, n)
        OBVIOUS
    <2>2. PICK j \in Nat : j = n - (k + 1)
        BY <2>1
    <2>3. n - k = j + 1 /\ j + 1 \in 1 .. n /\ k + 1 \in 1 .. n /\ n + 1 - (k + 1) = j + 1
          /\ k \in 0 .. n /\ j \in 0 .. n
        BY <2>1, <2>2
    <2>4. SumTo(s, j + 1) = (SumTo(s, j) + s[j + 1]) /\ SumTo(t, k + 1) = (SumTo(t, k) + t[k + 1])
        BY SumStep
    <2>5. t[k + 1] = s[j + 1] /\ s[j + 1] \in Nat
        BY <2>3
    <2>6. SumTo(t, k) \in Nat
        BY <1>1, <2>3, SumType
    <2>7. SumTo(s, j) \in Nat
        BY <2>3, SumType
    <2>8. SumTo(t, k) + SumTo(s, j + 1) = SumTo(s, n)
        BY <1>4, <2>1, <2>3
    <2>9. QED BY <2>2, <2>4, <2>5, <2>6, <2>7, <2>8
<1> HIDE DEF S
<1>5. Nat \subseteq S
    BY <1>3, <1>4, Induct
<1>6. SumTo(t, n) + SumTo(s, n - n) = SumTo(s, n)
    BY <1>5 DEF S
<1>7. n - n = 0 /\ SumTo(s, 0) = 0 /\ SumTo(t, n) \in Nat
    <2>1. SumTo(t, n) \in Nat
        BY <1>1, SumNat
    <2>2. SumTo(s, 0) = 0
        BY SumStep
    <2>3. QED BY <2>1, <2>2
<1>8. QED BY <1>6, <1>7

-----------------------------------------------------------------------------
(* Sequences one after the other *)

\* Three sequences may be put together in either order.
Regroup(x, y, z) == (x \o y) \o z = x \o (y \o z)

\* Three sequences may be put together in either order.
LEMMA Regrouped ==
    \A A : \A x, y, z \in Seq(A) : Regroup(x, y, z)
<1> SUFFICES ASSUME NEW A, NEW x \in Seq(A), NEW y \in Seq(A), NEW z \in Seq(A)
             PROVE  (x \o y) \o z = x \o (y \o z)
    BY DEF Regroup
<1> QED OBVIOUS

\* The two equations of JointTo and of LoopTo.
LEMMA JointNext ==
    ASSUME NEW s, NEW k \in Nat
    PROVE  JointTo(s, k + 1) = JointTo(s, k) \o s[k + 1]
BY JointStep

\* No parts make an empty sequence.
LEMMA JointNone ==
    ASSUME NEW s
    PROVE  JointTo(s, 0) = << >>
BY JointStep

\* The parser's loop takes one token after another.
LEMMA LoopNext ==
    ASSUME NEW T, NEW r, NEW w, NEW k \in Nat
    PROVE  LoopTo(T, r, w, k + 1) = ReadToken(T, LoopTo(T, r, w, k), w[k + 1])
<1>1. \A n \in Nat : LoopTo(T, r, w, n + 1) = ReadToken(T, LoopTo(T, r, w, n), w[n + 1])
    BY LoopStep
<1>2. QED BY <1>1

\* Before the first token nothing was read.
LEMMA LoopNone ==
    ASSUME NEW T, NEW r, NEW w
    PROVE  LoopTo(T, r, w, 0) = r
BY LoopStep

\* What is put together depends on the parts only.
LEMMA JointAgree ==
    ASSUME NEW s, NEW t, NEW n \in Nat, \A i \in 1 .. n : s[i] = t[i]
    PROVE  JointTo(s, n) = JointTo(t, n)
<1> DEFINE S == {k \in Nat : k <= n => JointTo(s, k) = JointTo(t, k)}
<1>1. 0 \in S
    BY JointNone
<1>2. ASSUME NEW k \in Nat, k \in S PROVE k + 1 \in S
    <2>1. SUFFICES ASSUME k + 1 <= n PROVE JointTo(s, k + 1) = JointTo(t, k + 1)
        OBVIOUS
    <2>2. JointTo(s, k + 1) = JointTo(s, k) \o s[k + 1]
        BY JointNext
    <2>3. JointTo(t, k + 1) = JointTo(t, k) \o t[k + 1]
        BY JointNext
    <2>4. s[k + 1] = t[k + 1] /\ JointTo(s, k) = JointTo(t, k)
        BY <1>2, <2>1
    <2>5. QED BY <2>2, <2>3, <2>4
<1> HIDE DEF S
<1>3. Nat \subseteq S
    BY <1>1, <1>2, Induct
<1>4. QED BY <1>3 DEF S

\* The first n parts are sequences over A.
Parts(s, n, A) == \A i \in 1 .. n : s[i] \in Seq(A)

\* It is a sequence of the elements of the parts.
LEMMA JointType ==
    ASSUME NEW A, NEW s, NEW n \in Nat, Parts(s, n, A)
    PROVE  JointTo(s, n) \in Seq(A)
<1> DEFINE S == {k \in Nat : k <= n => JointTo(s, k) \in Seq(A)}
<1>1. 0 \in S
    <2>1. JointTo(s, 0) = << >>
        BY JointNone
    <2>2. QED BY <2>1, EmptySeq
<1>2. ASSUME NEW k \in Nat, k \in S PROVE k + 1 \in S
    <2>1. SUFFICES ASSUME k + 1 <= n PROVE JointTo(s, k + 1) \in Seq(A)
        OBVIOUS
    <2>2. JointTo(s, k + 1) = JointTo(s, k) \o s[k + 1]
        BY JointNext
    <2>3. JointTo(s, k) \in Seq(A) /\ s[k + 1] \in Seq(A)
        BY <1>2, <2>1 DEF Parts
    <2>4. QED BY <2>2, <2>3, ConcatProperties
<1> HIDE DEF S
<1>3. Nat \subseteq S
    BY <1>1, <1>2, Induct
<1>4. QED BY <1>3 DEF S

-----------------------------------------------------------------------------
(* The parser's loop *)

\* Where the loop has come depends on what it has read only.
LEMMA LoopAgree ==
    ASSUME NEW T, NEW r, NEW w, NEW v, NEW n \in Nat,
           \A i \in 1 .. n : \A q : ReadToken(T, q, w[i]) = ReadToken(T, q, v[i])
    PROVE  LoopTo(T, r, w, n) = LoopTo(T, r, v, n)
<1> DEFINE S == {k \in Nat : k <= n => LoopTo(T, r, w, k) = LoopTo(T, r, v, k)}
<1>1. 0 \in S
    BY LoopNone
<1>2. ASSUME NEW k \in Nat, k \in S PROVE k + 1 \in S
    <2>1. SUFFICES ASSUME k + 1 <= n PROVE LoopTo(T, r, w, k + 1) = LoopTo(T, r, v, k + 1)
        OBVIOUS
    <2>2. /\ LoopTo(T, r, w, k + 1) = ReadToken(T, LoopTo(T, r, w, k), w[k + 1])
          /\ LoopTo(T, r, v, k + 1) = ReadToken(T, LoopTo(T, r, v, k), v[k + 1])
        BY LoopNext
    <2>3. k + 1 \in 1 .. n
        BY <2>1
    <2>4. ReadToken(T, LoopTo(T, r, w, k), w[k + 1]) = ReadToken(T, LoopTo(T, r, w, k), v[k + 1])
        BY <2>3
    <2>5. LoopTo(T, r, w, k) = LoopTo(T, r, v, k)
        BY <1>2, <2>1
    <2>6. QED BY <2>2, <2>4, <2>5
<1> HIDE DEF S
<1>3. Nat \subseteq S
    BY <1>1, <1>2, Induct
<1>4. QED BY <1>3 DEF S

\* It may be interrupted and gone on with.
LEMMA LoopSplit ==
    ASSUME NEW T, NEW r, NEW w, NEW v, NEW n \in Nat, NEW m \in Nat,
           \A i \in 1 .. m : v[i] = w[n + i]
    PROVE  LoopTo(T, r, w, n + m) = LoopTo(T, LoopTo(T, r, w, n), v, m)
<1> DEFINE q == LoopTo(T, r, w, n)
           S == {k \in Nat : k <= m => LoopTo(T, r, w, n + k) = LoopTo(T, q, v, k)}
<1>1. 0 \in S
    <2>1. LoopTo(T, q, v, 0) = q /\ n + 0 = n
        BY LoopNone
    <2>2. QED BY <2>1
<1>2. ASSUME NEW k \in Nat, k \in S PROVE k + 1 \in S
    <2>1. SUFFICES ASSUME k + 1 <= m PROVE LoopTo(T, r, w, n + (k + 1)) = LoopTo(T, q, v, k + 1)
        OBVIOUS
    <2>2. n + (k + 1) = (n + k) + 1 /\ n + k \in Nat /\ k + 1 \in 1 .. m
        BY <2>1
    <2>3. LoopTo(T, r, w, (n + k) + 1) = ReadToken(T, LoopTo(T, r, w, n + k), w[(n + k) + 1])
        BY <2>2, LoopNext
    <2>4. LoopTo(T, q, v, k + 1) = ReadToken(T, LoopTo(T, q, v, k), v[k + 1])
        BY LoopNext
    <2>5. v[k + 1] = w[(n + k) + 1]
        BY <2>2
    <2>6. LoopTo(T, r, w, n + k) = LoopTo(T, q, v, k)
        BY <1>2, <2>1
    <2>7. QED BY <2>2, <2>3, <2>4, <2>5, <2>6
<1> HIDE DEF S
<1>3. Nat \subseteq S
    BY <1>1, <1>2, Induct
<1>4. QED BY <1>3 DEF S

\* Two encodings are read one after the other.
LEMMA LoopConcat ==
    ASSUME NEW T, NEW r, NEW A, NEW x \in Seq(A), NEW y \in Seq(A)
    PROVE  Loop(T, r, x \o y) = Loop(T, Loop(T, r, x), y)
<1>1. PICK n \in Nat : n = Len(x)
    OBVIOUS
<1>2. PICK m \in Nat : m = Len(y)
    OBVIOUS
<1>3. PICK z : z = x \o y
    OBVIOUS
<1>4. Len(z) = n + m /\ (\A i \in 1 .. n : z[i] = x[i]) /\ (\A i \in 1 .. m : y[i] = z[n + i])
    <2>1. Len(z) = n + m
        BY <1>1, <1>2, <1>3
    <2>2. \A i \in 1 .. n : z[i] = x[i]
        BY <1>1, <1>2, <1>3
    <2>3. ASSUME NEW i \in 1 .. m PROVE y[i] = z[n + i]
        <3>1. n + i \in 1 .. n + m /\ ~(n + i <= n) /\ (n + i) - n = i
            OBVIOUS
        <3>2. QED BY <1>1, <1>2, <1>3, <3>1
    <2>4. QED BY <2>1, <2>2, <2>3
<1>5. LoopTo(T, r, z, n + m) = LoopTo(T, LoopTo(T, r, z, n), y, m)
    BY <1>4, LoopSplit
<1>6. LoopTo(T, r, z, n) = LoopTo(T, r, x, n)
    BY <1>4, LoopAgree
<1>7. QED BY <1>1, <1>2, <1>3, <1>4, <1>5, <1>6 DEF Loop

\* Nothing is read.
LEMMA LoopEmpty ==
    ASSUME NEW T, NEW r
    PROVE  Loop(T, r, << >>) = r
<1>1. Len(<< >>) = 0
    OBVIOUS
<1>2. LoopTo(T, r, << >>, 0) = r
    BY LoopNone
<1>3. QED BY <1>1, <1>2 DEF Loop

\* One token is read.
LEMMA LoopOne ==
    ASSUME NEW T, NEW r, NEW t
    PROVE  Loop(T, r, <<t>>) = ReadToken(T, r, t)
<1>1. PICK w : w = <<t>>
    OBVIOUS
<1>2. Len(w) = 0 + 1 /\ w[0 + 1] = t
    BY <1>1
<1>3. LoopTo(T, r, w, 0 + 1) = ReadToken(T, LoopTo(T, r, w, 0), w[0 + 1]) /\ LoopTo(T, r, w, 0) = r
    BY LoopNone, LoopNext
<1>4. QED BY <1>1, <1>2, <1>3 DEF Loop

\* After a failure, or the end of the message, nothing more is read.
LEMMA LoopStopped ==
    ASSUME NEW T, NEW r, r.status # "reading", NEW w, NEW n \in Nat
    PROVE  LoopTo(T, r, w, n) = r
<1> DEFINE S == {k \in Nat : LoopTo(T, r, w, k) = r}
<1>1. 0 \in S
    BY LoopNone
<1>2. ASSUME NEW k \in Nat, k \in S PROVE k + 1 \in S
    <2>1. LoopTo(T, r, w, k + 1) = ReadToken(T, LoopTo(T, r, w, k), w[k + 1])
        BY LoopNext
    <2>2. QED BY <1>2, <2>1 DEF ReadToken, ReadTag
<1> HIDE DEF S
<1>3. Nat \subseteq S
    BY <1>1, <1>2, Induct
<1>4. QED BY <1>3 DEF S

Stopped(r) == r.status # "reading"

\* Whatever the tokens are.
LEMMA AllStopped ==
    ASSUME NEW T, NEW r, Stopped(r), NEW w, Len(w) \in Nat
    PROVE  Loop(T, r, w) = r
BY LoopStopped DEF Loop, Stopped

-----------------------------------------------------------------------------
(* The kinds of field, and the rows of a table *)

Rows(T) == DOMAIN Schema[T].write
Row(T, i) == Schema[T].write[i]

\* What is a number, a text, or a list of either.
LEMMA KindIs ==
    ASSUME NEW k \in FieldTypes
    PROVE  /\ ~IsMessage(k) /\ k.repeated \in BOOLEAN
           /\ k.kind \in {"u64", "u32", "i32", "enum", "bool", "string", "bytes"}
           /\ IsText(k) <=> k.kind \in {"string", "bytes"}
           /\ k = Rep(U64) <=> k.repeated /\ ~IsText(k)
           /\ k = Rep(U64) => k.kind = "u64"
<1> DEFINE One(x) == [kind |-> x, of |-> "", repeated |-> FALSE]
           List(x) == [kind |-> x, of |-> "", repeated |-> TRUE]
<1>1. /\ U64 = One("u64") /\ U32 = One("u32") /\ I32 = One("i32") /\ Enum = One("enum")
      /\ Bool = One("bool") /\ Str = One("string") /\ Bytes = One("bytes")
    BY DEF U64, U32, I32, Enum, Bool, Str, Bytes, Kind
<1>2. Rep(U64) = List("u64") /\ Rep(Str) = List("string") /\ Rep(Bytes) = List("bytes")
    BY <1>1 DEF Rep
<1>3. \/ \E x \in {"u64", "u32", "i32", "enum", "bool", "string", "bytes"} : k = One(x)
      \/ \E x \in {"u64", "string", "bytes"} : k = List(x)
    BY <1>1, <1>2 DEF FieldTypes
<1>4. CASE \E x \in {"u64", "u32", "i32", "enum", "bool", "string", "bytes"} : k = One(x)
    <2>1. PICK x \in {"u64", "u32", "i32", "enum", "bool", "string", "bytes"} : k = One(x)
        BY <1>4
    <2>2. k.kind = x /\ k.repeated = FALSE /\ List("u64").repeated = TRUE
        BY <2>1
    <2>3. k # Rep(U64)
        BY <1>2, <2>2
    <2>4. QED BY <2>2, <2>3 DEF IsMessage, IsText
<1>5. CASE \E x \in {"u64", "string", "bytes"} : k = List(x)
    <2>1. PICK x \in {"u64", "string", "bytes"} : k = List(x)
        BY <1>5
    <2>2. k.kind = x /\ k.repeated = TRUE /\ List("u64").kind = "u64"
        BY <2>1
    <2>3. k = Rep(U64) <=> x = "u64"
        BY <1>2, <2>1, <2>2
    <2>4. QED BY <2>2, <2>3 DEF IsMessage, IsText
<1>6. QED BY <1>3, <1>4, <1>5

\* What is a message or a list of them.
LEMMA MessageKindIs ==
    ASSUME NEW S, NEW k \in {Msg(S), Rep(Msg(S))}
    PROVE  /\ IsMessage(k) /\ k.repeated \in BOOLEAN /\ k.of = S
           /\ ~IsText(k) /\ k.kind = "message" /\ k # Rep(U64)
<1>1. k.kind = "message" /\ k.of = S /\ k.repeated \in BOOLEAN
    <2>1. CASE k = Msg(S)
        BY <2>1 DEF Msg
    <2>2. CASE k = Rep(Msg(S))
        <3>1. Msg(S).kind = "message" /\ Msg(S).of = S
            BY DEF Msg
        <3>2. k = [kind |-> "message", of |-> S, repeated |-> TRUE]
            BY <2>2, <3>1 DEF Rep
        <3>3. QED BY <3>2
    <2>3. QED BY <2>1, <2>2
<1>2. Rep(U64).kind = "u64"
    BY DEF Rep, U64, Kind
<1>3. k # Rep(U64)
    BY <1>1, <1>2
<1>4. QED BY <1>1, <1>3 DEF IsMessage, IsText

\* Every field is of one of these kinds.
LEMMA FieldIs ==
    ASSUME NEW T \in MessageTypes, NEW f \in FieldNames(T)
    PROVE  LET k == FieldType(T, f)
           IN  /\ f # "unknown"
               /\ \/ k \in FieldTypes /\ ~IsMessage(k)
                  \/ IsMessage(k) /\ k.of \in MessageTypes /\ Plain(k.of)
                     /\ k \in {Msg(k.of), Rep(Msg(k.of))}
<1>1. Typed(T)
    BY SchemaAssumption
<1>2. f # "unknown"
    BY <1>1 DEF Typed
<1>3. CASE FieldType(T, f) \in FieldTypes
    BY <1>2, <1>3, KindIs
<1>4. CASE \E S \in MessageTypes : Plain(S) /\ FieldType(T, f) \in {Msg(S), Rep(Msg(S))}
    <2>1. PICK S \in MessageTypes : Plain(S) /\ FieldType(T, f) \in {Msg(S), Rep(Msg(S))}
        BY <1>4
    <2>2. IsMessage(FieldType(T, f)) /\ FieldType(T, f).of = S
        BY <2>1, MessageKindIs
    <2>3. QED BY <1>2, <2>1, <2>2
<1>5. QED BY <1>1, <1>3, <1>4 DEF Typed

\* The rows of a table are numbered from one; each has a field of its own.
LEMMA RowIs ==
    ASSUME NEW T \in MessageTypes
    PROVE  /\ \E n \in Nat : Rows(T) = 1 .. n /\ Len(Schema[T].write) = n
           /\ \A i \in Rows(T) :
                 /\ Row(T, i).field \in FieldNames(T)
                 /\ Row(T, i).type = FieldType(T, Row(T, i).field)
                 /\ Row(T, i).num \in Nat \ {0}
                 /\ Row(T, i).tagSize = VarintSize(8 * Row(T, i).num)
                 /\ RowOf(T, Row(T, i).field) = Row(T, i)
           /\ \A i, j \in Rows(T) :
                 i # j => Row(T, i).field # Row(T, j).field /\ Row(T, i).num # Row(T, j).num
           /\ \A f \in FieldNames(T) : \E i \in Rows(T) : Row(T, i).field = f
<1> DEFINE w == Schema[T].write
<1>1. Written(T)
    BY SchemaAssumption
<1>2. w = [i \in 1 .. Len(w) |-> w[i]]
    BY <1>1 DEF Written
<1>3. \E n \in Nat : Rows(T) = 1 .. n /\ Len(w) = n
    <2> PICK v : v = w
        OBVIOUS
    <2>1. DOMAIN v = 1 .. Len(v)
        BY <1>2
    <2>2. Len(v) \in Nat
        BY <1>1 DEF Written
    <2>3. QED BY <2>1, <2>2 DEF Rows
<1>4. ASSUME NEW i \in Rows(T)
      PROVE  /\ Row(T, i).field \in FieldNames(T)
             /\ Row(T, i).type = FieldType(T, Row(T, i).field)
             /\ Row(T, i).num \in Nat \ {0}
             /\ Row(T, i).tagSize = VarintSize(8 * Row(T, i).num)
    BY <1>1 DEF Written, Rows, Row
<1>5. \A i, j \in Rows(T) :
          i # j => Row(T, i).field # Row(T, j).field /\ Row(T, i).num # Row(T, j).num
    BY <1>1 DEF Written, Rows, Row
<1>6. \A f \in FieldNames(T) : \E i \in Rows(T) : Row(T, i).field = f
    BY <1>1 DEF Written, Rows, Row
<1>7. ASSUME NEW i \in Rows(T) PROVE RowOf(T, Row(T, i).field) = Row(T, i)
    <2> PICK f : f = Row(T, i).field
        OBVIOUS
    <2> DEFINE c == CHOOSE j \in Rows(T) : Row(T, j).field = f
    <2>1. c \in Rows(T) /\ Row(T, c).field = f
        OBVIOUS
    <2>2. c = i
        BY <1>5, <2>1
    <2>3. RowOf(T, f) = Row(T, c)
        BY DEF RowOf, Rows, Row
    <2>4. QED BY <2>2, <2>3
<1>8. QED BY <1>3, <1>4, <1>5, <1>6, <1>7

-----------------------------------------------------------------------------
(* Reading one token *)

Reading(m) == State("reading", m)
Put(m, f, v) == [m EXCEPT ![f] = v]

\* What a number or a text may be, as an accessor takes it.
Texts == [len : Nat, utf8 : BOOLEAN]
Scalars(k) ==
    IF IsText(k) THEN Texts
    ELSE IF k.kind = "u64" THEN 0 .. W64 - 1
    ELSE IF k.kind = "u32" THEN 0 .. W32 - 1
    ELSE IF k.kind = "bool" THEN {0, 1}
    ELSE IF k.kind = "enum" THEN {n \in Int : 0 <= n /\ n < 8192}
    ELSE {n \in Int : -8192 <= n /\ n < 8192}

\* A token written for a row is read by the case of the same field.
LEMMA KnownRow ==
    ASSUME NEW T \in MessageTypes, NEW i \in Rows(T), NEW t,
           t.num = Row(T, i).num, t.wireType \in WrittenAs(Row(T, i).type)
    PROVE  /\ Cases(T, t) # {}
           /\ RowFor(T, t).field = Row(T, i).field
           /\ RowFor(T, t).type = Row(T, i).type
<1> DEFINE b == Bare(Row(T, i).num, t.wireType)
<1>1. b.num = t.num /\ b.wireType = t.wireType
    BY DEF Bare
<1>2. Cases(T, b) = Cases(T, t)
    BY <1>1 DEF Cases, TagOf, CasesIn
<1>3. /\ Cases(T, b) # {}
      /\ \A j \in Cases(T, b) : /\ Schema[T].parse[j].field = Row(T, i).field
                                /\ Schema[T].parse[j].type = Row(T, i).type
    <2>1. Understood(T)
        BY SchemaAssumption
    <2>2. /\ Cases(T, b) # {}
          /\ \A j \in Cases(T, b) : Schema[T].parse[j].field = Row(T, i).field
        BY <2>1 DEF Understood, Rows, Row
    <2>3. \A j \in Cases(T, b) :
              Schema[T].parse[j].type = FieldType(T, Schema[T].parse[j].field)
        BY <2>1 DEF Understood, Cases, CasesIn
    <2>4. Row(T, i).type = FieldType(T, Row(T, i).field)
        BY RowIs
    <2>5. QED BY <2>2, <2>3, <2>4
<1> HIDE DEF b
<1>4. PICK c : c = (CHOOSE j \in Cases(T, t) : TRUE)
    OBVIOUS
<1>5. c \in Cases(T, t)
    BY <1>2, <1>3, <1>4
<1>6. RowFor(T, t) = Schema[T].parse[c]
    BY <1>4 DEF RowFor
<1>7. QED BY <1>2, <1>3, <1>5, <1>6

\* Only its field and its type matter to what a case does.
LEMMA SameCase ==
    ASSUME NEW p, NEW q, p.field = q.field, p.type = q.type, NEW r, NEW t
    PROVE  ReadField(p, r, t) = ReadField(q, r, t)
<1>1. ReadPlain(p, r, t) = ReadPlain(q, r, t)
    BY DEF ReadPlain, Store
<1>2. \A v : Store(p, r, v) = Store(q, r, v)
    BY DEF Store
<1>3. QED BY <1>1, <1>2 DEF ReadField, Nest

\* A token written for a row of the table is read by the case of that row.
LEMMA ReadKnown ==
    ASSUME NEW T \in MessageTypes, NEW i \in Rows(T), NEW t, NEW m,
           t.num = Row(T, i).num, t.wireType \in WrittenAs(Row(T, i).type)
    PROVE  ReadToken(T, Reading(m), t) = ReadField(Row(T, i), Reading(m), t)
<1>1. /\ Cases(T, t) # {}
      /\ RowFor(T, t).field = Row(T, i).field
      /\ RowFor(T, t).type = Row(T, i).type
    BY KnownRow
<1>2. ReadField(RowFor(T, t), Reading(m), t) = ReadField(Row(T, i), Reading(m), t)
    BY <1>1, SameCase
<1>3. Reading(m).status = "reading"
    BY DEF Reading, State
<1>4. QED BY <1>1, <1>2, <1>3 DEF ReadToken, ReadTag

\* What is stored, and where.
LEMMA StoreIs ==
    ASSUME NEW row, NEW m, NEW v
    PROVE  Store(row, Reading(m), v) =
               Reading(Put(m, row.field, IF row.type.repeated THEN Append(m[row.field], v)
                                         ELSE IF IsMessage(row.type) THEN <<v>> ELSE v))
<1>1. Reading(m).msg = m
    BY DEF Reading, State
<1>2. QED BY <1>1 DEF Store, Reading, Put

\* A number less than the modulus is its own remainder; a negative one of 14
\* bits comes back from its 28.
LEMMA Remainders ==
    /\ \A v \in Int : 0 <= v /\ v < W64 => v % W64 = v
    /\ \A v \in Int : 0 <= v /\ v < W32 => v % W64 = v /\ v % W32 = v
    /\ \A v \in Int : -8192 <= v /\ v < 8192 =>
          LET low == (v % W64) % W32
          IN  v = IF low < W32 \div 2 THEN low ELSE low - W32
    /\ \A v \in Int : v % W64 \in Int /\ 0 <= v % W64 /\ v % W64 < W64
BY SMT DEF W64, W32

\* What the numbers of each kind are.
LEMMA ScalarsAre ==
    ASSUME NEW k \in FieldTypes, ~IsText(k), NEW v \in Scalars(k)
    PROVE  /\ v \in Int
           /\ k.kind = "u64" => 0 <= v /\ v < W64
           /\ k.kind = "u32" => 0 <= v /\ v < W32
           /\ k.kind = "bool" => v \in {0, 1}
           /\ k.kind = "enum" => 0 <= v /\ v < 8192
           /\ k.kind = "i32" => -8192 <= v /\ v < 8192
           /\ k.kind \in {"u64", "u32", "i32", "enum", "bool"}
<1>1. k.kind \in {"u64", "u32", "i32", "enum", "bool"}
    BY KindIs
<1>2. CASE k.kind = "u64"
    <2>1. Scalars(k) = 0 .. W64 - 1
        BY <1>2 DEF Scalars
    <2>2. W64 \in Int /\ W32 \in Int
        BY DEF W64, W32
    <2>3. v \in Int /\ 0 <= v /\ v < W64
        BY <2>1, <2>2
    <2>4. QED BY <1>2, <2>3
<1>3. CASE k.kind = "u32"
    <2>1. Scalars(k) = 0 .. W32 - 1
        BY <1>3 DEF Scalars
    <2>2. W64 \in Int /\ W32 \in Int
        BY DEF W64, W32
    <2>3. v \in Int /\ 0 <= v /\ v < W32
        BY <2>1, <2>2
    <2>4. QED BY <1>3, <2>3
<1>4. CASE k.kind = "bool"
    BY <1>4, SMT DEF Scalars
<1>5. CASE k.kind = "i32"
    <2>1. Scalars(k) = {n \in Int : -8192 <= n /\ n < 8192}
        BY <1>5 DEF Scalars
    <2>2. v \in Int /\ -8192 <= v /\ v < 8192
        BY <2>1
    <2>3. QED BY <1>5, <2>2
<1>6. CASE k.kind = "enum"
    <2>1. Scalars(k) = {n \in Int : 0 <= n /\ n < 8192}
        BY <1>6 DEF Scalars
    <2>2. v \in Int /\ 0 <= v /\ v < 8192
        BY <2>1
    <2>3. QED BY <1>6, <2>2
<1>7. QED BY <1>1, <1>2, <1>3, <1>4, <1>5, <1>6

\* Cutting a varint to the field's width undoes its sign extension.
LEMMA NarrowIs ==
    ASSUME NEW k \in FieldTypes, ~IsText(k), NEW v \in Scalars(k)
    PROVE  Narrow(k, v % W64) = v
<1>1. CASE k.kind = "u64"
    BY <1>1, ScalarsAre, Remainders, SMT DEF Narrow
<1>2. CASE k.kind = "u32"
    <2>1. v % W64 = v /\ v % W32 = v
        BY <1>2, ScalarsAre, Remainders, SMT
    <2>2. QED BY <1>2, <2>1, SMT DEF Narrow
<1>3. CASE k.kind = "bool"
    <2>1. v \in {0, 1} /\ 0 < W64 /\ 1 < W64
        BY <1>3, ScalarsAre, SMT DEF W64
    <2>2. v % W64 = v
        BY <2>1, Remainders, SMT
    <2>3. QED BY <1>3, <2>1, <2>2, SMT DEF Narrow
<1>4. CASE k.kind \in {"i32", "enum"}
    <2>1. LET low == (v % W64) % W32
          IN  v = IF low < W32 \div 2 THEN low ELSE low - W32
        <3>1. v \in Int /\ -8192 <= v /\ v < 8192
            BY <1>4, ScalarsAre
        <3>2. QED BY <3>1, Remainders, SMT
    <2>2. Narrow(k, v % W64) = LET low == (v % W64) % W32
                               IN  IF low < W32 \div 2 THEN low ELSE low - W32
        BY <1>4, SMT DEF Narrow
    <2>3. QED BY <2>1, <2>2, SMT
<1>5. QED BY <1>1, <1>2, <1>3, <1>4, ScalarsAre

\* A number or a text as it is written.
Written1(row, v) == IF IsText(row.type) THEN Text(row.num, v) ELSE Varint(row.num, v)

\* Written and read, it goes where it came from; a string must be UTF-8.
LEMMA ReadScalar ==
    ASSUME NEW T \in MessageTypes, NEW i \in Rows(T), NEW row, row = Row(T, i),
           row.type \in FieldTypes, NEW v \in Scalars(row.type), NEW m
    PROVE  ReadToken(T, Reading(m), Written1(row, v)) =
               IF row.type.kind = "string" /\ ~v.utf8 THEN State("failed", m)
               ELSE Reading(Put(m, row.field, IF row.type.repeated THEN Append(m[row.field], v)
                                              ELSE v))
<1> PICK t : t = Written1(row, v)
    OBVIOUS
<1>1. ~IsMessage(row.type) /\ Reading(m).msg = m
    BY KindIs DEF Reading, State
<1>2. ReadField(row, Reading(m), t) = ReadPlain(row, Reading(m), t)
    BY <1>1 DEF ReadField, Nest
<1>3. Store(row, Reading(m), v) =
          Reading(Put(m, row.field, IF row.type.repeated THEN Append(m[row.field], v) ELSE v))
    BY <1>1, StoreIs
<1>4. CASE IsText(row.type)
    <2>1. t.num = row.num /\ t.wireType = 2 /\ t.text = v
        BY <1>4 DEF Written1, Text
    <2>2. 2 \in WrittenAs(row.type)
        BY <1>4 DEF WrittenAs
    <2>3. ReadToken(T, Reading(m), t) = ReadField(row, Reading(m), t)
        BY <2>1, <2>2, ReadKnown
    <2>4. ReadPlain(row, Reading(m), t) =
              IF row.type.kind = "string" /\ ~v.utf8 THEN State("failed", m)
              ELSE Store(row, Reading(m), v)
        BY <1>1, <1>4, <2>1 DEF ReadPlain
    <2>5. QED BY <1>2, <1>3, <2>3, <2>4
<1>5. CASE ~IsText(row.type)
    <2>1. t.num = row.num /\ t.wireType = 0 /\ t.number = v % W64 /\ "numbers" \notin DOMAIN t
        BY <1>5 DEF Written1, Varint
    <2>2. 0 \in WrittenAs(row.type)
        BY <1>1, <1>5 DEF WrittenAs
    <2>3. ReadToken(T, Reading(m), t) = ReadField(row, Reading(m), t)
        BY <2>1, <2>2, ReadKnown
    <2>4. row.type.kind \notin {"string", "bytes"}
        BY <1>5, KindIs
    <2>5. ReadPlain(row, Reading(m), t) = Store(row, Reading(m), Narrow(row.type, t.number))
        BY <1>5, <2>1, <2>4 DEF ReadPlain
    <2>6. Narrow(row.type, t.number) = v
        BY <1>5, <2>1, NarrowIs
    <2>7. QED BY <1>2, <1>3, <2>3, <2>4, <2>5, <2>6
<1>6. QED BY <1>4, <1>5

-----------------------------------------------------------------------------
(* Objects, and lists read element by element *)

Fields(T) == FieldNames(T) \cup {"unknown"}
IsObject(T, x) == x = [f \in Fields(T) |-> x[f]]

\* What reading comes to: the object, unless it fails.
Outcome(r, ok, m) == IF ok THEN r = Reading(m) ELSE r.status # "reading"

\* A field that was put is there, and the others are as they were.
IsPut(T, x, f, v, y) ==
    /\ IsObject(T, y)
    /\ y[f] = v
    /\ \A h \in Fields(T) : h # f => y[h] = x[h]

\* A field is put, and the others are left.
LEMMA PutIs ==
    \A T, x, f, v : IsObject(T, x) /\ f \in Fields(T) => IsPut(T, x, f, v, Put(x, f, v))
<1> SUFFICES ASSUME NEW T, NEW x, NEW f, NEW v, IsObject(T, x), f \in Fields(T)
             PROVE  IsPut(T, x, f, v, Put(x, f, v))
    OBVIOUS
<1> PICK D : D = Fields(T)
    OBVIOUS
<1>1. x = [h \in D |-> x[h]]
    BY DEF IsObject
<1>2. Put(x, f, v) = [h \in D |-> IF h = f THEN v ELSE x[h]]
    BY <1>1 DEF Put
<1>3. QED BY <1>2 DEF IsObject, IsPut

\* Objects that have the same fields are the same.
LEMMA SameObject ==
    \A T, x, y : IsObject(T, x) /\ IsObject(T, y) /\ (\A h \in Fields(T) : x[h] = y[h]) => x = y
<1> SUFFICES ASSUME NEW T, NEW x, NEW y, IsObject(T, x), IsObject(T, y),
                    \A h \in Fields(T) : x[h] = y[h]
             PROVE  x = y
    OBVIOUS
<1>1. x = [h \in Fields(T) |-> x[h]] /\ y = [h \in Fields(T) |-> y[h]]
    BY DEF IsObject
<1>2. QED BY <1>1

\* Putting back what is there changes nothing; of two values the later stays.
LEMMA PutSame ==
    \A T, x, f : IsObject(T, x) /\ f \in Fields(T) => Put(x, f, x[f]) = x
<1> SUFFICES ASSUME NEW T, NEW x, NEW f, IsObject(T, x), f \in Fields(T)
             PROVE  Put(x, f, x[f]) = x
    OBVIOUS
<1> PICK y : y = Put(x, f, x[f])
    OBVIOUS
<1>1. IsPut(T, x, f, x[f], y)
    BY PutIs
<1>2. IsObject(T, y) /\ \A h \in Fields(T) : y[h] = x[h]
    BY <1>1 DEF IsPut
<1>3. y = x
    BY <1>2, SameObject
<1>4. QED BY <1>3

\* What is put second replaces what was put first.
LEMMA PutTwice ==
    \A T, x, f, v, w : IsObject(T, x) /\ f \in Fields(T) =>
        Put(Put(x, f, v), f, w) = Put(x, f, w)
<1> SUFFICES ASSUME NEW T, NEW x, NEW f, NEW v, NEW w, IsObject(T, x), f \in Fields(T)
             PROVE  Put(Put(x, f, v), f, w) = Put(x, f, w)
    OBVIOUS
<1> PICK y : y = Put(x, f, v)
    OBVIOUS
<1> PICK z : z = Put(y, f, w)
    OBVIOUS
<1> PICK u : u = Put(x, f, w)
    OBVIOUS
<1>1. IsPut(T, x, f, v, y) /\ IsPut(T, x, f, w, u)
    BY PutIs
<1>2. IsObject(T, y)
    BY <1>1 DEF IsPut
<1>3. IsPut(T, y, f, w, z)
    BY <1>2, PutIs
<1>4. IsObject(T, z) /\ IsObject(T, u) /\ \A h \in Fields(T) : z[h] = u[h]
    BY <1>1, <1>3 DEF IsPut
<1>5. z = u
    BY <1>4, SameObject
<1>6. QED BY <1>5

\* The first k elements.
Upto(v, k) == [i \in 1 .. k |-> v[i]]
UptoNext(a, v, k, B) ==
    /\ a \o Upto(v, k) \in Seq(B)
    /\ Append(a \o Upto(v, k), v[k + 1]) = a \o Upto(v, k + 1)

\* A list is built from its elements one by one.
LEMMA UptoIs ==
    ASSUME NEW B, NEW a \in Seq(B), NEW v \in Seq(B)
    PROVE  /\ a \o Upto(v, 0) = a
           /\ Upto(v, Len(v)) = v
           /\ \A k \in Nat : k + 1 <= Len(v) => UptoNext(a, v, k, B)
<1>0. Len(v) \in Nat /\ \A i \in 1 .. Len(v) : v[i] \in B
    BY LenProperties, ElementOfSeq
<1>1. a \o Upto(v, 0) = a
    <2>1. Upto(v, 0) = << >>
        BY DEF Upto
    <2>2. QED BY <2>1, ConcatEmptySeq
<1>2. Upto(v, Len(v)) = v
    <2>1. v = [i \in 1 .. Len(v) |-> v[i]]
        OBVIOUS
    <2>2. QED BY <2>1 DEF Upto
<1>3. ASSUME NEW k \in Nat, k + 1 <= Len(v)
      PROVE  UptoNext(a, v, k, B)
    <2> PICK u : u = Upto(v, k)
        OBVIOUS
    <2> PICK w : w = Upto(v, k + 1)
        OBVIOUS
    <2>1. u \in Seq(B) /\ Len(u) = k /\ \A i \in 1 .. k : u[i] = v[i]
        <3>1. \A i \in 1 .. k : v[i] \in B
            BY <1>0, <1>3
        <3>2. QED BY <3>1 DEF Upto
    <2>2. w \in Seq(B) /\ Len(w) = k + 1 /\ \A i \in 1 .. k + 1 : w[i] = v[i]
        <3>1. \A i \in 1 .. k + 1 : v[i] \in B
            BY <1>0, <1>3
        <3>2. QED BY <3>1 DEF Upto
    <2>3. a \o u \in Seq(B) /\ a \o w \in Seq(B) /\ v[k + 1] \in B
        <3>1. a \o u \in Seq(B) /\ a \o w \in Seq(B)
            BY <2>1, <2>2, ConcatProperties
        <3>2. k + 1 \in 1 .. Len(v)
            BY <1>0, <1>3
        <3>3. QED BY <1>0, <3>1, <3>2
    <2>4. Append(a \o u, v[k + 1]) = a \o w
        <3>1. Append(u, v[k + 1]) = w
            BY <2>1, <2>2, <2>3
        <3>2. Append(a \o u, v[k + 1]) = a \o Append(u, v[k + 1])
            <4> PICK e \in B : e = v[k + 1]
                BY <2>3
            <4>1. Append(a \o u, e) = (a \o u) \o <<e>> /\ Append(u, e) = u \o <<e>>
                BY <2>1, <2>3, AppendIsConcat
            <4>2. (a \o u) \o <<e>> = a \o (u \o <<e>>)
                <5>1. <<e>> \in Seq(B)
                    OBVIOUS
                <5>2. QED BY <2>1, <5>1, ConcatAssociative, SMTT(30)
            <4>3. QED BY <4>1, <4>2
        <3>3. QED BY <3>1, <3>2
    <2>5. QED BY <2>3, <2>4 DEF UptoNext
<1>4. QED BY <1>1, <1>2, <1>3

\* Each token adds an element to the list f, or is not accepted.
Elements(T, f, B, p, v, G) ==
    \A i \in 1 .. Len(v) : \A y : IsObject(T, y) /\ y[f] \in Seq(B) =>
        Outcome(ReadToken(T, Reading(y), p[i]), i \in G, Put(y, f, Append(y[f], v[i])))

\* A list of tokens, each with an element, is read as the list.
LEMMA ListRead ==
    ASSUME NEW T, NEW f \in Fields(T), NEW B, NEW v \in Seq(B), NEW p, NEW G,
           Elements(T, f, B, p, v, G), NEW x, IsObject(T, x), x[f] \in Seq(B)
    PROVE  Outcome(LoopTo(T, Reading(x), p, Len(v)), \A i \in 1 .. Len(v) : i \in G,
                   Put(x, f, x[f] \o v))
<1> DEFINE at(k) == Put(x, f, x[f] \o Upto(v, k))
           Sofar(k) == k <= Len(v) => Outcome(LoopTo(T, Reading(x), p, k),
                                              \A i \in 1 .. k : i \in G, at(k))
           D == {k \in Nat : Sofar(k)}
<1>1. Len(v) \in Nat
    OBVIOUS
<1>2. Sofar(0)
    <2>1. at(0) = x
        <3>1. x[f] \o Upto(v, 0) = x[f]
            BY UptoIs
        <3>2. Put(x, f, x[f]) = x
            BY PutSame
        <3>3. QED BY <3>1, <3>2
    <2>2. LoopTo(T, Reading(x), p, 0) = Reading(x)
        BY LoopNone
    <2>3. QED BY <2>1, <2>2 DEF Outcome
<1> HIDE DEF Sofar
<1>3. ASSUME NEW k \in Nat, Sofar(k) PROVE Sofar(k + 1)
    <2> SUFFICES ASSUME k + 1 <= Len(v)
                 PROVE  Outcome(LoopTo(T, Reading(x), p, k + 1),
                                \A i \in 1 .. k + 1 : i \in G, at(k + 1))
        BY DEF Sofar
    <2> PICK r : r = LoopTo(T, Reading(x), p, k)
        OBVIOUS
    <2> PICK y : y = at(k)
        OBVIOUS
    <2>1. LoopTo(T, Reading(x), p, k + 1) = ReadToken(T, r, p[k + 1])
        BY LoopNext
    <2>2. Outcome(r, \A i \in 1 .. k : i \in G, y)
        BY <1>1, <1>3 DEF Sofar, Outcome
    <2>3. (\A i \in 1 .. k + 1 : i \in G) <=> (\A i \in 1 .. k : i \in G) /\ k + 1 \in G
        <3>1. \A i \in 1 .. k + 1 : i \in 1 .. k \/ i = k + 1
            OBVIOUS
        <3>2. k + 1 \in 1 .. k + 1 /\ \A i \in 1 .. k : i \in 1 .. k + 1
            OBVIOUS
        <3>3. QED BY <3>1, <3>2
    <2>4. /\ IsObject(T, y) /\ y[f] \in Seq(B) /\ y[f] = x[f] \o Upto(v, k)
          /\ Put(y, f, Append(y[f], v[k + 1])) = at(k + 1)
        <3>0. UptoNext(x[f], v, k, B)
            BY UptoIs
        <3>1. x[f] \o Upto(v, k) \in Seq(B)
            BY <3>0 DEF UptoNext
        <3>2. Append(x[f] \o Upto(v, k), v[k + 1]) = x[f] \o Upto(v, k + 1)
            BY <3>0 DEF UptoNext
        <3> PICK l : l = x[f] \o Upto(v, k)
            OBVIOUS
        <3>3. IsObject(T, y) /\ y[f] = l
            <4>1. y = Put(x, f, l)
                OBVIOUS
            <4>2. IsPut(T, x, f, l, Put(x, f, l))
                BY PutIs
            <4>3. QED BY <4>1, <4>2 DEF IsPut
        <3>4. \A w : Put(y, f, w) = Put(x, f, w)
            BY PutTwice
        <3>5. QED BY <3>1, <3>2, <3>3, <3>4
    <2> HIDE DEF at
    <2>5. Outcome(ReadToken(T, Reading(y), p[k + 1]), k + 1 \in G, at(k + 1))
        <3>1. k + 1 \in 1 .. Len(v)
            BY <1>1
        <3> PICK j \in 1 .. Len(v) : j = k + 1
            BY <3>1
        <3>2. Outcome(ReadToken(T, Reading(y), p[j]), j \in G, Put(y, f, Append(y[f], v[j])))
            BY <2>4, ZenonT(30) DEF Elements
        <3>3. QED BY <2>4, <3>2 DEF Outcome
    <2>6. CASE \A i \in 1 .. k : i \in G
        <3>1. r = Reading(y)
            BY <2>2, <2>6 DEF Outcome
        <3>2. QED BY <2>1, <2>3, <2>5, <2>6, <3>1 DEF Outcome
    <2>7. CASE ~ \A i \in 1 .. k : i \in G
        <3>1. r.status # "reading"
            BY <2>2, <2>7 DEF Outcome
        <3>2. ReadToken(T, r, p[k + 1]) = r
            BY <3>1 DEF ReadToken, ReadTag
        <3>3. QED BY <2>1, <2>3, <2>7, <3>1, <3>2 DEF Outcome
    <2>8. QED BY <2>6, <2>7
<1>4. Nat \subseteq D
    <2>1. 0 \in D /\ \A k \in Nat : k \in D => k + 1 \in D
        BY <1>2, <1>3
    <2> HIDE DEF D
    <2>2. QED BY <2>1, Induct
<1>5. Sofar(Len(v))
    BY <1>1, <1>4
<1>6. Outcome(LoopTo(T, Reading(x), p, Len(v)), \A i \in 1 .. Len(v) : i \in G, at(Len(v)))
    BY <1>1, <1>5 DEF Sofar, Outcome
<1>7. Upto(v, Len(v)) = v
    BY UptoIs
<1>8. QED BY <1>6, <1>7 DEF Outcome

-----------------------------------------------------------------------------
(* Reading what was written for one row *)

\* What a field and an object may hold; only an outer object has unknown
\* fields, and they are those of this schema's peers.
PlainValues(k) == IF k.repeated THEN Seq(Scalars(k)) ELSE Scalars(k)

Held(S) == {<< >>} \cup UNION {PlainValues(FieldType(S, f)) : f \in FieldNames(S)}
PlainMessages(S) ==
    {m \in [Fields(S) -> Held(S)] :
        /\ m.unknown = << >>
        /\ \A f \in FieldNames(S) : m[f] \in PlainValues(FieldType(S, f))}

Values(k) ==
    IF IsMessage(k) THEN {l \in Seq(PlainMessages(k.of)) : k.repeated \/ Len(l) <= 1}
    ELSE PlainValues(k)

StrayTokens == {Strays[1], Strays[2]}
IsMsg(T, m) ==
    /\ IsObject(T, m)
    /\ m.unknown \in Seq(StrayTokens)
    /\ \A f \in FieldNames(T) : m[f] \in Values(FieldType(T, f))

\* A value that is written and read again is merged into the field.
ReadsBack(T, row, x, v) ==
    Outcome(Loop(T, Reading(x), WriteField(row, v)), FineValue(row.type, v),
            Put(x, row.field, Merged(row, x[row.field], v)))
RowRead(T, row) ==
    \A x, v : IsObject(T, x) /\ x[row.field] \in Values(row.type) /\ v \in Values(row.type) =>
        ReadsBack(T, row, x, v)

\* For a row that is no message the functions are the plain ones.
LEMMA PlainRow ==
    \A row, x, v, T : row.type \in FieldTypes =>
        /\ WriteField(row, v) = WritePlain(row, v)
        /\ Merged(row, x, v) = MergedPlain(row, x, v)
        /\ FieldSize(row, v) = SizePlain(row, v)
        /\ FineValue(row.type, v) <=> FinePlain(row.type, v)
        /\ Values(row.type) = PlainValues(row.type)
BY KindIs DEF WriteField, Merged, FieldSize, FineValue, Values

\* A default, for which nothing is written, leaves the field.
LEMMA DefaultRead ==
    ASSUME NEW T, NEW row, row.type \in FieldTypes, row.field \in Fields(T),
           NEW x, IsObject(T, x), x[row.field] \in PlainValues(row.type)
    PROVE  ReadsBack(T, row, x, Default(row.type))
<1> PICK f : f = row.field
    OBVIOUS
<1> PICK k \in FieldTypes : k = row.type
    OBVIOUS
<1> PICK v : v = Default(k)
    OBVIOUS
<1>1. WriteField(row, v) = << >>
    BY PlainRow DEF WritePlain
<1>2. Loop(T, Reading(x), << >>) = Reading(x)
    BY LoopEmpty
<1>3. Merged(row, x[f], v) = x[f]
    <2>1. Merged(row, x[f], v) = MergedPlain(row, x[f], v)
        BY PlainRow
    <2>2. CASE k.repeated
        <3>1. v = << >>
            BY <2>2 DEF Default, IsSeq
        <3>2. x[f] \in Seq(Scalars(k))
            BY <2>2 DEF PlainValues
        <3>3. x[f] \o << >> = x[f]
            BY <3>2, ConcatEmptySeq
        <3>4. QED BY <2>1, <2>2, <3>1, <3>3 DEF MergedPlain
    <2>3. CASE ~k.repeated
        BY <2>1, <2>3 DEF MergedPlain
    <2>4. QED BY <2>2, <2>3
<1>4. FineValue(k, v)
    <2>1. FineValue(k, v) <=> FinePlain(k, v)
        BY PlainRow
    <2>2. CASE k.repeated
        <3>1. v = << >>
            BY <2>2 DEF Default, IsSeq
        <3>2. QED BY <2>1, <2>2, <3>1 DEF FinePlain
    <2>3. CASE ~k.repeated
        <3>1. CASE k.kind = "string"
            <4>1. v = EmptyText
                BY <2>3, <3>1, KindIs DEF Default, IsSeq, IsText
            <4>2. QED BY <2>1, <2>3, <4>1 DEF FinePlain, EmptyText
        <3>2. CASE k.kind # "string"
            BY <2>1, <3>2 DEF FinePlain
        <3>3. QED BY <3>1, <3>2
    <2>4. QED BY <2>2, <2>3
<1>5. Put(x, f, x[f]) = x
    BY PutSame
<1>6. QED BY <1>1, <1>2, <1>3, <1>4, <1>5 DEF ReadsBack, Outcome

\* A packed list of numbers is read as it was written.
LEMMA NumbersRead ==
    ASSUME NEW T \in MessageTypes, NEW i \in Rows(T), NEW row, row = Row(T, i),
           row.type = Rep(U64), NEW x, NEW v, v # << >>
    PROVE  ReadsBack(T, row, x, v)
<1> PICK k \in FieldTypes : k = row.type
    BY DEF FieldTypes
<1>1. k.kind = "u64" /\ k.repeated /\ ~IsText(k) /\ ~IsMessage(k)
    BY KindIs
<1>2. WriteField(row, v) = << Packed(row.num, v) >>
    <2>1. Default(k) = << >>
        BY <1>1 DEF Default, IsSeq
    <2>2. QED BY <2>1, PlainRow DEF WritePlain
<1> PICK t : t = Packed(row.num, v)
    OBVIOUS
<1>3. t.num = row.num /\ t.wireType = 2 /\ t.numbers = v /\ "numbers" \in DOMAIN t
    BY DEF Packed
<1>4. 2 \in WrittenAs(k)
    BY <1>1 DEF WrittenAs
<1>5. Loop(T, Reading(x), << t >>) = ReadToken(T, Reading(x), t)
    BY LoopOne
<1>6. ReadToken(T, Reading(x), t) = ReadField(row, Reading(x), t)
    BY <1>3, <1>4, ReadKnown
<1>7. ReadField(row, Reading(x), t) = ReadPlain(row, Reading(x), t)
    BY <1>1 DEF ReadField, Nest
<1>8. ReadPlain(row, Reading(x), t) = Reading(Put(x, row.field, x[row.field] \o v))
    <2>1. Reading(x).msg = x
        BY DEF Reading, State
    <2>2. QED BY <1>1, <1>3, <2>1 DEF ReadPlain, Reading, Put
<1>9. Merged(row, x[row.field], v) = x[row.field] \o v
    <2>1. Merged(row, x[row.field], v) = MergedPlain(row, x[row.field], v)
        BY PlainRow
    <2>2. QED BY <1>1, <2>1 DEF MergedPlain
<1>10. FineValue(k, v)
    <2>1. FineValue(k, v) <=> FinePlain(k, v)
        BY PlainRow
    <2>2. QED BY <1>1, <2>1 DEF FinePlain
<1>11. QED BY <1>2, <1>5, <1>6, <1>7, <1>8, <1>9, <1>10 DEF ReadsBack, Outcome

\* So is a number or a text.
LEMMA OneRead ==
    ASSUME NEW T \in MessageTypes, NEW i \in Rows(T), NEW row, row = Row(T, i),
           row.type \in FieldTypes, ~row.type.repeated, NEW x,
           NEW v \in Scalars(row.type), v # Default(row.type)
    PROVE  ReadsBack(T, row, x, v)
<1> PICK k \in FieldTypes : k = row.type
    OBVIOUS
<1>1. WriteField(row, v) = << Written1(row, v) >>
    <2>1. k # Rep(U64)
        BY KindIs
    <2>2. QED BY <2>1, PlainRow DEF WritePlain, Written1
<1>2. Loop(T, Reading(x), << Written1(row, v) >>) = ReadToken(T, Reading(x), Written1(row, v))
    BY LoopOne
<1>3. ReadToken(T, Reading(x), Written1(row, v)) =
          IF k.kind = "string" /\ ~v.utf8 THEN State("failed", x)
          ELSE Reading(Put(x, row.field, v))
    BY ReadScalar
<1>4. Merged(row, x[row.field], v) = v
    <2>1. Merged(row, x[row.field], v) = MergedPlain(row, x[row.field], v)
        BY PlainRow
    <2>2. QED BY <2>1 DEF MergedPlain
<1>5. FineValue(k, v) <=> (k.kind = "string" => v.utf8)
    <2>1. FineValue(k, v) <=> FinePlain(k, v)
        BY PlainRow
    <2>2. QED BY <2>1 DEF FinePlain
<1>6. State("failed", x).status # "reading"
    BY DEF State
<1>7. QED BY <1>1, <1>2, <1>3, <1>4, <1>5, <1>6 DEF ReadsBack, Outcome

\* So is a list of texts, one token for each.
LEMMA TextsRead ==
    ASSUME NEW T \in MessageTypes, NEW i \in Rows(T), NEW row, row = Row(T, i),
           row.type \in FieldTypes, row.type.repeated, row.type # Rep(U64),
           NEW x, IsObject(T, x), row.field \in Fields(T), x[row.field] \in PlainValues(row.type),
           NEW v \in PlainValues(row.type), v # << >>
    PROVE  ReadsBack(T, row, x, v)
<1> PICK k \in FieldTypes : k = row.type
    OBVIOUS
<1> PICK f \in Fields(T) : f = row.field
    OBVIOUS
<1> PICK B : B = Scalars(k)
    OBVIOUS
<1> PICK p : p = [j \in DOMAIN v |-> Written1(row, v[j])]
    OBVIOUS
<1> PICK n : n = Len(v)
    OBVIOUS
<1> DEFINE G == {j \in 1 .. n : k.kind = "string" => v[j].utf8}
<1>1. v \in Seq(B) /\ x[f] \in Seq(B)
    BY DEF PlainValues
<1>2. n \in Nat /\ DOMAIN v = 1 .. n /\ \A j \in 1 .. n : v[j] \in B
    BY <1>1, LenProperties, ElementOfSeq
<1>3. WriteField(row, v) = p
    <2>1. Default(k) = << >>
        BY DEF Default, IsSeq
    <2>2. QED BY <2>1, PlainRow DEF WritePlain, Written1
<1>4. Len(p) = n /\ \A j \in 1 .. n : p[j] = Written1(row, v[j])
    BY <1>2
<1>5. Elements(T, f, B, p, v, G)
    <2> SUFFICES ASSUME NEW j \in 1 .. n, NEW y, IsObject(T, y), y[f] \in Seq(B)
                 PROVE  Outcome(ReadToken(T, Reading(y), p[j]), j \in G,
                                Put(y, f, Append(y[f], v[j])))
        BY Zenon DEF Elements
    <2>1. v[j] \in Scalars(row.type)
        BY <1>2
    <2>2. ReadToken(T, Reading(y), Written1(row, v[j])) =
              IF row.type.kind = "string" /\ ~v[j].utf8 THEN State("failed", y)
              ELSE Reading(Put(y, row.field, IF row.type.repeated THEN Append(y[row.field], v[j])
                                             ELSE v[j]))
        BY <2>1, ReadScalar
    <2>3. State("failed", y).status # "reading"
        BY DEF State
    <2>4. p[j] = Written1(row, v[j])
        BY <1>4
    <2>5. j \in G <=> ~(k.kind = "string" /\ ~v[j].utf8)
        OBVIOUS
    <2> HIDE DEF G
    <2>6. QED BY <2>2, <2>3, <2>4, <2>5 DEF Outcome
<1> HIDE DEF G
<1>6. Outcome(LoopTo(T, Reading(x), p, Len(v)), \A j \in 1 .. Len(v) : j \in G,
              Put(x, f, x[f] \o v))
    BY <1>1, <1>5, ListRead
<1>7. Loop(T, Reading(x), p) = LoopTo(T, Reading(x), p, n)
    BY <1>4 DEF Loop
<1>8. Merged(row, x[f], v) = x[f] \o v
    <2>1. Merged(row, x[f], v) = MergedPlain(row, x[f], v)
        BY PlainRow
    <2>2. QED BY <2>1 DEF MergedPlain
<1>9. FineValue(k, v) <=> \A j \in 1 .. n : j \in G
    <2>1. FineValue(k, v) <=> FinePlain(k, v)
        BY PlainRow
    <2>2. (\A j \in 1 .. n : j \in G) <=> (k.kind = "string" => \A j \in 1 .. n : v[j].utf8)
        BY DEF G
    <2>3. QED BY <1>2, <2>1, <2>2 DEF FinePlain
<1>10. QED BY <1>3, <1>6, <1>7, <1>8, <1>9 DEF ReadsBack, Outcome

\* A field that is no message is read back.
LEMMA PlainRowRead ==
    ASSUME NEW T \in MessageTypes, NEW i \in Rows(T), Row(T, i).type \in FieldTypes
    PROVE  RowRead(T, Row(T, i))
<1> PICK row : row = Row(T, i)
    OBVIOUS
<1> PICK k \in FieldTypes : k = row.type
    OBVIOUS
<1>1. Values(k) = PlainValues(k)
    BY PlainRow
<1>2. row.field \in Fields(T)
    BY RowIs DEF Fields
<1> SUFFICES ASSUME NEW x, NEW v, IsObject(T, x), x[row.field] \in PlainValues(k),
                    v \in PlainValues(k)
             PROVE  ReadsBack(T, row, x, v)
    BY <1>1, Zenon DEF RowRead
<1>3. CASE v = Default(k)
    BY <1>2, <1>3, DefaultRead
<1>4. CASE v # Default(k) /\ ~k.repeated
    <2>1. v \in Scalars(k)
        BY <1>4 DEF PlainValues
    <2>2. QED BY <1>4, <2>1, OneRead
<1>5. CASE v # Default(k) /\ k.repeated
    <2>1. v # << >>
        BY <1>5 DEF Default, IsSeq
    <2>2. CASE k = Rep(U64)
        BY <2>1, <2>2, NumbersRead
    <2>3. CASE k # Rep(U64)
        BY <1>2, <1>5, <2>1, <2>3, TextsRead
    <2>4. QED BY <2>2, <2>3
<1>6. QED BY <1>3, <1>4, <1>5

-----------------------------------------------------------------------------
(* Reading an object, piece by piece *)

\* Each piece puts into a field of its own what the object c has there; c is
\* like a in all other fields.
Pieces(T, a, c, q, F, G, n) ==
    /\ \A i \in 1 .. n : F[i] \in Fields(T) /\ \A j \in 1 .. n : i # j => F[i] # F[j]
    /\ \A f \in Fields(T) : (\A i \in 1 .. n : F[i] # f) => c[f] = a[f]
    /\ \A i \in 1 .. n : \A x : IsObject(T, x) /\ x[F[i]] = a[F[i]] =>
           Outcome(Loop(T, Reading(x), q[i]), i \in G, Put(x, F[i], c[F[i]]))

\* Half of the way from a to c: the fields of the first k pieces are put.
Between(T, a, c, F, k) ==
    [f \in Fields(T) |-> IF \E i \in 1 .. k : F[i] = f THEN c[f] ELSE a[f]]

\* The way from a to c starts at a, ends at c, and puts one field with each
\* piece.
LEMMA BetweenIs ==
    ASSUME NEW T, NEW a, NEW c, NEW q, NEW F, NEW G, NEW n \in Nat,
           IsObject(T, a), IsObject(T, c), Pieces(T, a, c, q, F, G, n)
    PROVE  /\ Between(T, a, c, F, 0) = a
           /\ Between(T, a, c, F, n) = c
           /\ \A k \in Nat : k + 1 <= n =>
                 /\ IsObject(T, Between(T, a, c, F, k))
                 /\ Between(T, a, c, F, k)[F[k + 1]] = a[F[k + 1]]
                 /\ Put(Between(T, a, c, F, k), F[k + 1], c[F[k + 1]]) = Between(T, a, c, F, k + 1)
<1> DEFINE b(k) == Between(T, a, c, F, k)
<1>1. \A k : IsObject(T, b(k))
    BY DEF Between, IsObject
<1>2. \A k : \A f \in Fields(T) : b(k)[f] = IF \E i \in 1 .. k : F[i] = f THEN c[f] ELSE a[f]
    BY DEF Between
<1>3. /\ \A i \in 1 .. n : F[i] \in Fields(T) /\ \A j \in 1 .. n : i # j => F[i] # F[j]
      /\ \A f \in Fields(T) : (\A i \in 1 .. n : F[i] # f) => c[f] = a[f]
    BY DEF Pieces
<1> HIDE DEF b
<1>4. b(0) = a
    <2>1. \A f \in Fields(T) : b(0)[f] = a[f]
        BY <1>2
    <2>2. QED BY <1>1, <2>1, SameObject
<1>5. b(n) = c
    <2>1. \A f \in Fields(T) : b(n)[f] = c[f]
        BY <1>2, <1>3
    <2>2. QED BY <1>1, <2>1, SameObject
<1>6. ASSUME NEW k \in Nat, k + 1 <= n
      PROVE  /\ b(k)[F[k + 1]] = a[F[k + 1]]
             /\ Put(b(k), F[k + 1], c[F[k + 1]]) = b(k + 1)
    <2> PICK h : h = F[k + 1]
        OBVIOUS
    <2>1. h \in Fields(T) /\ \A i \in 1 .. k : F[i] # h
        <3>1. k + 1 \in 1 .. n /\ \A i \in 1 .. k : i \in 1 .. n /\ i # k + 1
            BY <1>6
        <3>2. QED BY <1>3, <3>1
    <2>2. b(k)[h] = a[h]
        BY <1>2, <2>1
    <2> PICK y : y = Put(b(k), h, c[h])
        OBVIOUS
    <2>3. IsPut(T, b(k), h, c[h], y)
        BY <1>1, <2>1, PutIs
    <2>4. \A f \in Fields(T) : y[f] = b(k + 1)[f]
        <3>1. TAKE f \in Fields(T)
        <3>2. CASE f = h
            <4>1. k + 1 \in 1 .. k + 1
                OBVIOUS
            <4>2. b(k + 1)[f] = c[h]
                BY <1>2, <3>2, <4>1
            <4>3. QED BY <2>3, <3>2, <4>2 DEF IsPut
        <3>3. CASE f # h
            <4>1. (\E i \in 1 .. k + 1 : F[i] = f) <=> (\E i \in 1 .. k : F[i] = f)
                <5>1. \A i \in 1 .. k + 1 : i \in 1 .. k \/ i = k + 1
                    OBVIOUS
                <5>2. \A i \in 1 .. k : i \in 1 .. k + 1
                    OBVIOUS
                <5>3. QED BY <3>3, <5>1, <5>2
            <4>2. y[f] = b(k)[f]
                BY <2>3, <3>3 DEF IsPut
            <4>3. QED BY <1>2, <4>1, <4>2
        <3>4. QED BY <3>2, <3>3
    <2>5. IsObject(T, y)
        BY <2>3 DEF IsPut
    <2>6. y = b(k + 1)
        BY <1>1, <2>4, <2>5, SameObject
    <2>7. QED BY <2>2, <2>6
<1>7. QED BY <1>1, <1>4, <1>5, <1>6 DEF b

\* Pieces that each put their field lead from a to c, unless one is not
\* accepted.
LEMMA PiecesRead ==
    ASSUME NEW T, NEW a, NEW c, NEW q, NEW F, NEW G, NEW n \in Nat, NEW A,
           IsObject(T, a), IsObject(T, c), Pieces(T, a, c, q, F, G, n), Parts(q, n, A)
    PROVE  Outcome(Loop(T, Reading(a), JointTo(q, n)), \A i \in 1 .. n : i \in G, c)
<1> DEFINE b(k) == Between(T, a, c, F, k)
           Sofar(k) == k <= n => Outcome(Loop(T, Reading(a), JointTo(q, k)),
                                         \A i \in 1 .. k : i \in G, b(k))
           D == {k \in Nat : Sofar(k)}
<1>1. b(0) = a /\ b(n) = c
    BY BetweenIs
<1>2. Sofar(0)
    <2>1. Loop(T, Reading(a), << >>) = Reading(a)
        BY LoopEmpty
    <2>2. JointTo(q, 0) = << >>
        BY JointNone
    <2>3. QED BY <1>1, <2>1, <2>2 DEF Outcome
<1> HIDE DEF Sofar, b
<1>3. ASSUME NEW k \in Nat, Sofar(k) PROVE Sofar(k + 1)
    <2> SUFFICES ASSUME k + 1 <= n
                 PROVE  Outcome(Loop(T, Reading(a), JointTo(q, k + 1)),
                                \A i \in 1 .. k + 1 : i \in G, b(k + 1))
        BY DEF Sofar
    <2> PICK r : r = Loop(T, Reading(a), JointTo(q, k))
        OBVIOUS
    <2> PICK j \in 1 .. n : j = k + 1
        OBVIOUS
    <2>1. Loop(T, Reading(a), JointTo(q, k + 1)) = Loop(T, r, q[j])
        <3>1. JointTo(q, k + 1) = JointTo(q, k) \o q[k + 1]
            BY JointNext
        <3>2. JointTo(q, k) \in Seq(A)
            <4>1. Parts(q, k, A)
                BY DEF Parts
            <4>2. QED BY <4>1, JointType
        <3>3. q[j] \in Seq(A)
            BY DEF Parts
        <3>4. Loop(T, Reading(a), JointTo(q, k) \o q[j])
                  = Loop(T, Loop(T, Reading(a), JointTo(q, k)), q[j])
            BY <3>2, <3>3, LoopConcat
        <3>5. QED BY <3>1, <3>4
    <2>2. Outcome(r, \A i \in 1 .. k : i \in G, b(k))
        BY <1>3 DEF Sofar, Outcome
    <2>3. (\A i \in 1 .. k + 1 : i \in G) <=> (\A i \in 1 .. k : i \in G) /\ j \in G
        <3>1. \A i \in 1 .. k + 1 : i \in 1 .. k \/ i = k + 1
            OBVIOUS
        <3>2. k + 1 \in 1 .. k + 1 /\ \A i \in 1 .. k : i \in 1 .. k + 1
            OBVIOUS
        <3>3. QED BY <3>1, <3>2
    <2>4. /\ IsObject(T, b(k)) /\ b(k)[F[j]] = a[F[j]]
          /\ Put(b(k), F[j], c[F[j]]) = b(k + 1)
        BY BetweenIs DEF b
    <2> PICK y : y = b(k)
        OBVIOUS
    <2>5. Outcome(Loop(T, Reading(y), q[j]), j \in G, Put(y, F[j], c[F[j]]))
        <3>1. \A x : IsObject(T, x) /\ x[F[j]] = a[F[j]] =>
                  Outcome(Loop(T, Reading(x), q[j]), j \in G, Put(x, F[j], c[F[j]]))
            BY Zenon DEF Pieces
        <3>2. QED BY <2>4, <3>1, Zenon
    <2>6. CASE \A i \in 1 .. k : i \in G
        <3>1. r = Reading(y)
            BY <2>2, <2>6 DEF Outcome
        <3>2. QED BY <2>1, <2>3, <2>4, <2>5, <2>6, <3>1 DEF Outcome
    <2>7. CASE ~ \A i \in 1 .. k : i \in G
        <3>1. r.status # "reading"
            BY <2>2, <2>7 DEF Outcome
        <3>2. Loop(T, r, q[j]) = r
            <4>1. Len(q[j]) \in Nat
                BY LenProperties DEF Parts
            <4>2. QED BY <3>1, <4>1, LoopStopped DEF Loop
        <3>3. QED BY <2>1, <2>3, <2>7, <3>1, <3>2 DEF Outcome
    <2>8. QED BY <2>6, <2>7
<1>4. Nat \subseteq D
    <2>1. 0 \in D /\ \A k \in Nat : k \in D => k + 1 \in D
        BY <1>2, <1>3
    <2> HIDE DEF D
    <2>2. QED BY <2>1, Induct
<1>5. Sofar(n)
    BY <1>4
<1>6. QED BY <1>1, <1>5 DEF Sofar, Outcome

-----------------------------------------------------------------------------
(* The tokens of an encoding *)

RowTokens(row) ==
    LET k == row.type
    IN  IF IsMessage(k) THEN {Nested(row.num, SerializePlain(k.of, m)) : m \in PlainMessages(k.of)}
        ELSE IF k = Rep(U64) THEN {Packed(row.num, v) : v \in PlainValues(k)}
        ELSE {Written1(row, v) : v \in {s \in Scalars(k) : k.repeated \/ s # Default(k)}}
Tokens(T) == StrayTokens \cup UNION {RowTokens(Row(T, i)) : i \in Rows(T)}

\* Every element of a sequence is mapped to one of another.
LEMMA MappedSeq ==
    ASSUME NEW B, NEW v \in Seq(B), NEW p, p = [j \in DOMAIN v |-> p[j]],
           NEW C, \A j \in 1 .. Len(v) : p[j] \in C
    PROVE  p \in Seq(C) /\ Len(p) = Len(v) /\ DOMAIN p = 1 .. Len(v)
<1>1. Len(v) \in Nat /\ DOMAIN v = 1 .. Len(v)
    BY LenProperties
<1>2. QED BY <1>1

\* What is written for a field are tokens of its row.
LEMMA WrittenTokens ==
    ASSUME NEW row, row.type \in FieldTypes \/ IsMessage(row.type), NEW v \in Values(row.type)
    PROVE  WriteField(row, v) \in Seq(RowTokens(row))
<1> PICK k : k = row.type
    OBVIOUS
<1> PICK R : R = RowTokens(row)
    OBVIOUS
<1>1. CASE IsMessage(k)
    <2> PICK p : p = WriteField(row, v)
        OBVIOUS
    <2>1. p = [j \in DOMAIN v |-> Nested(row.num, SerializePlain(k.of, v[j]))]
        BY <1>1 DEF WriteField
    <2>2. v \in Seq(PlainMessages(k.of))
        BY <1>1 DEF Values
    <2>3. DOMAIN v = 1 .. Len(v) /\ \A j \in 1 .. Len(v) : v[j] \in PlainMessages(k.of)
        BY <2>2, LenProperties, ElementOfSeq
    <2>4. \A j \in 1 .. Len(v) : p[j] \in R
        BY <1>1, <2>1, <2>3 DEF RowTokens
    <2>5. p = [j \in DOMAIN v |-> p[j]]
        BY <2>1
    <2>6. p \in Seq(R)
        BY <2>2, <2>4, <2>5, MappedSeq, ZenonT(60)
    <2>7. QED BY <2>6
<1>2. CASE k \in FieldTypes
    <2>1. ~IsMessage(k) /\ WriteField(row, v) = WritePlain(row, v) /\ v \in PlainValues(k)
        BY <1>2, PlainRow, KindIs
    <2>2. CASE v = Default(k)
        <3>1. WriteField(row, v) = << >>
            BY <2>1, <2>2 DEF WritePlain
        <3>2. QED BY <3>1
    <2>3. CASE v # Default(k) /\ k = Rep(U64)
        <3>1. WriteField(row, v) = << Packed(row.num, v) >>
            BY <2>1, <2>3 DEF WritePlain
        <3>2. Packed(row.num, v) \in R
            BY <2>1, <2>3 DEF RowTokens
        <3>3. QED BY <3>1, <3>2
    <2>4. CASE v # Default(k) /\ k # Rep(U64) /\ k.repeated
        <3> PICK p : p = WriteField(row, v)
            OBVIOUS
        <3>1. p = [j \in DOMAIN v |-> Written1(row, v[j])]
            BY <2>1, <2>4 DEF WritePlain, Written1
        <3>2. v \in Seq(Scalars(k))
            BY <2>1, <2>4 DEF PlainValues
        <3>3. DOMAIN v = 1 .. Len(v) /\ \A j \in 1 .. Len(v) : v[j] \in Scalars(k)
            BY <3>2, LenProperties, ElementOfSeq
        <3>4. \A j \in 1 .. Len(v) : p[j] \in R
            BY <2>1, <2>4, <3>1, <3>3 DEF RowTokens
        <3>5. p = [j \in DOMAIN v |-> p[j]]
            BY <3>1
        <3>6. p \in Seq(R)
            BY <3>2, <3>4, <3>5, MappedSeq, ZenonT(60)
        <3>7. QED BY <3>6
    <2>5. CASE v # Default(k) /\ k # Rep(U64) /\ ~k.repeated
        <3>1. WriteField(row, v) = << Written1(row, v) >>
            BY <2>1, <2>5 DEF WritePlain, Written1
        <3>2. v \in Scalars(k)
            BY <2>1, <2>5 DEF PlainValues
        <3>3. Written1(row, v) \in R
            BY <2>1, <2>5, <3>2 DEF RowTokens
        <3>4. QED BY <3>1, <3>3
    <2>6. QED BY <2>2, <2>3, <2>4, <2>5
<1>3. QED BY <1>1, <1>2

\* Tokens no case reads join the unknown fields.
LEMMA StraysRead ==
    ASSUME NEW T \in MessageTypes, NEW x, IsObject(T, x), x.unknown \in Seq(StrayTokens),
           NEW v \in Seq(StrayTokens)
    PROVE  Loop(T, Reading(x), v) = Reading(Put(x, "unknown", x.unknown \o v))
<1> PICK B : B = StrayTokens
    OBVIOUS
<1> PICK f \in Fields(T) : f = "unknown"
    BY DEF Fields
<1> PICK n : n = Len(v)
    OBVIOUS
<1> PICK G : G = 1 .. n
    OBVIOUS
<1>1. n \in Nat /\ \A j \in 1 .. n : v[j] \in B
    BY LenProperties, ElementOfSeq
<1>2. ASSUME NEW t \in B, NEW y, IsObject(T, y)
      PROVE  ReadToken(T, Reading(y), t) = Reading(Put(y, f, Append(y[f], t)))
    <2>1. Cases(T, t) = {}
        BY <1>2, StraysAssumption DEF StrayTokens
    <2>2. t.wireType # 4 /\ TagOf(t) # 0
        BY <1>2 DEF StrayTokens, Strays, Varint, Bare, TagOf
    <2>3. Reading(y).status = "reading" /\ Reading(y).msg = y
        BY DEF Reading, State
    <2>4. QED BY <2>1, <2>2, <2>3 DEF ReadToken, ReadTag, Reading, Put
<1>3. Elements(T, f, B, v, v, G)
    <2> SUFFICES ASSUME NEW j \in 1 .. n, NEW y, IsObject(T, y)
                 PROVE  Outcome(ReadToken(T, Reading(y), v[j]), j \in G,
                                Put(y, f, Append(y[f], v[j])))
        BY Zenon DEF Elements
    <2>1. ReadToken(T, Reading(y), v[j]) = Reading(Put(y, f, Append(y[f], v[j])))
        BY <1>1, <1>2
    <2>2. QED BY <2>1 DEF Outcome
<1>4. Outcome(LoopTo(T, Reading(x), v, Len(v)), \A j \in 1 .. Len(v) : j \in G,
              Put(x, f, x[f] \o v))
    BY <1>3, ListRead
<1>5. QED BY <1>4 DEF Outcome, Loop

-----------------------------------------------------------------------------
(* Reading an object that was serialized *)

\* The object as it is before its unknown fields.
Known(a, m) == Put(m, "unknown", a.unknown)

\* MergeFrom field by field.
LEMMA MergeIs ==
    ASSUME NEW T \in MessageTypes, NEW a, NEW m, IsObject(T, a)
    PROVE  LET c == MergeFrom(T, a, m)
           IN  /\ IsObject(T, c)
               /\ c.unknown = a.unknown \o m.unknown
               /\ \A f \in FieldNames(T) : c[f] = Merged(RowOf(T, f), a[f], m[f])
<1> PICK D : D = Fields(T)
    OBVIOUS
<1>1. DOMAIN a = D
    BY DEF IsObject
<1>2. "unknown" \in D /\ \A f \in FieldNames(T) : f \in D /\ f # "unknown"
    BY FieldIs DEF Fields
<1> PICK c : c = MergeFrom(T, a, m)
    OBVIOUS
<1>3. c = [f \in D |-> IF f = "unknown" THEN a.unknown \o m.unknown
                       ELSE Merged(RowOf(T, f), a[f], m[f])]
    BY <1>1 DEF MergeFrom
<1>4. QED BY <1>2, <1>3 DEF IsObject

RowsRead(T) == \A i \in Rows(T) : RowRead(T, Row(T, i))

\* The tokens of an object are pieces, one for each row of the table.
LEMMA RowsPieces ==
    ASSUME NEW T \in MessageTypes, RowsRead(T), NEW a, IsMsg(T, a), NEW m, IsMsg(T, m)
    PROVE  LET w == Schema[T].write
               q == [i \in DOMAIN w |-> WriteField(w[i], m[w[i].field])]
               F == [i \in DOMAIN w |-> w[i].field]
               G == {i \in DOMAIN w : FineValue(w[i].type, m[w[i].field])}
           IN  Pieces(T, a, Known(a, MergeFrom(T, a, m)), q, F, G, Len(w))
<1> PICK w : w = Schema[T].write
    OBVIOUS
<1> PICK q : q = [i \in DOMAIN w |-> WriteField(w[i], m[w[i].field])]
    OBVIOUS
<1> PICK F : F = [i \in DOMAIN w |-> w[i].field]
    OBVIOUS
<1> PICK G : G = {i \in DOMAIN w : FineValue(w[i].type, m[w[i].field])}
    OBVIOUS
<1> PICK c : c = Known(a, MergeFrom(T, a, m))
    OBVIOUS
<1> PICK n \in Nat : DOMAIN w = 1 .. n /\ Len(w) = n
    BY RowIs DEF Rows
<1>1. ASSUME NEW i \in 1 .. n
      PROVE  /\ w[i].field \in FieldNames(T) /\ w[i].type = FieldType(T, w[i].field)
             /\ RowOf(T, w[i].field) = w[i]
             /\ RowRead(T, w[i])
    BY RowIs DEF Rows, Row, RowsRead
<1>2. /\ \A i, j \in 1 .. n : i # j => w[i].field # w[j].field
      /\ \A f \in FieldNames(T) : \E i \in 1 .. n : w[i].field = f
    BY RowIs DEF Rows, Row
<1>3. IsObject(T, a) /\ IsObject(T, m)
    BY DEF IsMsg
<1>4. /\ c.unknown = a.unknown
      /\ \A f \in FieldNames(T) : c[f] = Merged(RowOf(T, f), a[f], m[f])
    <2> PICK d : d = MergeFrom(T, a, m)
        OBVIOUS
    <2>1. IsObject(T, d) /\ \A f \in FieldNames(T) : d[f] = Merged(RowOf(T, f), a[f], m[f])
        BY <1>3, MergeIs, ZenonT(60)
    <2>2. IsPut(T, d, "unknown", a.unknown, c)
        BY <2>1, PutIs DEF Known, Fields
    <2>3. QED BY <2>1, <2>2, FieldIs DEF IsPut, Fields
<1>5. \A i \in 1 .. n : F[i] \in Fields(T) /\ \A j \in 1 .. n : i # j => F[i] # F[j]
    BY <1>1, <1>2 DEF Fields
<1>6. ASSUME NEW f \in Fields(T), \A i \in 1 .. n : F[i] # f PROVE c[f] = a[f]
    <2>1. f \notin FieldNames(T)
        BY <1>2, <1>6
    <2>2. QED BY <1>4, <2>1 DEF Fields
<1>7. ASSUME NEW i \in 1 .. n, NEW x, IsObject(T, x), x[F[i]] = a[F[i]]
      PROVE  Outcome(Loop(T, Reading(x), q[i]), i \in G, Put(x, F[i], c[F[i]]))
    <2> PICK row : row = w[i]
        OBVIOUS
    <2> PICK f \in FieldNames(T) : f = row.field
        BY <1>1
    <2>1. a[f] \in Values(row.type) /\ m[f] \in Values(row.type)
        BY <1>1 DEF IsMsg
    <2>2. ReadsBack(T, row, x, m[f])
        <3>1. x[row.field] \in Values(row.type) /\ RowRead(T, row)
            BY <1>1, <1>7, <2>1
        <3>2. QED BY <1>7, <2>1, <3>1, Zenon DEF RowRead
    <2>3. q[i] = WriteField(row, m[f]) /\ (i \in G <=> FineValue(row.type, m[f])) /\ F[i] = f
        OBVIOUS
    <2>4. c[f] = Merged(row, a[f], m[f]) /\ x[f] = a[f]
        BY <1>1, <1>4, <1>7
    <2>5. QED BY <2>2, <2>3, <2>4 DEF ReadsBack, Outcome
<1>8. Pieces(T, a, c, q, F, G, n)
    BY <1>5, <1>6, <1>7, Zenon DEF Pieces
<1>9. QED BY <1>8
\* Every row has a type that is plain or a message.
LEMMA RowKind ==
    ASSUME NEW T \in MessageTypes, NEW i \in Rows(T)
    PROVE  LET k == Row(T, i).type
           IN  \/ k \in FieldTypes /\ ~IsMessage(k)
               \/ IsMessage(k) /\ k.of \in MessageTypes /\ Plain(k.of)
                  /\ k \in {Msg(k.of), Rep(Msg(k.of))}
<1>1. Row(T, i).field \in FieldNames(T) /\ Row(T, i).type = FieldType(T, Row(T, i).field)
    BY RowIs
<1>2. QED BY <1>1, FieldIs

\* An encoding is the tokens of its rows and then the unknown fields.
LEMMA WrittenParts ==
    ASSUME NEW T \in MessageTypes, NEW m, IsMsg(T, m)
    PROVE  LET w == Schema[T].write
               q == [i \in DOMAIN w |-> WriteField(w[i], m[w[i].field])]
           IN  /\ Parts(q, Len(w), Tokens(T))
               /\ Len(q) = Len(w) /\ Len(w) \in Nat
               /\ Serialize(T, m) \in Seq(Tokens(T))
               /\ Serialize(T, m) = JointTo(q, Len(w)) \o m.unknown
<1> PICK w : w = Schema[T].write
    OBVIOUS
<1> PICK q : q = [i \in DOMAIN w |-> WriteField(w[i], m[w[i].field])]
    OBVIOUS
<1> PICK n \in Nat : DOMAIN w = 1 .. n /\ Len(w) = n
    BY RowIs DEF Rows
<1>1. ASSUME NEW i \in 1 .. n PROVE q[i] \in Seq(Tokens(T))
    <2> PICK row : row = w[i]
        OBVIOUS
    <2>1. row.field \in FieldNames(T) /\ row.type = FieldType(T, row.field)
        BY RowIs DEF Rows, Row
    <2>2. row.type \in FieldTypes \/ IsMessage(row.type)
        BY <2>1, FieldIs
    <2>3. m[row.field] \in Values(row.type)
        BY <2>1 DEF IsMsg
    <2>4. q[i] = WriteField(row, m[row.field])
        OBVIOUS
    <2>5. q[i] \in Seq(RowTokens(row))
        BY <2>2, <2>3, <2>4, WrittenTokens
    <2>6. RowTokens(row) \subseteq Tokens(T)
        BY DEF Tokens, Rows, Row
    <2> PICK p : p = q[i]
        OBVIOUS
    <2> PICK R : R = RowTokens(row)
        OBVIOUS
    <2>7. p \in Seq(Tokens(T))
        <3>1. p \in Seq(R) /\ R \subseteq Tokens(T)
            BY <2>5, <2>6
        <3>2. QED BY <3>1
    <2>8. QED BY <2>7
<1>2. Parts(q, n, Tokens(T))
    BY <1>1 DEF Parts
<1>3. Len(q) = n
    OBVIOUS
<1>4. JointTo(q, n) \in Seq(Tokens(T))
    BY <1>2, JointType
<1>5. m.unknown \in Seq(Tokens(T))
    <2>1. m.unknown \in Seq(StrayTokens) /\ StrayTokens \subseteq Tokens(T)
        BY DEF IsMsg, Tokens
    <2> PICK u : u = m.unknown
        OBVIOUS
    <2> PICK R : R = StrayTokens
        OBVIOUS
    <2>2. u \in Seq(Tokens(T))
        BY <2>1
    <2>3. QED BY <2>2
<1>6. Serialize(T, m) = JointTo(q, n) \o m.unknown
    BY <1>3 DEF Serialize, Joint, WriteRows
<1>7. Serialize(T, m) \in Seq(Tokens(T))
    <2> PICK A : A = Tokens(T)
        OBVIOUS
    <2> PICK x \in Seq(A) : x = JointTo(q, n)
        BY <1>4
    <2> PICK y \in Seq(A) : y = m.unknown
        BY <1>5
    <2>1. x \o y \in Seq(A)
        BY ConcatProperties
    <2>2. QED BY <1>6, <2>1
<1>8. QED BY <1>2, <1>3, <1>6, <1>7

\* An object serialized is merged into the one that reads it, and is accepted
\* exactly if its strings are UTF-8.
Accepted(T, a, m) ==
    Outcome(Loop(T, Reading(a), Serialize(T, m)), WellFormed(T, m), MergeFrom(T, a, m))

\* If every row is read back then the whole object is.
LEMMA SerializedRead ==
    ASSUME NEW T \in MessageTypes, RowsRead(T), NEW a, IsMsg(T, a), NEW m, IsMsg(T, m)
    PROVE  Accepted(T, a, m)
<1> PICK w : w = Schema[T].write
    OBVIOUS
<1> PICK q : q = [i \in DOMAIN w |-> WriteField(w[i], m[w[i].field])]
    OBVIOUS
<1> PICK F : F = [i \in DOMAIN w |-> w[i].field]
    OBVIOUS
<1> PICK G : G = {i \in DOMAIN w : FineValue(w[i].type, m[w[i].field])}
    OBVIOUS
<1> PICK d : d = MergeFrom(T, a, m)
    OBVIOUS
<1> PICK c : c = Known(a, d)
    OBVIOUS
<1> PICK n \in Nat : DOMAIN w = 1 .. n /\ Len(w) = n
    BY RowIs DEF Rows
<1> PICK j : j = JointTo(q, n)
    OBVIOUS
<1>1. Pieces(T, a, c, q, F, G, n)
    BY RowsPieces
<1>2. Parts(q, n, Tokens(T)) /\ Serialize(T, m) = j \o m.unknown
    BY WrittenParts
<1>3. IsObject(T, a) /\ a.unknown \in Seq(StrayTokens) /\ m.unknown \in Seq(StrayTokens)
    BY DEF IsMsg
<1>4. IsObject(T, d) /\ d.unknown = a.unknown \o m.unknown
    BY <1>3, MergeIs, ZenonT(60)
<1>5. "unknown" \in Fields(T)
    BY DEF Fields
<1>6. IsObject(T, c) /\ c.unknown = a.unknown
    <2>1. IsPut(T, d, "unknown", a.unknown, c)
        BY <1>4, <1>5, PutIs DEF Known
    <2>2. QED BY <2>1 DEF IsPut
<1>7. Outcome(Loop(T, Reading(a), j), \A i \in 1 .. n : i \in G, c)
    <2> PICK A : A = Tokens(T)
        OBVIOUS
    <2>1. IsObject(T, a) /\ IsObject(T, c) /\ Parts(q, n, A)
        BY <1>2, <1>3, <1>6
    <2>2. Outcome(Loop(T, Reading(a), JointTo(q, n)), \A i \in 1 .. n : i \in G, c)
        BY <1>1, <2>1, PiecesRead, ZenonT(60)
    <2>3. QED BY <2>2 DEF Outcome
<1>8. (\A i \in 1 .. n : i \in G) <=> WellFormed(T, m)
    <2>1. \A i \in 1 .. n : w[i].field \in FieldNames(T) /\ w[i].type = FieldType(T, w[i].field)
        BY RowIs DEF Rows, Row
    <2>2. \A f \in FieldNames(T) : \E i \in 1 .. n : w[i].field = f
        BY RowIs DEF Rows, Row
    <2>3. \A i \in 1 .. n : i \in G <=> FineValue(w[i].type, m[w[i].field])
        OBVIOUS
    <2>4. QED BY <2>1, <2>2, <2>3, SMTT(30) DEF WellFormed
<1>9. Loop(T, Reading(a), j \o m.unknown) = Loop(T, Loop(T, Reading(a), j), m.unknown)
    <2>1. j \in Seq(Tokens(T))
        BY <1>2, JointType
    <2>2. m.unknown \in Seq(Tokens(T))
        <3>1. StrayTokens \subseteq Tokens(T)
            BY DEF Tokens
        <3> PICK R : R = StrayTokens
            OBVIOUS
        <3>2. QED BY <1>3, <3>1
    <2>3. QED BY <2>1, <2>2, LoopConcat
<1>10. Loop(T, Reading(c), m.unknown) = Reading(d)
    <2>1. Loop(T, Reading(c), m.unknown) = Reading(Put(c, "unknown", c.unknown \o m.unknown))
        BY <1>3, <1>6, StraysRead
    <2>2. c.unknown \o m.unknown = d.unknown
        BY <1>4, <1>6
    <2>3. Put(Put(d, "unknown", a.unknown), "unknown", d["unknown"])
            = Put(d, "unknown", d["unknown"])
        BY <1>4, <1>5, PutTwice
    <2>4. Put(d, "unknown", d["unknown"]) = d
        BY <1>4, <1>5, PutSame
    <2>5. QED BY <2>1, <2>2, <2>3, <2>4 DEF Known
<1>11. CASE WellFormed(T, m)
    <2>1. Loop(T, Reading(a), j) = Reading(c)
        BY <1>7, <1>8, <1>11 DEF Outcome
    <2>2. QED BY <1>2, <1>9, <1>10, <1>11, <2>1 DEF Outcome, Accepted
<1>12. CASE ~WellFormed(T, m)
    <2>1. Loop(T, Reading(a), j).status # "reading"
        BY <1>7, <1>8, <1>12 DEF Outcome
    <2>2. Loop(T, Loop(T, Reading(a), j), m.unknown) = Loop(T, Reading(a), j)
        <3>p. PICK r, u : r = Loop(T, Reading(a), j) /\ u = m.unknown
            OBVIOUS
        <3>1. Len(u) \in Nat
            BY <1>3, <3>p, LenProperties
        <3>2. Stopped(r)
            BY <2>1, <3>p DEF Stopped
        <3>3. Loop(T, r, u) = r
            BY <3>1, <3>2, AllStopped, ZenonT(30)
        <3>4. QED BY <3>3, <3>p
    <2>3. QED BY <1>2, <1>9, <1>12, <2>1, <2>2 DEF Outcome, Accepted
<1>13. QED BY <1>11, <1>12

-----------------------------------------------------------------------------
(* Messages in messages *)

\* Reading a plain message, no case calls the parser of another one.
LEMMA PlainLoopIs ==
    ASSUME NEW S \in MessageTypes, Plain(S), NEW r, NEW w, NEW n \in Nat
    PROVE  PlainLoopTo(S, r, w, n) = LoopTo(S, r, w, n)
<1> DEFINE Sofar(k) == PlainLoopTo(S, r, w, k) = LoopTo(S, r, w, k)
           D == {k \in Nat : Sofar(k)}
<1>1. \A x, t : ReadPlainToken(S, x, t) = ReadToken(S, x, t)
    <2> SUFFICES ASSUME NEW x, NEW t PROVE ReadPlainToken(S, x, t) = ReadToken(S, x, t)
        OBVIOUS
    <2>1. CASE Cases(S, t) = {}
        BY <2>1 DEF ReadPlainToken, ReadToken, ReadTag
    <2>2. CASE Cases(S, t) # {}
        <3> PICK j : j = (CHOOSE i \in Cases(S, t) : TRUE)
            OBVIOUS
        <3>1. j \in Cases(S, t) /\ RowFor(S, t) = Schema[S].parse[j]
            BY <2>2 DEF RowFor
        <3>2. j \in DOMAIN Schema[S].parse
            BY <3>1 DEF Cases, CasesIn
        <3>3. Understood(S)
            BY SchemaAssumption
        <3>4. /\ Schema[S].parse[j].field \in FieldNames(S)
              /\ Schema[S].parse[j].type = FieldType(S, Schema[S].parse[j].field)
            BY <3>2, <3>3 DEF Understood
        <3>5. ~IsMessage(RowFor(S, t).type)
            BY <3>1, <3>4 DEF Plain
        <3>6. ReadField(RowFor(S, t), x, t) = ReadPlain(RowFor(S, t), x, t)
            BY <3>5 DEF ReadField, Nest
        <3>7. QED BY <3>6 DEF ReadPlainToken, ReadToken
    <2>3. QED BY <2>1, <2>2
<1>2. Sofar(0)
    BY PlainLoopStep, LoopNone
<1>3. ASSUME NEW k \in Nat, Sofar(k) PROVE Sofar(k + 1)
    <2>1. PlainLoopTo(S, r, w, k + 1) = ReadPlainToken(S, PlainLoopTo(S, r, w, k), w[k + 1])
        BY PlainLoopStep
    <2>2. LoopTo(S, r, w, k + 1) = ReadToken(S, LoopTo(S, r, w, k), w[k + 1])
        BY LoopNext
    <2>3. QED BY <1>1, <1>3, <2>1, <2>2
<1> HIDE DEF Sofar
<1>4. Nat \subseteq D
    <2>1. 0 \in D /\ \A k \in Nat : k \in D => k + 1 \in D
        BY <1>2, <1>3
    <2> HIDE DEF D
    <2>2. QED BY <2>1, Induct
<1>5. Sofar(n)
    BY <1>4
<1>6. QED BY <1>5 DEF Sofar

\* A message without messages in it, in terms of all messages.
LEMMA PlainMessageIs ==
    ASSUME NEW S \in MessageTypes, Plain(S), NEW m
    PROVE  m \in PlainMessages(S) <=> IsMsg(S, m) /\ m.unknown = << >>
<1>1. \A f \in FieldNames(S) : Values(FieldType(S, f)) = PlainValues(FieldType(S, f))
    BY DEF Plain, Values
<1>2. Fields(S) = FieldNames(S) \cup {"unknown"}
    BY DEF Fields
<1>3. ASSUME m \in PlainMessages(S) PROVE IsMsg(S, m) /\ m.unknown = << >>
    <2>1. m = [f \in Fields(S) |-> m[f]] /\ m.unknown = << >>
          /\ \A f \in FieldNames(S) : m[f] \in PlainValues(FieldType(S, f))
        BY <1>3 DEF PlainMessages
    <2>2. m.unknown \in Seq(StrayTokens)
        <3>1. << >> \in Seq(StrayTokens)
            OBVIOUS
        <3>2. QED BY <2>1, <3>1
    <2>3. IsObject(S, m)
        BY <2>1 DEF IsObject
    <2>4. \A f \in FieldNames(S) : m[f] \in Values(FieldType(S, f))
        BY <1>1, <2>1
    <2>5. QED BY <2>1, <2>2, <2>3, <2>4, Zenon DEF IsMsg
<1>4. ASSUME IsMsg(S, m), m.unknown = << >> PROVE m \in PlainMessages(S)
    <2>1. m = [f \in Fields(S) |-> m[f]]
        BY <1>4 DEF IsMsg, IsObject
    <2>2. \A f \in FieldNames(S) : m[f] \in PlainValues(FieldType(S, f))
        BY <1>1, <1>4 DEF IsMsg
    <2>3. \A f \in Fields(S) : m[f] \in Held(S)
        BY <1>2, <1>4, <2>2 DEF Held
    <2>4. m \in [Fields(S) -> Held(S)]
        BY <2>1, <2>3
    <2>5. QED BY <1>4, <2>2, <2>4 DEF PlainMessages
<1>5. QED BY <1>3, <1>4

\* SerializePlain and Serialize agree on plain messages.
LEMMA PlainSerialize ==
    ASSUME NEW S \in MessageTypes, Plain(S), NEW m
    PROVE  SerializePlain(S, m) = Serialize(S, m)
<1> PICK w : w = Schema[S].write
    OBVIOUS
<1> PICK n \in Nat : DOMAIN w = 1 .. n /\ Len(w) = n
    BY RowIs DEF Rows
<1> PICK p : p = [i \in DOMAIN w |-> WritePlain(w[i], m[w[i].field])]
    OBVIOUS
<1> PICK q : q = [i \in DOMAIN w |-> WriteField(w[i], m[w[i].field])]
    OBVIOUS
<1>1. p = q
    <2>1. ASSUME NEW i \in 1 .. n
          PROVE  WriteField(w[i], m[w[i].field]) = WritePlain(w[i], m[w[i].field])
        <3>1. w[i].field \in FieldNames(S) /\ w[i].type = FieldType(S, w[i].field)
            BY RowIs DEF Rows, Row
        <3>2. ~IsMessage(w[i].type)
            BY <3>1 DEF Plain
        <3>3. QED BY <3>2 DEF WriteField
    <2>2. QED BY <2>1
<1>2. SerializePlain(S, m) = Joint(p) \o m.unknown
    BY DEF SerializePlain, WritePlainRows
<1>3. Serialize(S, m) = Joint(q) \o m.unknown
    BY DEF Serialize, WriteRows
<1>4. QED BY <1>1, <1>2, <1>3

\* MergePlain and MergeFrom do.
LEMMA PlainMerge ==
    ASSUME NEW S \in MessageTypes, Plain(S), NEW a, IsObject(S, a), NEW m
    PROVE  MergePlain(S, a, m) = MergeFrom(S, a, m)
<1> PICK D : D = Fields(S)
    OBVIOUS
<1>1. DOMAIN a = D /\ \A f \in D : f # "unknown" => f \in FieldNames(S)
    BY DEF IsObject, Fields
<1>2. ASSUME NEW f \in FieldNames(S)
      PROVE  Merged(RowOf(S, f), a[f], m[f]) = MergedPlain(RowOf(S, f), a[f], m[f])
    <2> PICK i \in Rows(S) : Row(S, i).field = f
        BY RowIs
    <2>1. RowOf(S, f) = Row(S, i) /\ Row(S, i).type = FieldType(S, f)
        BY RowIs
    <2>2. ~IsMessage(RowOf(S, f).type)
        BY <2>1 DEF Plain
    <2>3. QED BY <2>2 DEF Merged
<1>3. MergeFrom(S, a, m) = [f \in D |-> IF f = "unknown" THEN a.unknown \o m.unknown
                                        ELSE Merged(RowOf(S, f), a[f], m[f])]
    BY <1>1 DEF MergeFrom
<1>4. MergePlain(S, a, m) = [f \in D |-> IF f = "unknown" THEN a.unknown \o m.unknown
                                         ELSE MergedPlain(RowOf(S, f), a[f], m[f])]
    BY <1>1 DEF MergePlain
<1>5. QED BY <1>1, <1>2, <1>3, <1>4

\* What is written of an inner message is merged into the one there is.
LEMMA BodyRead ==
    ASSUME NEW S \in MessageTypes, Plain(S), NEW a \in PlainMessages(S), NEW b \in PlainMessages(S)
    PROVE  /\ Outcome(ParsePlain(S, a, SerializePlain(S, b)), WellPlain(S, b), MergePlain(S, a, b))
           /\ MergePlain(S, a, b) = MergeFrom(S, a, b)
<1>1. IsMsg(S, a) /\ IsMsg(S, b)
    BY PlainMessageIs
<1>2. \A f \in FieldNames(S) : FieldType(S, f) \in FieldTypes
    BY FieldIs DEF Plain
<1>3. RowsRead(S)
    <2>1. ASSUME NEW i \in Rows(S) PROVE RowRead(S, Row(S, i))
        <3>1. Row(S, i).type \in FieldTypes
            BY <1>2, RowIs
        <3>2. QED BY <3>1, PlainRowRead
    <2>2. QED BY <2>1 DEF RowsRead
<1>4. Accepted(S, a, b)
    BY <1>1, <1>3, SerializedRead
<1> PICK s : s = Serialize(S, b)
    OBVIOUS
<1>5. ParsePlain(S, a, s) = Loop(S, Reading(a), s)
    <2>1. s \in Seq(Tokens(S))
        BY <1>1, WrittenParts
    <2>2. Len(s) \in Nat
        BY <2>1, LenProperties
    <2>3. QED BY <2>2, PlainLoopIs DEF ParsePlain, Loop, Reading
<1>6. WellPlain(S, b) <=> WellFormed(S, b)
    <2>1. \A f \in FieldNames(S) :
            FineValue(FieldType(S, f), b[f]) <=> FinePlain(FieldType(S, f), b[f])
        BY DEF Plain, FineValue
    <2>2. QED BY <2>1 DEF WellPlain, WellFormed
<1>7. SerializePlain(S, b) = s
    BY PlainSerialize
<1>8. MergePlain(S, a, b) = MergeFrom(S, a, b)
    BY <1>1, PlainMerge DEF IsMsg
<1>9. QED BY <1>4, <1>5, <1>6, <1>7, <1>8 DEF Accepted, Outcome
\* Clear() leaves an object that holds the defaults, which are all accepted.
LEMMA DefaultIs ==
    ASSUME NEW T \in MessageTypes, NEW f \in FieldNames(T)
    PROVE  LET k == FieldType(T, f) IN Default(k) \in Values(k) /\ FineValue(k, Default(k))
<1> PICK k : k = FieldType(T, f)
    OBVIOUS
<1> PICK v : v = Default(k)
    OBVIOUS
<1>1. CASE IsMessage(k)
    <2>1. v = << >>
        BY <1>1 DEF Default, IsSeq
    <2>2. << >> \in Seq(PlainMessages(k.of)) /\ Len(<< >>) <= 1
        OBVIOUS
    <2>3. v \in Values(k)
        BY <1>1, <2>1, <2>2 DEF Values
    <2>4. FineValue(k, v)
        BY <1>1, <2>1 DEF FineValue
    <2>5. QED BY <2>3, <2>4
<1>2. CASE k \in FieldTypes
    <2>1. ~IsMessage(k) /\ (FineValue(k, v) <=> FinePlain(k, v)) /\ Values(k) = PlainValues(k)
        BY <1>2, KindIs DEF FineValue, Values
    <2>2. CASE k.repeated
        <3>1. v = << >>
            BY <2>2 DEF Default, IsSeq
        <3>2. v \in Values(k)
            BY <2>1, <2>2, <3>1 DEF PlainValues
        <3>3. QED BY <2>1, <2>2, <3>1, <3>2 DEF FinePlain
    <2>3. CASE ~k.repeated /\ IsText(k)
        <3>1. v = [len |-> 0, utf8 |-> TRUE]
            BY <2>1, <2>3 DEF Default, IsSeq, EmptyText
        <3>2. v \in Values(k)
            BY <2>1, <2>3, <3>1 DEF PlainValues, Scalars, Texts
        <3>3. QED BY <2>1, <2>3, <3>1, <3>2 DEF FinePlain
    <2>4. CASE ~k.repeated /\ ~IsText(k)
        <3>1. v = 0
            BY <2>1, <2>4 DEF Default, IsSeq
        <3>2. W64 - 1 \in Int /\ 0 <= W64 - 1 /\ W32 - 1 \in Int /\ 0 <= W32 - 1
            BY SMT DEF W64, W32
        <3>3. 0 \in Scalars(k)
            <4>1. 0 \in 0 .. W64 - 1 /\ 0 \in 0 .. W32 - 1
                BY <3>2
            <4>2. /\ 0 \in {n \in Int : 0 <= n /\ n < 8192}
                  /\ 0 \in {n \in Int : -8192 <= n /\ n < 8192}
                OBVIOUS
            <4>3. QED BY <2>4, <4>1, <4>2 DEF Scalars
        <3>4. v \in Values(k)
            BY <2>1, <2>4, <3>1, <3>3 DEF PlainValues
        <3>5. FinePlain(k, v)
            BY <2>4 DEF FinePlain, IsText
        <3>6. QED BY <2>1, <3>4, <3>5
    <2>5. QED BY <2>2, <2>3, <2>4
<1>3. QED BY <1>1, <1>2, FieldIs

\* A cleared object is an object, with the default in every field.
LEMMA ClearedIs ==
    ASSUME NEW T \in MessageTypes
    PROVE  /\ IsMsg(T, Cleared(T)) /\ Cleared(T).unknown = << >> /\ WellFormed(T, Cleared(T))
           /\ \A f \in FieldNames(T) : Cleared(T)[f] = Default(FieldType(T, f))
<1> PICK c : c = Cleared(T)
    OBVIOUS
<1> PICK D : D = Fields(T)
    OBVIOUS
<1>1. c = [f \in D |-> IF f = "unknown" THEN << >> ELSE Default(FieldType(T, f))]
    BY DEF Cleared, Fields
<1>2. "unknown" \in D /\ \A f \in FieldNames(T) : f \in D /\ f # "unknown"
    BY FieldIs DEF Fields
<1>3. c.unknown = << >> /\ \A f \in FieldNames(T) : c[f] = Default(FieldType(T, f))
    BY <1>1, <1>2
<1>4. IsObject(T, c)
    BY <1>1 DEF IsObject
<1>5. \A f \in FieldNames(T) : c[f] \in Values(FieldType(T, f)) /\ FineValue(FieldType(T, f), c[f])
    BY <1>3, DefaultIs
<1>6. c.unknown \in Seq(StrayTokens)
    <2>1. << >> \in Seq(StrayTokens)
        OBVIOUS
    <2>2. QED BY <1>3, <2>1
<1>7. IsMsg(T, c)
    BY <1>4, <1>5, <1>6 DEF IsMsg
<1>8. WellFormed(T, c)
    BY <1>5 DEF WellFormed
<1>9. QED BY <1>3, <1>7, <1>8

\* Merging into a default leaves what was merged.
MergesFresh(row, v) == Merged(row, Default(row.type), v) = v

\* A value without messages, merged into a default, is itself.
LEMMA PlainFresh ==
    ASSUME NEW row, row.type \in FieldTypes, NEW v \in PlainValues(row.type)
    PROVE  MergesFresh(row, v)
<1> PICK k \in FieldTypes : k = row.type
    OBVIOUS
<1> PICK d : d = Default(k)
    OBVIOUS
<1>1. Merged(row, d, v) = MergedPlain(row, d, v)
    BY PlainRow
<1>2. CASE k.repeated
    <2>1. d = << >> /\ v \in Seq(Scalars(k))
        BY <1>2 DEF Default, IsSeq, PlainValues
    <2>2. << >> \o v = v
        BY <2>1, ConcatEmptySeq
    <2>3. QED BY <1>1, <1>2, <2>1, <2>2 DEF MergedPlain, MergesFresh
<1>3. CASE ~k.repeated
    BY <1>1, <1>3 DEF MergedPlain, MergesFresh
<1>4. QED BY <1>2, <1>3

\* If so are all values of an object, then so is the object.
LEMMA FreshMerge ==
    ASSUME NEW T \in MessageTypes, NEW m, IsMsg(T, m),
           \A i \in Rows(T) : MergesFresh(Row(T, i), m[Row(T, i).field])
    PROVE  MergeFrom(T, Cleared(T), m) = m
<1> PICK c : c = Cleared(T)
    OBVIOUS
<1> PICK d : d = MergeFrom(T, c, m)
    OBVIOUS
<1>1. /\ IsObject(T, c) /\ c.unknown = << >>
      /\ \A f \in FieldNames(T) : c[f] = Default(FieldType(T, f))
    BY ClearedIs DEF IsMsg
<1>2. /\ IsObject(T, d) /\ d.unknown = c.unknown \o m.unknown
      /\ \A f \in FieldNames(T) : d[f] = Merged(RowOf(T, f), c[f], m[f])
    BY <1>1, MergeIs, ZenonT(60)
<1>3. << >> \o m.unknown = m.unknown
    BY ConcatEmptySeq DEF IsMsg
<1>4. ASSUME NEW f \in FieldNames(T) PROVE d[f] = m[f]
    <2> PICK i \in Rows(T) : Row(T, i).field = f
        BY RowIs
    <2> PICK row : row = Row(T, i)
        OBVIOUS
    <2>1. RowOf(T, f) = row /\ row.type = FieldType(T, f)
        BY RowIs
    <2>2. Merged(row, Default(row.type), m[f]) = m[f]
        BY DEF MergesFresh
    <2>3. QED BY <1>1, <1>2, <2>1, <2>2
<1>5. \A f \in Fields(T) : d[f] = m[f]
    BY <1>1, <1>2, <1>3, <1>4 DEF Fields
<1>6. IsObject(T, m)
    BY DEF IsMsg
<1>7. d = m
    BY <1>2, <1>5, <1>6, SameObject
<1>8. QED BY <1>7

\* A plain message merged into a cleared one is itself.
LEMMA PlainFreshMerge ==
    ASSUME NEW S \in MessageTypes, Plain(S), NEW m \in PlainMessages(S)
    PROVE  MergePlain(S, Cleared(S), m) = m /\ Cleared(S) \in PlainMessages(S)
<1>1. IsMsg(S, m) /\ IsMsg(S, Cleared(S)) /\ Cleared(S).unknown = << >>
    BY PlainMessageIs, ClearedIs
<1>2. \A i \in Rows(S) : MergesFresh(Row(S, i), m[Row(S, i).field])
    <2>1. ASSUME NEW i \in Rows(S) PROVE MergesFresh(Row(S, i), m[Row(S, i).field])
        <3> PICK row : row = Row(S, i)
            OBVIOUS
        <3>1. row.field \in FieldNames(S) /\ row.type = FieldType(S, row.field)
            BY RowIs
        <3>2. row.type \in FieldTypes
            BY <3>1, FieldIs DEF Plain
        <3>3. m[row.field] \in PlainValues(row.type)
            <4>1. m[row.field] \in Values(row.type)
                BY <1>1, <3>1 DEF IsMsg
            <4>2. QED BY <3>2, <4>1, PlainRow
        <3>4. QED BY <3>2, <3>3, PlainFresh
    <2>2. QED BY <2>1
<1>3. MergeFrom(S, Cleared(S), m) = m
    BY <1>1, <1>2, FreshMerge
<1>4. MergePlain(S, Cleared(S), m) = MergeFrom(S, Cleared(S), m)
    BY <1>1, PlainMerge DEF IsMsg
<1>5. Cleared(S) \in PlainMessages(S)
    BY <1>1, PlainMessageIs
<1>6. QED BY <1>3, <1>4, <1>5
\* A message as the token of a row: it joins the list, or the one there is.
LEMMA NestedRead ==
    ASSUME NEW T \in MessageTypes, NEW i \in Rows(T), NEW row, row = Row(T, i),
           IsMessage(row.type), NEW S, S = row.type.of, NEW y, NEW b \in PlainMessages(S),
           NEW a \in PlainMessages(S),
           a = IF row.type.repeated \/ y[row.field] = << >> THEN Cleared(S) ELSE y[row.field][1]
    PROVE  Outcome(ReadToken(T, Reading(y), Nested(row.num, SerializePlain(S, b))), WellPlain(S, b),
                   Put(y, row.field, IF row.type.repeated THEN Append(y[row.field], b)
                                     ELSE << MergePlain(S, a, b) >>))
<1> PICK k : k = row.type
    OBVIOUS
<1> PICK t : t = Nested(row.num, SerializePlain(S, b))
    OBVIOUS
<1> PICK sub : sub = ParsePlain(S, a, SerializePlain(S, b))
    OBVIOUS
<1>1. S \in MessageTypes /\ Plain(S)
    BY RowKind, KindIs
<1>2. t.num = row.num /\ t.wireType = 2 /\ t.body = SerializePlain(S, b)
    BY DEF Nested
<1>3. 2 \in WrittenAs(k)
    BY DEF WrittenAs
<1>4. ReadToken(T, Reading(y), t) = ReadField(row, Reading(y), t)
    BY <1>2, <1>3, ReadKnown
<1>5. Reading(y).msg = y
    BY DEF Reading, State
<1>6. ReadField(row, Reading(y), t) =
          IF sub.status = "reading" THEN Store(row, Reading(y), sub.msg) ELSE State("failed", y)
    BY <1>2, <1>5 DEF ReadField, Nest
<1>7. Outcome(sub, WellPlain(S, b), MergePlain(S, a, b))
    BY <1>1, BodyRead DEF Outcome
<1>8. CASE WellPlain(S, b)
    <2>1. sub = Reading(MergePlain(S, a, b))
        BY <1>7, <1>8 DEF Outcome
    <2>2. sub.status = "reading" /\ sub.msg = MergePlain(S, a, b)
        BY <2>1 DEF Reading, State
    <2>3. k.repeated => MergePlain(S, a, b) = b
        BY <1>1, PlainFreshMerge
    <2> PICK u : u = MergePlain(S, a, b)
        OBVIOUS
    <2>4. Store(row, Reading(y), u) =
              Reading(Put(y, row.field, IF k.repeated THEN Append(y[row.field], u) ELSE << u >>))
        BY StoreIs
    <2>5. CASE k.repeated
        BY <1>4, <1>6, <1>8, <2>2, <2>3, <2>4, <2>5 DEF Outcome
    <2>6. CASE ~k.repeated
        BY <1>4, <1>6, <1>8, <2>2, <2>4, <2>6 DEF Outcome
    <2>7. QED BY <2>5, <2>6
<1>9. CASE ~WellPlain(S, b)
    <2>1. sub.status # "reading"
        BY <1>7, <1>9 DEF Outcome
    <2>2. State("failed", y).status # "reading"
        BY DEF State
    <2>3. QED BY <1>4, <1>6, <1>9, <2>1, <2>2 DEF Outcome
<1>10. QED BY <1>8, <1>9

\* A list of messages is read as it was written.
LEMMA MessagesRead ==
    ASSUME NEW T \in MessageTypes, NEW i \in Rows(T), NEW row, row = Row(T, i),
           IsMessage(row.type), row.type.repeated,
           NEW x, IsObject(T, x), x[row.field] \in Values(row.type), NEW v \in Values(row.type)
    PROVE  ReadsBack(T, row, x, v)
<1> PICK k : k = row.type
    OBVIOUS
<1> PICK S : S = k.of
    OBVIOUS
<1> PICK f \in Fields(T) : f = row.field
    BY RowIs DEF Fields
<1> PICK B : B = PlainMessages(S)
    OBVIOUS
<1> PICK p : p = [j \in DOMAIN v |-> Nested(row.num, SerializePlain(S, v[j]))]
    OBVIOUS
<1> PICK n : n = Len(v)
    OBVIOUS
<1> DEFINE G == {j \in 1 .. n : WellPlain(S, v[j])}
<1>1. v \in Seq(B) /\ x[f] \in Seq(B)
    BY DEF Values
<1>2. n \in Nat /\ DOMAIN v = 1 .. n /\ \A j \in 1 .. n : v[j] \in B
    BY <1>1, LenProperties, ElementOfSeq
<1>3. WriteField(row, v) = p
    BY DEF WriteField
<1>4. Len(p) = n /\ \A j \in 1 .. n : p[j] = Nested(row.num, SerializePlain(S, v[j]))
    BY <1>2
<1>5. S \in MessageTypes /\ Plain(S) /\ Cleared(S) \in B
    <2>1. S \in MessageTypes /\ Plain(S)
        BY RowKind, KindIs
    <2>2. QED BY <2>1, PlainMessageIs, ClearedIs
<1>6. Elements(T, f, B, p, v, G)
    <2> SUFFICES ASSUME NEW j \in 1 .. n, NEW y, IsObject(T, y), y[f] \in Seq(B)
                 PROVE  Outcome(ReadToken(T, Reading(y), p[j]), j \in G,
                                Put(y, f, Append(y[f], v[j])))
        BY Zenon DEF Elements
    <2> PICK b \in B : b = v[j]
        BY <1>2
    <2>1. Outcome(ReadToken(T, Reading(y), Nested(row.num, SerializePlain(S, b))), WellPlain(S, b),
                  Put(y, row.field, IF row.type.repeated THEN Append(y[row.field], b)
                                    ELSE << MergePlain(S, Cleared(S), b) >>))
        BY <1>5, NestedRead
    <2>2. p[j] = Nested(row.num, SerializePlain(S, b)) /\ (j \in G <=> WellPlain(S, b))
        BY <1>4
    <2> HIDE DEF G
    <2>3. QED BY <2>1, <2>2 DEF Outcome
<1> HIDE DEF G
<1>7. Outcome(LoopTo(T, Reading(x), p, Len(v)), \A j \in 1 .. Len(v) : j \in G,
              Put(x, f, x[f] \o v))
    BY <1>1, <1>6, ListRead
<1>8. Loop(T, Reading(x), p) = LoopTo(T, Reading(x), p, n)
    BY <1>4 DEF Loop
<1>9. Merged(row, x[f], v) = x[f] \o v
    BY DEF Merged, MergedPlain
<1>10. FineValue(k, v) <=> \A j \in 1 .. n : j \in G
    BY <1>2 DEF FineValue, G
<1>11. QED BY <1>3, <1>7, <1>8, <1>9, <1>10 DEF ReadsBack, Outcome

\* A single message is merged into the one there was.
LEMMA MessageRead ==
    ASSUME NEW T \in MessageTypes, NEW i \in Rows(T), NEW row, row = Row(T, i),
           IsMessage(row.type), ~row.type.repeated,
           NEW x, IsObject(T, x), x[row.field] \in Values(row.type), NEW v \in Values(row.type)
    PROVE  ReadsBack(T, row, x, v)
<1> PICK k : k = row.type
    OBVIOUS
<1> PICK S : S = k.of
    OBVIOUS
<1> PICK f \in Fields(T) : f = row.field
    BY RowIs DEF Fields
<1> PICK B : B = PlainMessages(S)
    OBVIOUS
<1>1. v \in Seq(B) /\ x[f] \in Seq(B) /\ Len(v) <= 1
    BY DEF Values
<1>2. S \in MessageTypes /\ Plain(S) /\ Cleared(S) \in B
    <2>1. S \in MessageTypes /\ Plain(S)
        BY RowKind, KindIs
    <2>2. QED BY <2>1, PlainMessageIs, ClearedIs
<1>3. CASE v = << >>
    <2>1. WriteField(row, v) = << >>
        BY <1>3 DEF WriteField
    <2>2. Loop(T, Reading(x), << >>) = Reading(x)
        BY LoopEmpty
    <2>3. Merged(row, x[f], v) = x[f]
        BY <1>3 DEF Merged, MergedPlain, Default, IsSeq
    <2>4. FineValue(k, v)
        BY <1>3 DEF FineValue
    <2>5. Put(x, f, x[f]) = x
        BY PutSame
    <2>6. QED BY <2>1, <2>2, <2>3, <2>4, <2>5 DEF ReadsBack, Outcome
<1>4. CASE v # << >>
    <2>0. v \in Seq(B) /\ Len(v) = 1 /\ v[1] \in B
        <3> PICK u \in Seq(B) : u = v
            BY <1>1
        <3> PICK n : n = Len(u)
            OBVIOUS
        <3>1. n \in Nat \ {0} /\ n <= 1
            BY <1>1, <1>4, EmptySeq
        <3>2. n = 1
            BY <3>1
        <3>3. u[1] \in B
            <4>1. 1 \in 1 .. Len(u)
                BY <3>2
            <4>2. QED BY <4>1, ElementOfSeq
        <3>4. QED BY <3>2, <3>3
    <2> PICK b \in B : b = v[1]
        BY <2>0
    <2>00. v = << b >>
        BY <2>0
    <2> PICK a : a = IF x[f] = << >> THEN Cleared(S) ELSE x[f][1]
        OBVIOUS
    <2>1. a \in B
        BY <1>1, <1>2
    <2>2. WriteField(row, v) = << Nested(row.num, SerializePlain(S, b)) >>
        BY <2>00 DEF WriteField
    <2> PICK t : t = Nested(row.num, SerializePlain(S, b))
        OBVIOUS
    <2>3. Loop(T, Reading(x), << t >>) = ReadToken(T, Reading(x), t)
        BY LoopOne
    <2>4. Merged(row, x[f], v) = << MergePlain(S, a, b) >>
        <3>1. v # << >> /\ v[1] = b
            BY <1>4
        <3>2. QED BY <3>1 DEF Merged
    <2>5. FineValue(k, v) <=> WellPlain(S, b)
        <3>1. DOMAIN v = {1} /\ v[1] = b
            BY <2>00
        <3>2. QED BY <3>1 DEF FineValue
    <2>6. Outcome(ReadToken(T, Reading(x), t), WellPlain(S, b),
                  Put(x, row.field, IF row.type.repeated THEN Append(x[row.field], b)
                                    ELSE << MergePlain(S, a, b) >>))
        <3>1. a = IF row.type.repeated \/ x[row.field] = << >> THEN Cleared(S) ELSE x[row.field][1]
            OBVIOUS
        <3>2. S = row.type.of /\ b \in PlainMessages(S) /\ a \in PlainMessages(S)
            BY <2>1
        <3>3. QED BY <3>1, <3>2, NestedRead, Zenon
    <2>7. QED BY <2>2, <2>3, <2>4, <2>5, <2>6 DEF ReadsBack, Outcome
<1>5. QED BY <1>3, <1>4

-----------------------------------------------------------------------------
(* Every object is read back, and what is merged is an object again *)

\* Every row of every table is read back.
LEMMA AllRowsRead ==
    ASSUME NEW T \in MessageTypes
    PROVE  RowsRead(T)
<1>1. ASSUME NEW i \in Rows(T) PROVE RowRead(T, Row(T, i))
    <2> PICK row : row = Row(T, i)
        OBVIOUS
    <2>1. CASE row.type \in FieldTypes
        BY <2>1, PlainRowRead
    <2>2. CASE IsMessage(row.type)
        <3>1. ASSUME NEW x, NEW v, IsObject(T, x), x[row.field] \in Values(row.type),
                     v \in Values(row.type)
              PROVE  ReadsBack(T, row, x, v)
            BY <2>2, <3>1, MessagesRead, MessageRead
        <3>2. QED BY <3>1, Zenon DEF RowRead
    <2>3. QED BY <2>1, <2>2, RowKind
<1>2. QED BY <1>1 DEF RowsRead

\* So is every object, into any other.
LEMMA ObjectRead ==
    ASSUME NEW T \in MessageTypes, NEW a, IsMsg(T, a), NEW m, IsMsg(T, m)
    PROVE  Accepted(T, a, m)
BY AllRowsRead, SerializedRead

\* What is in two lists put together is in one of them.
Elems(s) == {s[i] : i \in DOMAIN s}

\* The elements of two lists put together.
LEMMA ElemsConcat ==
    ASSUME NEW B, NEW l \in Seq(B), NEW w \in Seq(B)
    PROVE  Elems(l \o w) \subseteq Elems(l) \cup Elems(w)
<1> SUFFICES ASSUME NEW i \in DOMAIN (l \o w)
             PROVE  (\E j \in DOMAIN l : (l \o w)[i] = l[j])
                    \/ \E j \in DOMAIN w : (l \o w)[i] = w[j]
    BY DEF Elems
<1>1. /\ i \in 1 .. Len(l) + Len(w)
      /\ (l \o w)[i] = IF i <= Len(l) THEN l[i] ELSE w[i - Len(l)]
    BY ConcatProperties, LenProperties
<1>2. Len(l) \in Nat /\ Len(w) \in Nat
    BY LenProperties
<1>3. CASE i <= Len(l)
    <2>1. i \in 1 .. Len(l)
        BY <1>1, <1>2, <1>3
    <2>2. QED BY <1>1, <1>3, <2>1, LenProperties
<1>4. CASE ~(i <= Len(l))
    <2>1. i - Len(l) \in 1 .. Len(w)
        BY <1>1, <1>2, <1>4
    <2>2. QED BY <1>1, <1>4, <2>1, LenProperties
<1>5. QED BY <1>3, <1>4

\* What is merged into a field is one of its values, and fine if both were.
RowKeeps(row) ==
    \A a, v : a \in Values(row.type) /\ v \in Values(row.type) =>
        /\ Merged(row, a, v) \in Values(row.type)
        /\ FineValue(row.type, a) /\ FineValue(row.type, v) =>
               FineValue(row.type, Merged(row, a, v))

\* Merging keeps the type of a value without messages.
LEMMA PlainRowKeeps ==
    ASSUME NEW row, row.type \in FieldTypes
    PROVE  RowKeeps(row)
<1> PICK k \in FieldTypes : k = row.type
    OBVIOUS
<1>1. ASSUME NEW a, NEW v, a \in Values(k), v \in Values(k)
      PROVE  /\ Merged(row, a, v) \in Values(k)
             /\ FineValue(k, a) /\ FineValue(k, v) => FineValue(k, Merged(row, a, v))
    <2>1. Values(k) = PlainValues(k) /\ Merged(row, a, v) = MergedPlain(row, a, v)
        BY PlainRow
    <2>2. CASE ~k.repeated
        <3>1. Merged(row, a, v) = a \/ Merged(row, a, v) = v
            BY <2>1, <2>2 DEF MergedPlain
        <3>2. QED BY <1>1, <3>1
    <2>3. CASE k.repeated
        <3> PICK B : B = Scalars(k)
            OBVIOUS
        <3> PICK l \in Seq(B) : l = a
            BY <1>1, <2>1, <2>3 DEF PlainValues
        <3> PICK w \in Seq(B) : w = v
            BY <1>1, <2>1, <2>3 DEF PlainValues
        <3> PICK u : u = l \o w
            OBVIOUS
        <3>1. Merged(row, a, v) = u
            BY <2>1, <2>3 DEF MergedPlain
        <3>2. u \in Seq(B)
            BY ConcatProperties
        <3>3. u \in Values(k)
            BY <2>1, <2>3, <3>2 DEF PlainValues
        <3>4. Elems(u) \subseteq Elems(l) \cup Elems(w)
            BY ElemsConcat
        <3>5. FineValue(k, l) /\ FineValue(k, w) => FineValue(k, u)
            <4>1. \A s : FineValue(k, s) <=> FinePlain(k, s)
                BY PlainRow
            <4>2. \A s : FinePlain(k, s) <=> (k.kind = "string" => \A e \in Elems(s) : e.utf8)
                BY <2>3 DEF FinePlain, Elems
            <4>3. QED BY <3>4, <4>1, <4>2
        <3>6. QED BY <3>1, <3>3, <3>5
    <2>4. QED BY <2>2, <2>3
<1>2. QED BY <1>1, Zenon DEF RowKeeps

\* If it keeps that of every field then that of the object.
LEMMA MergeKeeps ==
    ASSUME NEW T \in MessageTypes, \A i \in Rows(T) : RowKeeps(Row(T, i)),
           NEW a, IsMsg(T, a), NEW m, IsMsg(T, m)
    PROVE  /\ IsMsg(T, MergeFrom(T, a, m))
           /\ WellFormed(T, a) /\ WellFormed(T, m) => WellFormed(T, MergeFrom(T, a, m))
<1> PICK c : c = MergeFrom(T, a, m)
    OBVIOUS
<1>1. /\ IsObject(T, c) /\ c.unknown = a.unknown \o m.unknown
      /\ \A f \in FieldNames(T) : c[f] = Merged(RowOf(T, f), a[f], m[f])
    <2>1. IsObject(T, a)
        BY DEF IsMsg
    <2> PICK d : d = MergeFrom(T, a, m)
        OBVIOUS
    <2>2. IsObject(T, d) /\ d.unknown = a.unknown \o m.unknown
        BY <2>1, MergeIs, ZenonT(60)
    <2>3. \A f \in FieldNames(T) : d[f] = Merged(RowOf(T, f), a[f], m[f])
        BY <2>1, MergeIs, ZenonT(60)
    <2>4. QED BY <2>2, <2>3
<1>2. c.unknown \in Seq(StrayTokens)
    <2> PICK B : B = StrayTokens
        OBVIOUS
    <2> PICK l \in Seq(B) : l = a.unknown
        BY DEF IsMsg
    <2> PICK w \in Seq(B) : w = m.unknown
        BY DEF IsMsg
    <2>1. l \o w \in Seq(B)
        BY ConcatProperties
    <2>2. QED BY <1>1, <2>1
<1>3. ASSUME NEW f \in FieldNames(T)
      PROVE  LET k == FieldType(T, f)
             IN  /\ c[f] \in Values(k)
                 /\ FineValue(k, a[f]) /\ FineValue(k, m[f]) => FineValue(k, c[f])
    <2> PICK i \in Rows(T) : Row(T, i).field = f
        BY RowIs
    <2> PICK row : row = Row(T, i)
        OBVIOUS
    <2> PICK k : k = FieldType(T, f)
        OBVIOUS
    <2>1. RowOf(T, f) = row /\ row.type = k
        BY RowIs
    <2>2. a[f] \in Values(k) /\ m[f] \in Values(k)
        BY DEF IsMsg
    <2>3. RowKeeps(row)
        OBVIOUS
    <2>4. /\ Merged(row, a[f], m[f]) \in Values(k)
          /\ FineValue(k, a[f]) /\ FineValue(k, m[f]) => FineValue(k, Merged(row, a[f], m[f]))
        BY <2>1, <2>2, <2>3, Zenon DEF RowKeeps
    <2>5. QED BY <1>1, <2>1, <2>4
<1>4. IsMsg(T, c)
    BY <1>1, <1>2, <1>3 DEF IsMsg
<1>5. WellFormed(T, a) /\ WellFormed(T, m) => WellFormed(T, c)
    BY <1>3 DEF WellFormed
<1>6. QED BY <1>4, <1>5

\* It keeps the type of plain messages.
LEMMA PlainKeeps ==
    ASSUME NEW S \in MessageTypes, Plain(S), NEW a \in PlainMessages(S), NEW m \in PlainMessages(S)
    PROVE  /\ MergePlain(S, a, m) \in PlainMessages(S)
           /\ WellPlain(S, a) /\ WellPlain(S, m) => WellPlain(S, MergePlain(S, a, m))
<1> PICK c : c = MergeFrom(S, a, m)
    OBVIOUS
<1>1. IsMsg(S, a) /\ IsMsg(S, m) /\ a.unknown = << >> /\ m.unknown = << >>
    BY PlainMessageIs
<1>2. \A i \in Rows(S) : RowKeeps(Row(S, i))
    <2>1. ASSUME NEW i \in Rows(S) PROVE RowKeeps(Row(S, i))
        <3>1. Row(S, i).type \in FieldTypes
            BY RowKind, RowIs DEF Plain
        <3>2. QED BY <3>1, PlainRowKeeps
    <2>2. QED BY <2>1
<1>3. /\ IsMsg(S, c)
      /\ WellFormed(S, a) /\ WellFormed(S, m) => WellFormed(S, c)
    BY <1>1, <1>2, MergeKeeps
<1>4. c.unknown = << >>
    <2>1. c.unknown = a.unknown \o m.unknown
        <3>1. IsObject(S, a)
            BY <1>1 DEF IsMsg
        <3>2. QED BY <3>1, MergeIs, ZenonT(60)
    <2>2. << >> \o << >> = << >>
        OBVIOUS
    <2>3. QED BY <1>1, <2>1, <2>2
<1>5. MergePlain(S, a, m) = c
    BY <1>1, PlainMerge DEF IsMsg
<1>6. \A x : WellPlain(S, x) <=> WellFormed(S, x)
    <2>1. \A x : \A f \in FieldNames(S) :
            FineValue(FieldType(S, f), x[f]) <=> FinePlain(FieldType(S, f), x[f])
        BY DEF Plain, FineValue
    <2>2. QED BY <2>1 DEF WellPlain, WellFormed
<1>7. c \in PlainMessages(S)
    BY <1>3, <1>4, PlainMessageIs
<1>8. QED BY <1>3, <1>5, <1>6, <1>7

\* It keeps that of the messages in others.
LEMMA MessageRowKeeps ==
    ASSUME NEW row, IsMessage(row.type), row.type.of \in MessageTypes, Plain(row.type.of)
    PROVE  RowKeeps(row)
<1> PICK k : k = row.type
    OBVIOUS
<1> PICK S : S = k.of
    OBVIOUS
<1> PICK B : B = PlainMessages(S)
    OBVIOUS
<1>1. ASSUME NEW a, NEW v, a \in Values(k), v \in Values(k)
      PROVE  /\ Merged(row, a, v) \in Values(k)
             /\ FineValue(k, a) /\ FineValue(k, v) => FineValue(k, Merged(row, a, v))
    <2>0. a \in Seq(B) /\ v \in Seq(B) /\ (k.repeated \/ (Len(a) <= 1 /\ Len(v) <= 1))
        BY <1>1 DEF Values
    <2> PICK l \in Seq(B) : l = a
        BY <2>0
    <2> PICK w \in Seq(B) : w = v
        BY <2>0
    <2>1. \A s : FineValue(k, s) <=> \A i \in DOMAIN s : WellPlain(S, s[i])
        BY DEF FineValue
    <2>11. \A s : FineValue(k, s) <=> \A e \in Elems(s) : WellPlain(S, e)
        BY <2>1 DEF Elems
    <2>2. CASE k.repeated
        <3> PICK u : u = l \o w
            OBVIOUS
        <3>1. Merged(row, a, v) = u
            BY <2>2 DEF MergedPlain, Merged
        <3>2. u \in Seq(B)
            BY ConcatProperties
        <3>3. u \in Values(k)
            BY <2>2, <3>2 DEF Values
        <3>4. Elems(u) \subseteq Elems(l) \cup Elems(w)
            BY ElemsConcat
        <3>5. FineValue(k, l) /\ FineValue(k, w) => FineValue(k, u)
            BY <2>11, <3>4
        <3>6. QED BY <3>1, <3>3, <3>5
    <2>3. CASE ~k.repeated /\ w = << >>
        <3>1. Merged(row, a, v) = a
            BY <2>3 DEF MergedPlain, Merged, Default, IsSeq
        <3>2. QED BY <1>1, <3>1
    <2>4. CASE ~k.repeated /\ w # << >>
        <3> PICK o : o = IF l = << >> THEN Cleared(S) ELSE l[1]
            OBVIOUS
        <3>1. 1 \in DOMAIN w /\ w[1] \in B /\ (l # << >> => 1 \in DOMAIN l /\ l[1] \in B)
            BY <2>4
        <3>2. Cleared(S) \in B /\ WellPlain(S, Cleared(S))
            <4>1. Cleared(S) \in B
                BY PlainMessageIs, ClearedIs
            <4>2. WellFormed(S, Cleared(S))
                BY ClearedIs
            <4>3. \A f \in FieldNames(S) : ~IsMessage(FieldType(S, f))
                BY DEF Plain
            <4>4. QED BY <4>1, <4>2, <4>3 DEF WellPlain, WellFormed, FineValue
        <3>3. o \in B
            BY <3>1, <3>2
        <3> PICK u : u = MergePlain(S, o, w[1])
            OBVIOUS
        <3>4. Merged(row, a, v) = << u >>
            BY <2>4 DEF Merged
        <3>5. u \in B /\ (WellPlain(S, o) /\ WellPlain(S, w[1]) => WellPlain(S, u))
            BY <3>1, <3>3, PlainKeeps
        <3>6. << u >> \in Seq(B) /\ Len(<< u >>) <= 1 /\ DOMAIN << u >> = {1} /\ << u >>[1] = u
            BY <3>5
        <3>7. << u >> \in Values(k)
            BY <3>6 DEF Values
        <3>8. FineValue(k, l) /\ FineValue(k, w) => FineValue(k, << u >>)
            BY <2>1, <3>1, <3>2, <3>5, <3>6
        <3>9. QED BY <3>4, <3>7, <3>8
    <2>5. QED BY <2>2, <2>3, <2>4
<1>2. QED BY <1>1, Zenon DEF RowKeeps

\* Two objects merged are an object, accepted if they are.
LEMMA ObjectKeeps ==
    ASSUME NEW T \in MessageTypes, NEW a, IsMsg(T, a), NEW m, IsMsg(T, m)
    PROVE  /\ IsMsg(T, MergeFrom(T, a, m))
           /\ WellFormed(T, a) /\ WellFormed(T, m) => WellFormed(T, MergeFrom(T, a, m))
<1>1. ASSUME NEW i \in Rows(T) PROVE RowKeeps(Row(T, i))
    BY RowKind, PlainRowKeeps, MessageRowKeeps
<1>2. QED BY <1>1, MergeKeeps

\* An object merged into a cleared one is what it was.
LEMMA ObjectFresh ==
    ASSUME NEW T \in MessageTypes, NEW m, IsMsg(T, m)
    PROVE  MergeFrom(T, Cleared(T), m) = m
<1>1. ASSUME NEW i \in Rows(T) PROVE MergesFresh(Row(T, i), m[Row(T, i).field])
    <2> PICK row : row = Row(T, i)
        OBVIOUS
    <2> PICK v : v = m[row.field]
        OBVIOUS
    <2>1. v \in Values(row.type)
        BY RowIs DEF IsMsg
    <2>2. CASE row.type \in FieldTypes
        <3>1. v \in PlainValues(row.type)
            BY <2>1, <2>2, PlainRow
        <3>2. QED BY <2>2, <3>1, PlainFresh
    <2>3. CASE IsMessage(row.type)
        <3> PICK S : S = row.type.of
            OBVIOUS
        <3> PICK w \in Seq(PlainMessages(S)) : w = v /\ (row.type.repeated \/ Len(w) <= 1)
            BY <2>1, <2>3 DEF Values
        <3>1. Default(row.type) = << >>
            BY <2>3 DEF Default, IsSeq
        <3>2. CASE row.type.repeated
            <4>1. << >> \o w = w
                BY ConcatEmptySeq
            <4>2. QED BY <3>1, <3>2, <4>1 DEF MergesFresh, Merged, MergedPlain
        <3>3. CASE ~row.type.repeated /\ w = << >>
            BY <3>1, <3>3 DEF MergesFresh, Merged, MergedPlain
        <3>4. CASE ~row.type.repeated /\ w # << >>
            <4> PICK B : B = PlainMessages(S)
                OBVIOUS
            <4>1. Len(w) \in Nat \ {0} /\ Len(w) <= 1
                BY <3>4, EmptySeq
            <4>2. Len(w) = 1
                BY <4>1, SMTT(30)
            <4>3. w = << w[1] >> /\ w[1] \in B
                BY <4>2
            <4>4. MergePlain(S, Cleared(S), w[1]) = w[1]
                <5>1. S \in MessageTypes /\ Plain(S)
                    BY <2>3, RowKind, KindIs
                <5>2. QED BY <4>3, <5>1, PlainFreshMerge
            <4>5. Merged(row, << >>, w) = << MergePlain(S, Cleared(S), w[1]) >>
                BY <2>3, <3>4 DEF Merged
            <4>6. QED BY <3>1, <4>3, <4>4, <4>5 DEF MergesFresh
        <3>5. QED BY <3>2, <3>3, <3>4
    <2>4. QED BY <2>2, <2>3, RowKind
<1>2. QED BY <1>1, FreshMerge

-----------------------------------------------------------------------------
(* Sizes *)

\* A varint has one to four bytes, more for larger numbers, and no more for
\* a sum than for both terms.
LEMMA VarintSizeIs ==
    /\ \A n : VarintSize(n) \in 1 .. 4
    /\ \A m, n \in Nat : m <= n => VarintSize(m) <= VarintSize(n)
    /\ \A m, n \in Nat : VarintSize(m + n) <= VarintSize(m) + VarintSize(n)
    /\ \A n \in Nat, t \in 0 .. 7 : VarintSize(8 * n + t) = VarintSize(8 * n)
BY SMT DEF VarintSize

\* The same holds of what has its length before it.
LEMMA PrefixedIs ==
    /\ \A n \in Nat : Prefixed(n) \in Nat
    /\ \A m, n \in Nat : m <= n => Prefixed(m) <= Prefixed(n)
    /\ \A m, n \in Nat : Prefixed(m + n) <= Prefixed(m) + Prefixed(n)
<1>1. ASSUME NEW n \in Nat PROVE Prefixed(n) \in Nat /\ VarintSize(n) \in Nat
    <2>1. VarintSize(n) \in 1 .. 4
        BY VarintSizeIs
    <2>2. QED BY <2>1 DEF Prefixed
<1>2. ASSUME NEW m \in Nat, NEW n \in Nat, m <= n PROVE Prefixed(m) <= Prefixed(n)
    <2>1. VarintSize(m) <= VarintSize(n)
        BY <1>2, VarintSizeIs
    <2>2. QED BY <1>1, <1>2, <2>1 DEF Prefixed
<1>3. ASSUME NEW m \in Nat, NEW n \in Nat PROVE Prefixed(m + n) <= Prefixed(m) + Prefixed(n)
    <2>1. VarintSize(m + n) <= VarintSize(m) + VarintSize(n)
        BY VarintSizeIs
    <2>2. m + n \in Nat
        OBVIOUS
    <2>3. QED BY <1>1, <2>1, <2>2 DEF Prefixed
<1>4. QED BY <1>1, <1>2, <1>3

\* The bytes of the tag of a field.
TagBytes(num) == VarintSize(8 * num)

\* How long each kind of token is.
LEMMA TokenSizes ==
    ASSUME NEW num \in Nat
    PROVE  /\ \A n : TokenSize(Varint(num, n)) = TagBytes(num) + VarintSize(n % W64)
           /\ \A s : TokenSize(Text(num, s)) = TagBytes(num) + Prefixed(s.len)
           /\ \A ns : TokenSize(Packed(num, ns)) = TagBytes(num) + Prefixed(NumbersSize(ns))
           /\ \A body : TokenSize(Nested(num, body)) = TagBytes(num) + Prefixed(BodySize(body))
<1>1. /\ VarintSize(8 * num + 0) = TagBytes(num)
      /\ VarintSize(8 * num + 2) = TagBytes(num)
    BY VarintSizeIs DEF TagBytes
<1>2. ASSUME NEW n PROVE TokenSize(Varint(num, n)) = TagBytes(num) + VarintSize(n % W64)
    <2> PICK t : t = Varint(num, n)
        OBVIOUS
    <2>1. /\ "body" \notin DOMAIN t /\ "number" \in DOMAIN t
          /\ t.number = n % W64 /\ t.num = num /\ t.wireType = 0
        BY DEF Varint
    <2>2. QED BY <1>1, <2>1 DEF TokenSize, PlainSize, TagOf
<1>3. ASSUME NEW s PROVE TokenSize(Text(num, s)) = TagBytes(num) + Prefixed(s.len)
    <2> PICK t : t = Text(num, s)
        OBVIOUS
    <2>1. /\ "body" \notin DOMAIN t /\ "number" \notin DOMAIN t /\ "text" \in DOMAIN t
          /\ t.text = s /\ t.num = num /\ t.wireType = 2
        BY DEF Text
    <2>2. QED BY <1>1, <2>1 DEF TokenSize, PlainSize, TagOf
<1>4. ASSUME NEW ns PROVE TokenSize(Packed(num, ns)) = TagBytes(num) + Prefixed(NumbersSize(ns))
    <2> PICK t : t = Packed(num, ns)
        OBVIOUS
    <2>1. /\ "body" \notin DOMAIN t /\ "number" \notin DOMAIN t /\ "text" \notin DOMAIN t
          /\ "numbers" \in DOMAIN t /\ t.numbers = ns /\ t.num = num /\ t.wireType = 2
        BY DEF Packed
    <2>2. QED BY <1>1, <2>1 DEF TokenSize, PlainSize, TagOf
<1>5. ASSUME NEW body
      PROVE  TokenSize(Nested(num, body)) = TagBytes(num) + Prefixed(BodySize(body))
    <2> PICK t : t = Nested(num, body)
        OBVIOUS
    <2>1. /\ "body" \in DOMAIN t /\ t.body = body /\ t.num = num /\ t.wireType = 2
        BY DEF Nested
    <2>2. QED BY <1>1, <2>1 DEF TokenSize, TagOf
<1>6. QED BY <1>2, <1>3, <1>4, <1>5

\* The sizes of the elements of two lists, and of both put together.
Adjoined(s, t, u) ==
    /\ Len(s) \in Nat /\ Len(t) \in Nat /\ Len(u) = Len(s) + Len(t)
    /\ \A i \in 1 .. Len(s) : s[i] \in Nat /\ u[i] = s[i]
    /\ \A i \in 1 .. Len(t) : t[i] \in Nat /\ u[Len(s) + i] = t[i]

\* The sum over two lists put together is the sum of both.
LEMMA SumConcat ==
    ASSUME NEW s, NEW t, NEW u, Adjoined(s, t, u)
    PROVE  SumOf(u) = SumOf(s) + SumOf(t) /\ SumOf(s) \in Nat
<1> PICK n \in Nat : n = Len(s)
    BY DEF Adjoined
<1> PICK m \in Nat : m = Len(t)
    BY DEF Adjoined
<1> DEFINE Firsts == \A i \in 1 .. n : s[i] \in Nat /\ u[i] = s[i]
           Lasts == \A i \in 1 .. m : t[i] \in Nat /\ t[i] = u[n + i]
<1>1. Firsts /\ Lasts
    BY DEF Adjoined
<1>2. \A i \in 1 .. n + m : u[i] \in Nat
    <2>1. TAKE i \in 1 .. n + m
    <2>2. CASE i <= n
        <3>1. i \in 1 .. n
            BY <2>2
        <3>2. QED BY <1>1, <3>1
    <2>3. CASE ~(i <= n)
        <3> PICK j \in 1 .. m : i = n + j
            <4>1. i - n \in 1 .. m /\ i = n + (i - n)
                BY <2>3
            <4>2. QED BY <4>1
        <3>1. u[n + j] = t[j] /\ t[j] \in Nat
            BY <1>1
        <3>2. QED BY <3>1
    <2>4. QED BY <2>2, <2>3
<1>3. SumTo(u, n + m) = SumTo(u, n) + SumTo(t, m)
    <2>1. Halves(u, t, n, m)
        BY <1>1, <1>2 DEF Halves
    <2>2. QED BY <2>1, SumSplit
<1>4. SumTo(u, n) = SumTo(s, n)
    <2>1. \A i \in 1 .. n : u[i] = s[i]
        BY <1>1
    <2>2. QED BY <2>1, SumAgree
<1>5. SumTo(s, n) \in Nat
    BY <1>1, SumNat
<1>6. Len(u) = n + m
    BY DEF Adjoined
<1>7. QED BY <1>3, <1>4, <1>5, <1>6 DEF SumOf

\* So is the size of two encodings put together.
LEMMA WireConcat ==
    ASSUME NEW A, \A t \in A : TokenSize(t) \in Nat, NEW x \in Seq(A), NEW y \in Seq(A)
    PROVE  WireSize(x \o y) = WireSize(x) + WireSize(y) /\ WireSize(x) \in Nat
<1> PICK z : z = x \o y
    OBVIOUS
<1> PICK s : s = [i \in DOMAIN x |-> TokenSize(x[i])]
    OBVIOUS
<1> PICK t : t = [i \in DOMAIN y |-> TokenSize(y[i])]
    OBVIOUS
<1> PICK u : u = [i \in DOMAIN z |-> TokenSize(z[i])]
    OBVIOUS
<1>1. Len(x) \in Nat /\ DOMAIN x = 1 .. Len(x) /\ Len(y) \in Nat /\ DOMAIN y = 1 .. Len(y)
    BY LenProperties
<1>2. \A i \in 1 .. Len(x) : x[i] \in A
    BY ElementOfSeq
<1>3. \A i \in 1 .. Len(y) : y[i] \in A
    BY ElementOfSeq
<1>4. /\ DOMAIN z = 1 .. Len(x) + Len(y)
      /\ \A i \in 1 .. Len(x) : z[i] = x[i] /\ i \in DOMAIN z
      /\ \A i \in 1 .. Len(y) : z[Len(x) + i] = y[i] /\ Len(x) + i \in DOMAIN z
    BY <1>1
<1>5. \A i \in 1 .. Len(x) : s[i] \in Nat /\ u[i] = s[i]
    BY <1>1, <1>2, <1>4
<1>6. \A i \in 1 .. Len(y) : t[i] \in Nat /\ u[Len(x) + i] = t[i]
    BY <1>1, <1>3, <1>4
<1>7. Len(s) = Len(x) /\ Len(t) = Len(y) /\ Len(u) = Len(x) + Len(y)
    BY <1>1, <1>4
<1>8. SumOf(u) = SumOf(s) + SumOf(t) /\ SumOf(s) \in Nat
    <2>1. Adjoined(s, t, u)
        BY <1>1, <1>5, <1>6, <1>7 DEF Adjoined
    <2>2. QED BY <2>1, SumConcat
<1>9. WireSize(x) = SumOf(s) /\ WireSize(y) = SumOf(t) /\ WireSize(z) = SumOf(u)
    BY DEF WireSize
<1>10. QED BY <1>8, <1>9

\* The sizes of pieces; that of all together is the sum of theirs.
Pieced(z, q, n) == \A i \in 1 .. n : z[i] = WireSize(q[i])

\* And that of any number of them.
LEMMA WireJoint ==
    ASSUME NEW A, \A t \in A : TokenSize(t) \in Nat, NEW q, NEW n \in Nat, Parts(q, n, A),
           NEW z, Pieced(z, q, n)
    PROVE  WireSize(JointTo(q, n)) = SumTo(z, n) /\ \A i \in 1 .. n : z[i] \in Nat
<1> USE DEF Pieced
<1> DEFINE Sofar(k) == k <= n => WireSize(JointTo(q, k)) = SumTo(z, k)
           D == {k \in Nat : Sofar(k)}
<1>0. WireSize(<< >>) = 0
    <2>1. Len(<< >>) = 0 /\ [i \in DOMAIN << >> |-> TokenSize(<< >>[i])] = << >>
        OBVIOUS
    <2>2. QED BY <2>1, SumStep DEF WireSize, SumOf
<1>1. Sofar(0)
    BY <1>0, JointNone, SumStep
<1>2. ASSUME NEW k \in Nat, Sofar(k) PROVE Sofar(k + 1)
    <2> SUFFICES ASSUME k + 1 <= n PROVE WireSize(JointTo(q, k + 1)) = SumTo(z, k + 1)
        OBVIOUS
    <2>1. JointTo(q, k + 1) = JointTo(q, k) \o q[k + 1]
        BY JointNext
    <2>2. k + 1 \in 1 .. n
        OBVIOUS
    <2> PICK x \in Seq(A) : x = JointTo(q, k)
        <3>1. Parts(q, k, A)
            BY DEF Parts
        <3>2. QED BY <3>1, JointType
    <2> PICK y \in Seq(A) : y = q[k + 1]
        BY <2>2 DEF Parts
    <2>3. WireSize(x \o y) = WireSize(x) + WireSize(y)
        BY WireConcat
    <2>4. WireSize(x) = SumTo(z, k)
        BY <1>2
    <2>5. z[k + 1] = WireSize(y)
        BY <2>2
    <2>6. SumTo(z, k + 1) = (SumTo(z, k) + z[k + 1])
        BY SumStep
    <2>7. QED BY <2>1, <2>3, <2>4, <2>5, <2>6
<1> HIDE DEF Sofar
<1>3. Nat \subseteq D
    <2>1. 0 \in D /\ \A k \in Nat : k \in D => k + 1 \in D
        BY <1>1, <1>2
    <2> HIDE DEF D
    <2>2. QED BY <2>1, Induct
<1>4. Sofar(n)
    BY <1>3
<1>5. ASSUME NEW i \in 1 .. n PROVE z[i] \in Nat
    <2> PICK x \in Seq(A) : x = q[i]
        BY DEF Parts
    <2>1. WireSize(x) \in Nat
        BY WireConcat
    <2>2. QED BY <2>1
<1>6. QED BY <1>4, <1>5 DEF Sofar

-----------------------------------------------------------------------------
(* The size of what is written *)

\* The bytes of the numbers of a packed list.
LEMMA NumbersSizeIs ==
    ASSUME NEW B, NEW ns \in Seq(B)
    PROVE  NumbersSize(ns) \in Nat
<1> PICK s : s = [i \in DOMAIN ns |-> VarintSize(ns[i] % W64)]
    OBVIOUS
<1>1. Len(ns) \in Nat /\ DOMAIN ns = 1 .. Len(ns)
    BY LenProperties
<1>2. Len(s) = Len(ns)
    BY <1>1
<1>3. \A i \in 1 .. Len(ns) : s[i] \in Nat
    <2>1. TAKE i \in 1 .. Len(ns)
    <2>2. VarintSize(ns[i] % W64) \in 1 .. 4
        BY VarintSizeIs
    <2>3. QED BY <1>1, <2>2
<1>4. SumTo(s, Len(ns)) \in Nat
    BY <1>1, <1>3, SumNat
<1>5. QED BY <1>2, <1>4 DEF NumbersSize, SumOf

\* A token without a body is as long on its own as inside a message.
Sized(t) == TokenSize(t) \in Nat /\ PlainSize(t) = TokenSize(t)

\* The tokens of unknown fields have a size.
LEMMA StraySized ==
    \A t \in StrayTokens : Sized(t)
<1> PICK a : a = Varint(17, 1)
    OBVIOUS
<1> PICK b : b = Bare(1, 5)
    OBVIOUS
<1>1. StrayTokens = {a, b}
    BY DEF StrayTokens, Strays
<1>2. Sized(a)
    <2>1. "body" \notin DOMAIN a /\ "number" \in DOMAIN a
        BY DEF Varint
    <2>2. VarintSize(TagOf(a)) \in 1 .. 4 /\ VarintSize(a.number) \in 1 .. 4
        BY VarintSizeIs
    <2>3. QED BY <2>1, <2>2 DEF Sized, TokenSize, PlainSize
<1>3. Sized(b)
    <2>1. /\ "body" \notin DOMAIN b /\ "number" \notin DOMAIN b /\ "text" \notin DOMAIN b
          /\ "numbers" \notin DOMAIN b
        BY DEF Bare
    <2>2. VarintSize(TagOf(b)) \in 1 .. 4
        BY VarintSizeIs
    <2>3. QED BY <2>1, <2>2 DEF Sized, TokenSize, PlainSize
<1>4. QED BY <1>1, <1>2, <1>3

\* A number or a text that is written for a row.
LEMMA ScalarSized ==
    ASSUME NEW row, row.type \in FieldTypes, row.num \in Nat, row.tagSize = TagBytes(row.num),
           NEW v \in Scalars(row.type)
    PROVE  /\ Sized(Written1(row, v))
           /\ TokenSize(Written1(row, v))
                  = row.tagSize + (IF IsText(row.type) THEN Prefixed(v.len)
                                   ELSE VarintSize(v % W64))
<1> PICK num \in Nat : num = row.num
    OBVIOUS
<1> PICK t : t = Written1(row, v)
    OBVIOUS
<1>1. TagBytes(num) \in 1 .. 4
    BY VarintSizeIs DEF TagBytes
<1>2. CASE IsText(row.type)
    <2>1. t = Text(num, v)
        BY <1>2 DEF Written1
    <2>2. v.len \in Nat
        BY <1>2 DEF Scalars, Texts
    <2>3. Prefixed(v.len) \in Nat
        BY <2>2, PrefixedIs
    <2>4. TokenSize(t) = TagBytes(num) + Prefixed(v.len)
        BY <2>1, TokenSizes
    <2>5. "body" \notin DOMAIN t
        BY <2>1 DEF Text
    <2>6. QED BY <1>1, <1>2, <2>3, <2>4, <2>5 DEF Sized, TokenSize
<1>3. CASE ~IsText(row.type)
    <2>1. t = Varint(num, v)
        BY <1>3 DEF Written1
    <2>2. VarintSize(v % W64) \in 1 .. 4
        BY VarintSizeIs
    <2>3. TokenSize(t) = TagBytes(num) + VarintSize(v % W64)
        BY <2>1, TokenSizes
    <2>4. "body" \notin DOMAIN t
        BY <2>1 DEF Varint
    <2>5. QED BY <1>1, <1>3, <2>2, <2>3, <2>4 DEF Sized, TokenSize
<1>4. QED BY <1>2, <1>3

\* Any token of a row that is no message.
LEMMA PlainTokenSized ==
    ASSUME NEW row, row.type \in FieldTypes, row.num \in Nat, row.tagSize = TagBytes(row.num),
           NEW t \in RowTokens(row)
    PROVE  Sized(t)
<1>1. ~IsMessage(row.type)
    BY KindIs
<1>2. CASE row.type = Rep(U64)
    <2> PICK v \in PlainValues(row.type) : t = Packed(row.num, v)
        BY <1>1, <1>2 DEF RowTokens
    <2>1. v \in Seq(Scalars(row.type))
        BY <1>2 DEF PlainValues, Rep
    <2>2. NumbersSize(v) \in Nat
        BY <2>1, NumbersSizeIs
    <2>3. Prefixed(NumbersSize(v)) \in Nat
        BY <2>2, PrefixedIs
    <2>4. TokenSize(t) = TagBytes(row.num) + Prefixed(NumbersSize(v))
        BY TokenSizes
    <2>5. "body" \notin DOMAIN t
        BY DEF Packed
    <2>6. TagBytes(row.num) \in 1 .. 4
        BY VarintSizeIs DEF TagBytes
    <2>7. QED BY <2>3, <2>4, <2>5, <2>6 DEF Sized, TokenSize
<1>3. CASE row.type # Rep(U64)
    <2> PICK v \in Scalars(row.type) : t = Written1(row, v)
        BY <1>1, <1>3 DEF RowTokens
    <2>1. QED BY ScalarSized
<1>4. QED BY <1>2, <1>3

-----------------------------------------------------------------------------
(* ByteSizeLong counts what is written *)

\* No token, no byte.
LEMMA WireNone ==
    WireSize(<< >>) = 0
<1>1. Len(<< >>) = 0 /\ [i \in DOMAIN << >> |-> TokenSize(<< >>[i])] = << >>
    OBVIOUS
<1>2. QED BY <1>1, SumStep DEF WireSize, SumOf

\* The elements of a list, one token each.
Counted(v, w, z) ==
    /\ w = [i \in DOMAIN v |-> w[i]] /\ z = [i \in DOMAIN v |-> z[i]]
    /\ \A i \in 1 .. Len(v) : TokenSize(w[i]) = z[i] /\ z[i] \in Nat

\* The size of a list of tokens is the sum over them.
LEMMA WireElements ==
    ASSUME NEW B, NEW v \in Seq(B), NEW w, NEW z, Counted(v, w, z)
    PROVE  WireSize(w) = SumOf(z) /\ SumOf(z) \in Nat
<1>1. Len(v) \in Nat /\ DOMAIN v = 1 .. Len(v)
    BY LenProperties
<1>2. w = [i \in 1 .. Len(v) |-> w[i]] /\ z = [i \in 1 .. Len(v) |-> z[i]]
    BY <1>1 DEF Counted
<1>3. Len(z) = Len(v)
    BY <1>1, <1>2
<1>4. [i \in DOMAIN w |-> TokenSize(w[i])] = z
    <2>1. \A i \in 1 .. Len(v) : TokenSize(w[i]) = z[i]
        BY DEF Counted
    <2>2. DOMAIN w = 1 .. Len(v)
        BY <1>2
    <2>3. QED BY <1>2, <2>1, <2>2
<1>5. SumTo(z, Len(v)) \in Nat
    <2>1. \A i \in 1 .. Len(v) : z[i] \in Nat
        BY DEF Counted
    <2>2. QED BY <1>1, <2>1, SumNat
<1>6. QED BY <1>3, <1>4, <1>5 DEF WireSize, SumOf

\* A token alone has its own size.
LEMMA WireOne ==
    ASSUME NEW t, TokenSize(t) \in Nat
    PROVE  WireSize(<<t>>) = TokenSize(t)
<1> PICK z : z = << TokenSize(t) >>
    OBVIOUS
<1>1. [i \in DOMAIN <<t>> |-> TokenSize(<<t>>[i])] = z /\ Len(z) = 1 /\ z[1] = TokenSize(t)
    OBVIOUS
<1>2. SumTo(z, 0 + 1) = (SumTo(z, 0) + z[0 + 1]) /\ SumTo(z, 0) = 0 /\ 0 + 1 = 1
    BY SumStep
<1>3. QED BY <1>1, <1>2 DEF WireSize, SumOf

\* What is written for a field is as long as ByteSizeLong has it.
RowSized(row) ==
    \A v \in Values(row.type) :
        WireSize(WriteField(row, v)) = FieldSize(row, v) /\ FieldSize(row, v) \in Nat

\* ByteSizeLong counts what is written for a field without messages.
LEMMA PlainRowSized ==
    ASSUME NEW row, row.type \in FieldTypes, row.num \in Nat, row.tagSize = TagBytes(row.num)
    PROVE  RowSized(row)
<1> SUFFICES ASSUME NEW v \in PlainValues(row.type)
             PROVE  /\ WireSize(WritePlain(row, v)) = SizePlain(row, v)
                    /\ SizePlain(row, v) \in Nat
    BY PlainRow DEF RowSized
<1>1. TagBytes(row.num) \in 1 .. 4
    BY VarintSizeIs DEF TagBytes
<1>2. CASE v = Default(row.type)
    BY <1>2, WireNone DEF WritePlain, SizePlain
<1>3. CASE v # Default(row.type) /\ row.type = Rep(U64)
    <2>1. v \in Seq(Scalars(row.type))
        BY <1>3 DEF PlainValues, Rep
    <2>2. NumbersSize(v) \in Nat
        BY <2>1, NumbersSizeIs
    <2>3. Prefixed(NumbersSize(v)) \in Nat
        BY <2>2, PrefixedIs
    <2>4. TokenSize(Packed(row.num, v)) = TagBytes(row.num) + Prefixed(NumbersSize(v))
        BY TokenSizes
    <2>5. WireSize(<< Packed(row.num, v) >>) = TokenSize(Packed(row.num, v))
        BY <1>1, <2>3, <2>4, WireOne
    <2>6. WritePlain(row, v) = << Packed(row.num, v) >>
        BY <1>3 DEF WritePlain
    <2>7. SizePlain(row, v) = TagBytes(row.num) + Prefixed(NumbersSize(v))
        BY <1>3 DEF SizePlain
    <2>8. QED BY <1>1, <2>3, <2>4, <2>5, <2>6, <2>7
<1> DEFINE Tagged(s) ==
        row.tagSize + (IF IsText(row.type) THEN Prefixed(s.len) ELSE VarintSize(s % W64))
<1>4. \A s \in Scalars(row.type) :
          TokenSize(Written1(row, s)) = Tagged(s) /\ Tagged(s) \in Nat
    BY ScalarSized DEF Sized
<1>5. CASE v # Default(row.type) /\ row.type # Rep(U64) /\ row.type.repeated
    <2>1. v \in Seq(Scalars(row.type))
        BY <1>5 DEF PlainValues
    <2> PICK w : w = [i \in DOMAIN v |-> Written1(row, v[i])]
        OBVIOUS
    <2> PICK z : z = [i \in DOMAIN v |-> Tagged(v[i])]
        OBVIOUS
    <2>2. /\ Len(v) \in Nat /\ DOMAIN v = 1 .. Len(v)
          /\ \A i \in 1 .. Len(v) : v[i] \in Scalars(row.type)
        BY <2>1, LenProperties, ElementOfSeq
    <2>3. Counted(v, w, z)
        BY <1>4, <2>2 DEF Counted
    <2>4. WireSize(w) = SumOf(z) /\ SumOf(z) \in Nat
        BY <2>1, <2>3, WireElements
    <2>5. WritePlain(row, v) = w
        BY <1>5 DEF WritePlain, Written1
    <2>6. SizePlain(row, v) = SumOf(z)
        BY <1>5 DEF SizePlain
    <2>7. QED BY <2>4, <2>5, <2>6
<1>6. CASE v # Default(row.type) /\ ~row.type.repeated
    <2>1. v \in Scalars(row.type)
        BY <1>6 DEF PlainValues
    <2>2. row.type # Rep(U64)
        BY <1>6 DEF Rep
    <2>3. WritePlain(row, v) = << Written1(row, v) >>
        BY <1>6, <2>2 DEF WritePlain, Written1
    <2>4. SizePlain(row, v) = Tagged(v)
        BY <1>6, <2>2 DEF SizePlain
    <2>5. WireSize(<< Written1(row, v) >>) = TokenSize(Written1(row, v))
        BY <1>4, <2>1, WireOne
    <2>6. QED BY <1>4, <2>1, <2>3, <2>4, <2>5
<1>7. QED BY <1>2, <1>3, <1>5, <1>6
TokensSized(T) == \A t \in Tokens(T) : TokenSize(t) \in Nat
RowsSized(T) == \A i \in Rows(T) : RowSized(Row(T, i))

\* Any sequence of tokens has a size.
LEMMA WireNat ==
    ASSUME NEW A, \A t \in A : TokenSize(t) \in Nat, NEW x \in Seq(A)
    PROVE  WireSize(x) \in Nat
BY WireConcat

\* If it does so for every row then for the object.
LEMMA SerializedSize ==
    ASSUME NEW T \in MessageTypes, RowsSized(T), TokensSized(T), NEW m, IsMsg(T, m)
    PROVE  WireSize(Serialize(T, m)) = ByteSizeLong(T, m) /\ ByteSizeLong(T, m) \in Nat
<1> PICK w : w = Schema[T].write
    OBVIOUS
<1> PICK n \in Nat : n = Len(w) /\ DOMAIN w = 1 .. n
    BY RowIs DEF Rows
<1> PICK q : q = [i \in DOMAIN w |-> WriteField(w[i], m[w[i].field])]
    OBVIOUS
<1> PICK z : z = [i \in DOMAIN w |-> FieldSize(w[i], m[w[i].field])]
    OBVIOUS
<1>1. Parts(q, n, Tokens(T)) /\ Serialize(T, m) = JointTo(q, n) \o m.unknown
    BY WrittenParts
<1>2. ASSUME NEW i \in 1 .. n PROVE z[i] = WireSize(q[i])
    <2>1. w[i] = Row(T, i) /\ i \in Rows(T)
        BY DEF Row, Rows
    <2>2. w[i].field \in FieldNames(T) /\ w[i].type = FieldType(T, w[i].field)
        BY <2>1, RowIs
    <2>3. m[w[i].field] \in Values(w[i].type)
        BY <2>2 DEF IsMsg
    <2>4. RowSized(w[i])
        BY <2>1 DEF RowsSized
    <2>5. WireSize(WriteField(w[i], m[w[i].field])) = FieldSize(w[i], m[w[i].field])
        BY <2>3, <2>4 DEF RowSized
    <2>6. QED BY <2>5
<1>3. \A t \in Tokens(T) : TokenSize(t) \in Nat
    BY DEF TokensSized
<1>4. WireSize(JointTo(q, n)) = SumTo(z, n) /\ \A i \in 1 .. n : z[i] \in Nat
    <2>1. Pieced(z, q, n)
        BY <1>2, Zenon DEF Pieced
    <2>2. QED BY <1>1, <1>3, <2>1, WireJoint, ZenonT(60)
<1>5. SumTo(z, n) \in Nat
    BY <1>4, SumNat
<1> PICK x \in Seq(Tokens(T)) : x = JointTo(q, n)
    BY <1>1, JointType
<1> PICK y \in Seq(Tokens(T)) : y = m.unknown
    <2>1. m.unknown \in Seq(StrayTokens)
        BY DEF IsMsg
    <2>2. StrayTokens \subseteq Tokens(T)
        BY DEF Tokens
    <2>3. QED BY <2>1, <2>2
<1>6. WireSize(x \o y) = WireSize(x) + WireSize(y) /\ WireSize(y) \in Nat
    <2>1. WireSize(x \o y) = WireSize(x) + WireSize(y)
        BY <1>3, WireConcat
    <2>2. QED BY <1>3, <2>1, WireNat
<1>7. Len(z) = n
    <2>1. z = [i \in 1 .. n |-> z[i]]
        OBVIOUS
    <2>2. QED BY <2>1
<1>8. ByteSizeLong(T, m) = SumOf(z) + WireSize(m.unknown)
    BY Zenon DEF ByteSizeLong, SizeRows
<1>9. SumOf(z) = SumTo(z, n)
    BY <1>7 DEF SumOf
<1> PICK k \in Nat : k = SumTo(z, n)
    BY <1>5
<1>10. WireSize(x) = k
    BY <1>4
<1> PICK j \in Nat : j = WireSize(y)
    BY <1>6
<1>11. WireSize(x \o y) = k + j
    BY <1>6, <1>10
<1>12. WireSize(Serialize(T, m)) = k + j
    BY <1>1, <1>11
<1>13. ByteSizeLong(T, m) = k + j
    BY <1>8, <1>9
<1>14. k + j \in Nat
    BY PlusNat, Zenon
<1>15. QED BY <1>12, <1>13, <1>14

\* The rows' tag sizes are those of their numbers.
LEMMA RowTags ==
    ASSUME NEW T \in MessageTypes, NEW i \in Rows(T)
    PROVE  Row(T, i).num \in Nat /\ Row(T, i).tagSize = TagBytes(Row(T, i).num)
BY RowIs DEF TagBytes

\* In a plain message no token has a body.
LEMMA PlainTokensSized ==
    ASSUME NEW S \in MessageTypes, Plain(S)
    PROVE  RowsSized(S) /\ \A t \in Tokens(S) : Sized(t)
<1>1. ASSUME NEW i \in Rows(S) PROVE Row(S, i).type \in FieldTypes
    <2>1. Row(S, i).field \in FieldNames(S) /\ Row(S, i).type = FieldType(S, Row(S, i).field)
        BY RowIs
    <2>2. ~IsMessage(Row(S, i).type)
        BY <2>1 DEF Plain
    <2>3. QED BY <2>2, RowKind
<1>2. RowsSized(S)
    BY <1>1, RowTags, PlainRowSized DEF RowsSized
<1>3. ASSUME NEW t \in Tokens(S) PROVE Sized(t)
    <2>1. CASE t \in StrayTokens
        BY <2>1, StraySized
    <2>2. CASE t \notin StrayTokens
        <3> PICK i \in Rows(S) : t \in RowTokens(Row(S, i))
            BY <2>2 DEF Tokens
        <3>1. QED BY <1>1, RowTags, PlainTokenSized
    <2>3. QED BY <2>1, <2>2
<1>4. QED BY <1>2, <1>3

\* The two functions of a plain message count the same.
LEMMA PlainByteSize ==
    ASSUME NEW S \in MessageTypes, Plain(S), NEW m \in PlainMessages(S)
    PROVE  ByteSizePlain(S, m) = ByteSizeLong(S, m)
<1>0. m.unknown = << >>
    BY PlainMessageIs
<1> PICK w : w = Schema[S].write
    OBVIOUS
<1>1. ASSUME NEW i \in DOMAIN w
      PROVE  FieldSize(w[i], m[w[i].field]) = SizePlain(w[i], m[w[i].field])
    <2>1. w[i] = Row(S, i) /\ i \in Rows(S)
        BY DEF Row, Rows
    <2>2. w[i].field \in FieldNames(S) /\ w[i].type = FieldType(S, w[i].field)
        BY <2>1, RowIs
    <2>3. ~IsMessage(w[i].type)
        BY <2>2 DEF Plain
    <2>4. QED BY <2>3 DEF FieldSize
<1>2. [i \in DOMAIN w |-> FieldSize(w[i], m[w[i].field])]
          = [i \in DOMAIN w |-> SizePlain(w[i], m[w[i].field])]
    BY <1>1
<1>3. BodySize(<< >>) = WireSize(<< >>)
    <2>1. [i \in DOMAIN << >> |-> PlainSize(<< >>[i])] = << >>
          /\ [i \in DOMAIN << >> |-> TokenSize(<< >>[i])] = << >>
        OBVIOUS
    <2>2. QED BY <2>1, Zenon DEF BodySize, WireSize
<1>4. ByteSizePlain(S, m) = SumOf([i \in DOMAIN w |-> SizePlain(w[i], m[w[i].field])])
                                + BodySize(m.unknown)
    BY Zenon DEF ByteSizePlain, SizePlainRows
<1>5. ByteSizeLong(S, m) = SumOf([i \in DOMAIN w |-> FieldSize(w[i], m[w[i].field])])
                               + WireSize(m.unknown)
    BY Zenon DEF ByteSizeLong, SizeRows
<1>6. QED BY <1>0, <1>2, <1>3, <1>4, <1>5, Zenon

\* A body is as long as the message it was written from.
LEMMA BodySized ==
    ASSUME NEW S \in MessageTypes, Plain(S), NEW m \in PlainMessages(S)
    PROVE  BodySize(SerializePlain(S, m)) = ByteSizePlain(S, m) /\ ByteSizePlain(S, m) \in Nat
<1>1. IsMsg(S, m) /\ m.unknown = << >>
    BY PlainMessageIs
<1>2. RowsSized(S) /\ \A t \in Tokens(S) : Sized(t)
    BY PlainTokensSized
<1>3. TokensSized(S)
    BY <1>2 DEF TokensSized, Sized
<1>4. WireSize(Serialize(S, m)) = ByteSizeLong(S, m) /\ ByteSizeLong(S, m) \in Nat
    BY <1>1, <1>2, <1>3, SerializedSize
<1> PICK x \in Seq(Tokens(S)) : x = Serialize(S, m)
    BY <1>1, WrittenParts
<1>5. BodySize(x) = WireSize(x)
    <2>1. DOMAIN x = 1 .. Len(x) /\ \A i \in 1 .. Len(x) : x[i] \in Tokens(S)
        BY LenProperties, ElementOfSeq
    <2>2. \A i \in DOMAIN x : PlainSize(x[i]) = TokenSize(x[i])
        BY <1>2, <2>1 DEF Sized
    <2>3. [i \in DOMAIN x |-> PlainSize(x[i])] = [i \in DOMAIN x |-> TokenSize(x[i])]
        BY <2>2
    <2>4. QED BY <2>3, Zenon DEF BodySize, WireSize
<1>6. SerializePlain(S, m) = x
    BY PlainSerialize
<1>7. ByteSizePlain(S, m) = ByteSizeLong(S, m)
    BY PlainByteSize
<1>8. QED BY <1>4, <1>5, <1>6, <1>7
\* A message as the token of a row.
LEMMA NestedSized ==
    ASSUME NEW row, row.num \in Nat, row.tagSize = TagBytes(row.num), NEW S \in MessageTypes,
           Plain(S), NEW b \in PlainMessages(S)
    PROVE  /\ TokenSize(Nested(row.num, SerializePlain(S, b)))
                  = row.tagSize + Prefixed(ByteSizePlain(S, b))
           /\ row.tagSize + Prefixed(ByteSizePlain(S, b)) \in Nat
<1>1. BodySize(SerializePlain(S, b)) = ByteSizePlain(S, b) /\ ByteSizePlain(S, b) \in Nat
    BY BodySized
<1>2. TagBytes(row.num) \in 1 .. 4
    BY VarintSizeIs DEF TagBytes
<1>3. Prefixed(ByteSizePlain(S, b)) \in Nat
    BY <1>1, PrefixedIs
<1>4. TokenSize(Nested(row.num, SerializePlain(S, b)))
          = TagBytes(row.num) + Prefixed(BodySize(SerializePlain(S, b)))
    BY TokenSizes
<1>5. QED BY <1>1, <1>2, <1>3, <1>4

\* It does so for a field with messages.
LEMMA MessageRowSized ==
    ASSUME NEW row, row.num \in Nat, row.tagSize = TagBytes(row.num), IsMessage(row.type),
           row.type.of \in MessageTypes, Plain(row.type.of)
    PROVE  RowSized(row) /\ \A t \in RowTokens(row) : TokenSize(t) \in Nat
<1> PICK S \in MessageTypes : S = row.type.of
    OBVIOUS
<1> DEFINE Bytes1(b) == row.tagSize + Prefixed(ByteSizePlain(S, b))
           Token1(b) == Nested(row.num, SerializePlain(S, b))
<1>1. \A b \in PlainMessages(S) : TokenSize(Token1(b)) = Bytes1(b) /\ Bytes1(b) \in Nat
    BY NestedSized
<1> HIDE DEF Bytes1
<1>2. ASSUME NEW v \in Values(row.type)
      PROVE  WireSize(WriteField(row, v)) = FieldSize(row, v) /\ FieldSize(row, v) \in Nat
    <2>1. v \in Seq(PlainMessages(S))
        BY DEF Values
    <2> PICK w : w = [i \in DOMAIN v |-> Token1(v[i])]
        OBVIOUS
    <2> PICK z : z = [i \in DOMAIN v |-> Bytes1(v[i])]
        OBVIOUS
    <2>2. /\ Len(v) \in Nat /\ DOMAIN v = 1 .. Len(v)
          /\ \A i \in 1 .. Len(v) : v[i] \in PlainMessages(S)
        BY <2>1, LenProperties, ElementOfSeq
    <2>3. Counted(v, w, z)
        BY <1>1, <2>2 DEF Counted
    <2>4. WireSize(w) = SumOf(z) /\ SumOf(z) \in Nat
        BY <2>1, <2>3, WireElements
    <2>5. WriteField(row, v) = w
        BY DEF WriteField
    <2>6. FieldSize(row, v) = SumOf(z)
        BY DEF FieldSize, Bytes1
    <2>7. QED BY <2>4, <2>5, <2>6
<1>3. ASSUME NEW t \in RowTokens(row) PROVE TokenSize(t) \in Nat
    <2> PICK b \in PlainMessages(S) : t = Token1(b)
        BY DEF RowTokens
    <2>1. QED BY <1>1
<1>4. QED BY <1>2, <1>3 DEF RowSized

\* Every field of every message is counted as it is written.
LEMMA AllSized ==
    ASSUME NEW T \in MessageTypes
    PROVE  RowsSized(T) /\ TokensSized(T)
<1>1. ASSUME NEW i \in Rows(T)
      PROVE  RowSized(Row(T, i)) /\ \A t \in RowTokens(Row(T, i)) : TokenSize(t) \in Nat
    <2> PICK row : row = Row(T, i)
        OBVIOUS
    <2>1. row.num \in Nat /\ row.tagSize = TagBytes(row.num)
        BY RowTags
    <2>2. CASE row.type \in FieldTypes
        BY <2>1, <2>2, PlainRowSized, PlainTokenSized DEF Sized
    <2>3. CASE IsMessage(row.type) /\ row.type.of \in MessageTypes /\ Plain(row.type.of)
        BY <2>1, <2>3, MessageRowSized
    <2>4. QED BY <2>2, <2>3, RowKind
<1>2. ASSUME NEW t \in Tokens(T) PROVE TokenSize(t) \in Nat
    <2>1. CASE t \in StrayTokens
        BY <2>1, StraySized DEF Sized
    <2>2. CASE t \notin StrayTokens
        <3> PICK i \in Rows(T) : t \in RowTokens(Row(T, i))
            BY <2>2 DEF Tokens
        <3>1. QED BY <1>1
    <2>3. QED BY <2>1, <2>2
<1>3. QED BY <1>1, <1>2 DEF RowsSized, TokensSized

\* An object is encoded in as many bytes as ByteSizeLong says.
LEMMA ObjectSized ==
    ASSUME NEW T \in MessageTypes, NEW m, IsMsg(T, m)
    PROVE  WireSize(Serialize(T, m)) = ByteSizeLong(T, m) /\ ByteSizeLong(T, m) \in Nat
BY AllSized, SerializedSize

-----------------------------------------------------------------------------
(* What is merged takes no more bytes than both did *)

\* The sizes of the elements of two lists put together.
Mapped(g, v) == [i \in DOMAIN v |-> g[v[i]]]

\* What is summed over two lists put together is the sum of both.
LEMMA MapConcat ==
    ASSUME NEW B, NEW a \in Seq(B), NEW v \in Seq(B), NEW g, \A x \in B : g[x] \in Nat
    PROVE  /\ SumOf(Mapped(g, a \o v)) = SumOf(Mapped(g, a)) + SumOf(Mapped(g, v))
           /\ SumOf(Mapped(g, a)) \in Nat /\ SumOf(Mapped(g, v)) \in Nat
<1> PICK z : z = a \o v
    OBVIOUS
<1> PICK s : s = Mapped(g, a)
    OBVIOUS
<1> PICK t : t = Mapped(g, v)
    OBVIOUS
<1> PICK u : u = Mapped(g, z)
    OBVIOUS
<1>1. Len(a) \in Nat /\ DOMAIN a = 1 .. Len(a) /\ Len(v) \in Nat /\ DOMAIN v = 1 .. Len(v)
    BY LenProperties
<1>2. \A i \in 1 .. Len(a) : a[i] \in B
    BY ElementOfSeq
<1>3. \A i \in 1 .. Len(v) : v[i] \in B
    BY ElementOfSeq
<1>4. /\ DOMAIN z = 1 .. Len(a) + Len(v)
      /\ \A i \in 1 .. Len(a) : z[i] = a[i] /\ i \in DOMAIN z
      /\ \A i \in 1 .. Len(v) : z[Len(a) + i] = v[i] /\ Len(a) + i \in DOMAIN z
    BY <1>1
<1>5. \A i \in 1 .. Len(a) : s[i] \in Nat /\ u[i] = s[i]
    BY <1>1, <1>2, <1>4 DEF Mapped
<1>6. \A i \in 1 .. Len(v) : t[i] \in Nat /\ u[Len(a) + i] = t[i]
    BY <1>1, <1>3, <1>4 DEF Mapped
<1>7. Len(s) = Len(a) /\ Len(t) = Len(v) /\ Len(u) = Len(a) + Len(v)
    BY <1>1, <1>4 DEF Mapped
<1>8. SumOf(u) = SumOf(s) + SumOf(t) /\ SumOf(s) \in Nat
    <2>1. Adjoined(s, t, u)
        BY <1>1, <1>5, <1>6, <1>7 DEF Adjoined
    <2>2. QED BY <2>1, SumConcat
<1>9. SumOf(t) \in Nat
    <2>1. SumTo(t, Len(v)) \in Nat
        BY <1>1, <1>6, SumNat
    <2>2. QED BY <1>7, <2>1 DEF SumOf
<1>10. QED BY <1>8, <1>9

\* What is merged into a field takes no more bytes than the two values did.
NoLarger(x, y, z) == x \in Nat /\ y \in Nat /\ z \in Nat /\ z <= x + y
RowSmall(row) ==
    \A a, v : a \in Values(row.type) /\ v \in Values(row.type) =>
        NoLarger(FieldSize(row, a), FieldSize(row, v),
                             FieldSize(row, Merged(row, a, v)))

\* One of two values takes no more bytes than both.
LEMMA NoLargerAlone ==
    \A x, y, z : x \in Nat /\ y \in Nat /\ (z = x \/ z = y) => NoLarger(x, y, z)
BY DEF NoLarger

\* Nor does what is behind one tag instead of two.
LEMMA NoLargerTagged ==
    \A t, p, q, b \in Nat : b <= p + q => NoLarger(t + p, t + q, t + b)
BY DEF NoLarger

\* Nor do two packed lists in one.
LEMMA NumbersSmall ==
    ASSUME NEW row, row.type = Rep(U64), row.num \in Nat, row.tagSize = TagBytes(row.num),
           NEW a \in Seq(Int), a # << >>, NEW v \in Seq(Int), v # << >>
    PROVE  NoLarger(SizePlain(row, a), SizePlain(row, v), SizePlain(row, a \o v))
<1> PICK g : g = [x \in Int |-> VarintSize(x % W64)]
    OBVIOUS
<1>1. \A x \in Int : g[x] \in Nat
    <2> SUFFICES ASSUME NEW x \in Int PROVE g[x] \in Nat
        OBVIOUS
    <2>1. g[x] = VarintSize(x % W64)
        OBVIOUS
    <2>2. VarintSize(x % W64) \in 1 .. 4
        BY VarintSizeIs
    <2>3. QED BY <2>1, <2>2
<1>2. ASSUME NEW s \in Seq(Int) PROVE NumbersSize(s) = SumOf(Mapped(g, s))
    <2>1. DOMAIN s = 1 .. Len(s) /\ \A i \in 1 .. Len(s) : s[i] \in Int
        BY LenProperties, ElementOfSeq
    <2>2. [i \in DOMAIN s |-> VarintSize(s[i] % W64)] = [i \in DOMAIN s |-> g[s[i]]]
        BY <2>1
    <2>3. QED BY <2>2, Zenon DEF NumbersSize, Mapped
<1>3. a \o v \in Seq(Int) /\ a \o v # << >>
    BY ConcatProperties, EmptySeq
<1> PICK x \in Nat : x = NumbersSize(a)
    BY NumbersSizeIs
<1> PICK y \in Nat : y = NumbersSize(v)
    BY NumbersSizeIs
<1> PICK z : z = a \o v
    OBVIOUS
<1>4. NumbersSize(z) = x + y
    <2>1. SumOf(Mapped(g, a \o v)) = SumOf(Mapped(g, a)) + SumOf(Mapped(g, v))
        BY <1>1, MapConcat, SMTT(30)
    <2>2. NumbersSize(z) = SumOf(Mapped(g, z))
        BY <1>2, <1>3
    <2>3. x = SumOf(Mapped(g, a)) /\ y = SumOf(Mapped(g, v))
        BY <1>2
    <2>4. QED BY <2>1, <2>2, <2>3
<1>5. \A s : s # << >> => SizePlain(row, s) = TagBytes(row.num) + Prefixed(NumbersSize(s))
    BY DEF SizePlain, Default, IsSeq, Rep
<1> PICK p \in Nat : p = Prefixed(x)
    BY PrefixedIs
<1> PICK q \in Nat : q = Prefixed(y)
    BY PrefixedIs
<1> PICK b \in Nat : b = Prefixed(x + y)
    <2>1. x + y \in Nat
        OBVIOUS
    <2>2. QED BY <2>1, PrefixedIs
<1>6. b <= p + q
    <2>1. Prefixed(x + y) <= Prefixed(x) + Prefixed(y)
        BY PrefixedIs
    <2>2. QED BY <2>1
<1>7. TagBytes(row.num) \in 1 .. 4
    BY VarintSizeIs DEF TagBytes
<1> PICK tag \in Nat : tag = TagBytes(row.num)
    BY <1>7, SMTT(30)
<1>8. SizePlain(row, a) = tag + p /\ SizePlain(row, v) = tag + q
    <2>1. SizePlain(row, a) = TagBytes(row.num) + Prefixed(NumbersSize(a))
        BY <1>5
    <2>2. SizePlain(row, v) = TagBytes(row.num) + Prefixed(NumbersSize(v))
        BY <1>5
    <2>3. QED BY <2>1, <2>2
<1>9. SizePlain(row, z) = tag + b
    <2>1. SizePlain(row, z) = TagBytes(row.num) + Prefixed(NumbersSize(z))
        BY <1>3, <1>5
    <2>2. Prefixed(NumbersSize(z)) = b
        BY <1>4
    <2>3. QED BY <2>1, <2>2
<1>10. NoLarger(tag + p, tag + q, tag + b)
    BY <1>6, NoLargerTagged
<1>11. QED BY <1>8, <1>9, <1>10
\* Lists that are written element by element.
LEMMA ListSmall ==
    ASSUME NEW B, NEW g, \A x \in B : g[x] \in Nat, NEW a \in Seq(B), NEW v \in Seq(B)
    PROVE  NoLarger(SumOf(Mapped(g, a)), SumOf(Mapped(g, v)), SumOf(Mapped(g, a \o v)))
<1> PICK x \in Nat : x = SumOf(Mapped(g, a))
    BY MapConcat
<1> PICK y \in Nat : y = SumOf(Mapped(g, v))
    BY MapConcat
<1>1. SumOf(Mapped(g, a \o v)) = x + y
    BY MapConcat
<1>2. NoLarger(x, y, x + y)
    BY DEF NoLarger
<1>3. QED BY <1>1, <1>2

\* Nor do two lists of texts.
LEMMA TextsSmall ==
    ASSUME NEW row, row.type \in FieldTypes, row.type.repeated, row.type # Rep(U64),
           row.num \in Nat, row.tagSize = TagBytes(row.num),
           NEW a \in PlainValues(row.type), a # << >>, NEW v \in PlainValues(row.type), v # << >>
    PROVE  NoLarger(SizePlain(row, a), SizePlain(row, v), SizePlain(row, a \o v))
<1> PICK B : B = Scalars(row.type)
    OBVIOUS
<1> DEFINE Tagged(s) ==
        row.tagSize + (IF IsText(row.type) THEN Prefixed(s.len) ELSE VarintSize(s % W64))
<1> PICK g : g = [x \in B |-> Tagged(x)]
    OBVIOUS
<1>1. \A x \in B : Tagged(x) \in Nat
    BY ScalarSized DEF Sized
<1>2. \A x \in B : g[x] = Tagged(x)
    OBVIOUS
<1> HIDE DEF Tagged
<1>3. \A x \in B : g[x] \in Nat
    BY <1>1, <1>2
<1>4. a \in Seq(B) /\ v \in Seq(B)
    BY DEF PlainValues
<1>5. ASSUME NEW s \in Seq(B), s # << >> PROVE SizePlain(row, s) = SumOf(Mapped(g, s))
    <2>1. DOMAIN s = 1 .. Len(s) /\ \A i \in 1 .. Len(s) : s[i] \in B
        BY LenProperties, ElementOfSeq
    <2>2. [i \in DOMAIN s |-> Tagged(s[i])] = [i \in DOMAIN s |-> g[s[i]]]
        BY <1>2, <2>1
    <2>3. s # Default(row.type)
        BY <1>5 DEF Default, IsSeq
    <2>4. SizePlain(row, s) = SumOf([i \in DOMAIN s |-> Tagged(s[i])])
        BY <2>3, Zenon DEF SizePlain, Tagged
    <2>5. QED BY <2>2, <2>4, Zenon DEF Mapped
<1>6. a \o v \in Seq(B) /\ a \o v # << >>
    BY <1>4, ConcatProperties, EmptySeq
<1>7. NoLarger(SumOf(Mapped(g, a)), SumOf(Mapped(g, v)), SumOf(Mapped(g, a \o v)))
    BY <1>3, <1>4, ListSmall
<1>8. QED BY <1>4, <1>5, <1>6, <1>7

\* Nor do the two values of any field without messages, merged.
LEMMA PlainRowSmall ==
    ASSUME NEW row, row.type \in FieldTypes, row.num \in Nat, row.tagSize = TagBytes(row.num)
    PROVE  RowSmall(row)
<1> SUFFICES ASSUME NEW a \in PlainValues(row.type), NEW v \in PlainValues(row.type)
             PROVE  NoLarger(SizePlain(row, a), SizePlain(row, v),
                             SizePlain(row, MergedPlain(row, a, v)))
    BY PlainRow DEF RowSmall
<1>1. \A s \in PlainValues(row.type) : SizePlain(row, s) \in Nat
    BY PlainRowSized, PlainRow DEF RowSized
<1>2. CASE MergedPlain(row, a, v) = a \/ MergedPlain(row, a, v) = v
    <2>1. SizePlain(row, a) \in Nat /\ SizePlain(row, v) \in Nat
        BY <1>1
    <2>2. \/ SizePlain(row, MergedPlain(row, a, v)) = SizePlain(row, a)
          \/ SizePlain(row, MergedPlain(row, a, v)) = SizePlain(row, v)
        BY <1>2
    <2>3. QED BY <2>1, <2>2, NoLargerAlone
<1>3. CASE ~row.type.repeated
    <2>1. MergedPlain(row, a, v) = a \/ MergedPlain(row, a, v) = v
        BY <1>3 DEF MergedPlain
    <2>2. QED BY <1>2, <2>1
<1>4. CASE row.type.repeated
    <2>1. a \in Seq(Scalars(row.type)) /\ v \in Seq(Scalars(row.type))
        BY <1>4 DEF PlainValues
    <2>2. MergedPlain(row, a, v) = a \o v
        BY <1>4 DEF MergedPlain
    <2>3. CASE a = << >> \/ v = << >>
        <3>1. a \o v = a \/ a \o v = v
            BY <2>1, <2>3, ConcatEmptySeq
        <3>2. QED BY <1>2, <2>2, <3>1
    <2>4. CASE a # << >> /\ v # << >> /\ row.type = Rep(U64)
        <3>1. a \in Seq(Int) /\ v \in Seq(Int)
            <4>1. Scalars(row.type) \subseteq Int
                BY <2>4, ScalarsAre, KindIs
            <4>2. QED BY <2>1, <4>1
        <3>2. QED BY <2>2, <2>4, <3>1, NumbersSmall
    <2>5. CASE a # << >> /\ v # << >> /\ row.type # Rep(U64)
        BY <1>4, <2>2, <2>5, TextsSmall
    <2>6. QED BY <2>3, <2>4, <2>5
<1>5. QED BY <1>3, <1>4
RowsSmall(T) == \A i \in Rows(T) : RowSmall(Row(T, i))

\* What the fields of an object take, without the unknown ones.
FieldSizes(T, m) ==
    LET w == Schema[T].write IN [i \in DOMAIN w |-> FieldSize(w[i], m[w[i].field])]

\* ByteSizeLong is a sum over the rows of the table.
LEMMA ByteSizeIs ==
    ASSUME NEW T \in MessageTypes, NEW m
    PROVE  \E n \in Nat :
               /\ Rows(T) = 1 .. n
               /\ ByteSizeLong(T, m) = SumTo(FieldSizes(T, m), n) + WireSize(m.unknown)
               /\ \A i \in 1 .. n : FieldSizes(T, m)[i] = FieldSize(Row(T, i), m[Row(T, i).field])
<1> PICK w : w = Schema[T].write
    OBVIOUS
<1> PICK n \in Nat : n = Len(w) /\ DOMAIN w = 1 .. n /\ Rows(T) = 1 .. n
    BY RowIs DEF Rows
<1> PICK z : z = FieldSizes(T, m)
    OBVIOUS
<1>1. z = [i \in 1 .. n |-> FieldSize(w[i], m[w[i].field])]
    BY DEF FieldSizes
<1>2. Len(z) = n
    BY <1>1
<1>3. ByteSizeLong(T, m) = SumOf(z) + WireSize(m.unknown)
    BY Zenon DEF ByteSizeLong, FieldSizes, SizeRows
<1>4. SumOf(z) = SumTo(z, n)
    BY <1>2 DEF SumOf
<1>5. \A i \in 1 .. n : z[i] = FieldSize(Row(T, i), m[Row(T, i).field])
    BY <1>1 DEF Row
<1>6. QED BY <1>3, <1>4, <1>5

\* Two such bounds add up.
LEMMA NoLargerBoth ==
    \A x, y, z, p, q \in Nat : z <= x + y => NoLarger(x + p, y + q, z + (p + q))
BY DEF NoLarger

\* If it holds of every row then it holds of the object.
LEMMA MergeSmall ==
    ASSUME NEW T \in MessageTypes, RowsSmall(T), NEW a, IsMsg(T, a), NEW m, IsMsg(T, m)
    PROVE  NoLarger(ByteSizeLong(T, a), ByteSizeLong(T, m), ByteSizeLong(T, MergeFrom(T, a, m)))
<1> PICK c : c = MergeFrom(T, a, m)
    OBVIOUS
<1>1. /\ c.unknown = a.unknown \o m.unknown
      /\ \A f \in FieldNames(T) : c[f] = Merged(RowOf(T, f), a[f], m[f])
    <2>1. IsObject(T, a)
        BY DEF IsMsg
    <2>2. QED BY <2>1, MergeIs, ZenonT(60)
<1> PICK s : s = FieldSizes(T, a)
    OBVIOUS
<1> PICK t : t = FieldSizes(T, m)
    OBVIOUS
<1> PICK u : u = FieldSizes(T, c)
    OBVIOUS
<1> PICK n \in Nat : Rows(T) = 1 .. n
    BY RowIs
<1>2. /\ ByteSizeLong(T, a) = SumTo(s, n) + WireSize(a.unknown)
      /\ \A i \in 1 .. n : s[i] = FieldSize(Row(T, i), a[Row(T, i).field])
    BY ByteSizeIs
<1>3. /\ ByteSizeLong(T, m) = SumTo(t, n) + WireSize(m.unknown)
      /\ \A i \in 1 .. n : t[i] = FieldSize(Row(T, i), m[Row(T, i).field])
    BY ByteSizeIs
<1>4. /\ ByteSizeLong(T, c) = SumTo(u, n) + WireSize(c.unknown)
      /\ \A i \in 1 .. n : u[i] = FieldSize(Row(T, i), c[Row(T, i).field])
    BY ByteSizeIs
<1>5. ASSUME NEW i \in 1 .. n PROVE NoLarger(s[i], t[i], u[i])
    <2> PICK row : row = Row(T, i)
        OBVIOUS
    <2>1. /\ row.field \in FieldNames(T) /\ row.type = FieldType(T, row.field)
          /\ RowOf(T, row.field) = row
        BY RowIs
    <2>2. a[row.field] \in Values(row.type) /\ m[row.field] \in Values(row.type)
        BY <2>1 DEF IsMsg
    <2>3. RowSmall(row)
        BY DEF RowsSmall
    <2>4. c[row.field] = Merged(row, a[row.field], m[row.field])
        BY <1>1, <2>1
    <2>5. NoLarger(FieldSize(row, a[row.field]), FieldSize(row, m[row.field]),
                   FieldSize(row, c[row.field]))
        BY <2>2, <2>3, <2>4 DEF RowSmall
    <2>6. QED BY <1>2, <1>3, <1>4, <2>5
<1> PICK d : d = [i \in 1 .. n |-> s[i] + t[i]]
    OBVIOUS
<1> PICK x \in Nat : x = SumTo(s, n)
    BY <1>5, SumNat DEF NoLarger
<1> PICK y \in Nat : y = SumTo(t, n)
    BY <1>5, SumNat DEF NoLarger
<1> PICK z \in Nat : z = SumTo(u, n)
    BY <1>5, SumNat DEF NoLarger
<1>6. SumTo(d, n) = x + y
    <2>1. Added(s, t, d, n)
        BY <1>5 DEF Added, NoLarger
    <2>2. QED BY <2>1, SumAdd
<1>7. z <= x + y
    <2>1. Below(u, d, n)
        BY <1>5 DEF Below, NoLarger
    <2>2. SumTo(u, n) <= SumTo(d, n)
        BY <2>1, SumLess
    <2>3. QED BY <1>6, <2>2
<1> PICK v \in Seq(StrayTokens) : v = a.unknown
    BY DEF IsMsg
<1> PICK w \in Seq(StrayTokens) : w = m.unknown
    BY DEF IsMsg
<1>8. \A e \in StrayTokens : TokenSize(e) \in Nat
    BY StraySized DEF Sized
<1> PICK p \in Nat : p = WireSize(v)
    BY <1>8, WireNat
<1> PICK q \in Nat : q = WireSize(w)
    BY <1>8, WireNat
<1>9. WireSize(c.unknown) = p + q
    <2>1. WireSize(v \o w) = WireSize(v) + WireSize(w)
        BY <1>8, WireConcat
    <2>2. QED BY <1>1, <2>1
<1>10. /\ ByteSizeLong(T, a) = x + p /\ ByteSizeLong(T, m) = y + q
       /\ ByteSizeLong(T, c) = z + (p + q)
    <2>1. ByteSizeLong(T, a) = x + p
        BY <1>2
    <2>2. ByteSizeLong(T, m) = y + q
        BY <1>3
    <2>3. ByteSizeLong(T, c) = z + (p + q)
        BY <1>4, <1>9
    <2>4. QED BY <2>1, <2>2, <2>3
<1>11. NoLarger(x + p, y + q, z + (p + q))
    BY <1>7, NoLargerBoth
<1>12. QED BY <1>10, <1>11

\* Inner messages first.
LEMMA PlainSmall ==
    ASSUME NEW S \in MessageTypes, Plain(S), NEW a \in PlainMessages(S), NEW b \in PlainMessages(S)
    PROVE  NoLarger(ByteSizePlain(S, a), ByteSizePlain(S, b), ByteSizePlain(S, MergePlain(S, a, b)))
<1>1. IsMsg(S, a) /\ IsMsg(S, b)
    BY PlainMessageIs
<1>2. RowsSmall(S)
    <2>1. ASSUME NEW i \in Rows(S) PROVE RowSmall(Row(S, i))
        <3>1. Row(S, i).field \in FieldNames(S) /\ Row(S, i).type = FieldType(S, Row(S, i).field)
            BY RowIs
        <3>2. ~IsMessage(Row(S, i).type)
            BY <3>1 DEF Plain
        <3>3. Row(S, i).type \in FieldTypes
            BY <3>2, RowKind
        <3>4. QED BY <3>3, RowTags, PlainRowSmall
    <2>2. QED BY <2>1 DEF RowsSmall
<1>3. NoLarger(ByteSizeLong(S, a), ByteSizeLong(S, b), ByteSizeLong(S, MergeFrom(S, a, b)))
    BY <1>1, <1>2, MergeSmall
<1>4. MergePlain(S, a, b) = MergeFrom(S, a, b) /\ MergePlain(S, a, b) \in PlainMessages(S)
    BY BodyRead, PlainKeeps
<1>5. \A m \in PlainMessages(S) : ByteSizePlain(S, m) = ByteSizeLong(S, m)
    BY PlainByteSize
<1>6. QED BY <1>3, <1>4, <1>5
\* A message that is merged into another one.
LEMMA PrefixedSmall ==
    ASSUME NEW tag \in Nat, NEW x, NEW y, NEW z, NoLarger(x, y, z)
    PROVE  NoLarger(tag + Prefixed(x), tag + Prefixed(y), tag + Prefixed(z))
<1>1. x \in Nat /\ y \in Nat /\ z \in Nat /\ z <= x + y /\ x + y \in Nat
    BY DEF NoLarger
<1> PICK p \in Nat : p = Prefixed(x)
    BY <1>1, PrefixedIs
<1> PICK q \in Nat : q = Prefixed(y)
    BY <1>1, PrefixedIs
<1> PICK b \in Nat : b = Prefixed(z)
    BY <1>1, PrefixedIs
<1>2. b <= p + q
    <2>1. Prefixed(x + y) <= Prefixed(x) + Prefixed(y)
        BY <1>1, PrefixedIs
    <2>2. Prefixed(z) <= Prefixed(x + y)
        BY <1>1, PrefixedIs
    <2> PICK c \in Nat : c = Prefixed(x + y)
        BY <1>1, PrefixedIs
    <2>3. c <= p + q /\ b <= c
        BY <2>1, <2>2
    <2>4. QED BY <2>3
<1>3. NoLarger(tag + p, tag + q, tag + b)
    BY <1>2, NoLargerTagged
<1>4. QED BY <1>3

\* The sum of one number.
LEMMA SumOne ==
    ASSUME NEW x \in Nat
    PROVE  SumOf(<<x>>) = x
<1> PICK s : s = <<x>>
    OBVIOUS
<1>1. Len(s) = 1 /\ s[1] = x
    OBVIOUS
<1>2. SumTo(s, 0 + 1) = (SumTo(s, 0) + s[0 + 1]) /\ SumTo(s, 0) = 0 /\ 0 + 1 = 1
    BY SumStep
<1>3. QED BY <1>1, <1>2 DEF SumOf

\* A list that has at most one element, but is not empty.
LEMMA SingleIs ==
    ASSUME NEW B, NEW s \in Seq(B), s # << >>, Len(s) <= 1
    PROVE  \E b \in B : s = <<b>>
<1>1. Len(s) = 1
    <2> PICK n \in Nat \ {0} : n = Len(s)
        BY EmptySeq
    <2>1. n <= 1
        OBVIOUS
    <2>2. n = 1
        BY <2>1
    <2>3. QED BY <2>2
<1>2. s[1] \in B
    BY <1>1
<1>3. s = << s[1] >>
    BY <1>1
<1>4. QED BY <1>2, <1>3

\* It holds of a field with messages.
LEMMA MessageRowSmall ==
    ASSUME NEW row, row.num \in Nat, row.tagSize = TagBytes(row.num), IsMessage(row.type),
           row.type.of \in MessageTypes, Plain(row.type.of)
    PROVE  RowSmall(row)
<1> PICK S \in MessageTypes : S = row.type.of
    OBVIOUS
<1>0. Plain(S)
    OBVIOUS
<1> SUFFICES ASSUME NEW a \in Values(row.type), NEW v \in Values(row.type)
             PROVE  NoLarger(FieldSize(row, a), FieldSize(row, v),
                             FieldSize(row, Merged(row, a, v)))
    BY Zenon DEF RowSmall
<1> PICK tag \in Nat : tag = row.tagSize
    <2>1. TagBytes(row.num) \in 1 .. 4
        BY VarintSizeIs DEF TagBytes
    <2>2. QED BY <2>1
<1>1. \A s \in Values(row.type) : FieldSize(row, s) \in Nat
    BY MessageRowSized DEF RowSized
<1>2. a \in Seq(PlainMessages(S)) /\ v \in Seq(PlainMessages(S))
    BY DEF Values
<1>3. \A s : FieldSize(row, s) = SumOf([i \in DOMAIN s |-> tag + Prefixed(ByteSizePlain(S, s[i]))])
    BY Zenon DEF FieldSize
<1>4. CASE Merged(row, a, v) = a \/ Merged(row, a, v) = v
    <2>1. FieldSize(row, a) \in Nat /\ FieldSize(row, v) \in Nat
        BY <1>1
    <2>2. \/ FieldSize(row, Merged(row, a, v)) = FieldSize(row, a)
          \/ FieldSize(row, Merged(row, a, v)) = FieldSize(row, v)
        BY <1>4
    <2>3. QED BY <2>1, <2>2, NoLargerAlone
<1>5. CASE row.type.repeated
    <2>1. Merged(row, a, v) = a \o v
        BY <1>5 DEF Merged, MergedPlain
    <2> DEFINE Bytes1(b) == tag + Prefixed(ByteSizePlain(S, b))
    <2> PICK g : g = [x \in PlainMessages(S) |-> Bytes1(x)]
        OBVIOUS
    <2>2. ASSUME NEW b \in PlainMessages(S) PROVE Bytes1(b) \in Nat
        <3>1. row.tagSize + Prefixed(ByteSizePlain(S, b)) \in Nat
            BY <1>0, NestedSized
        <3>2. QED BY <3>1
    <2>3. \A b \in PlainMessages(S) : g[b] = Bytes1(b)
        OBVIOUS
    <2> HIDE DEF Bytes1
    <2>4. \A b \in PlainMessages(S) : g[b] \in Nat
        BY <2>2, <2>3
    <2>5. ASSUME NEW s \in Seq(PlainMessages(S)) PROVE FieldSize(row, s) = SumOf(Mapped(g, s))
        <3>1. DOMAIN s = 1 .. Len(s) /\ \A i \in 1 .. Len(s) : s[i] \in PlainMessages(S)
            BY LenProperties, ElementOfSeq
        <3>2. [i \in DOMAIN s |-> Bytes1(s[i])] = [i \in DOMAIN s |-> g[s[i]]]
            BY <2>3, <3>1
        <3>3. FieldSize(row, s) = SumOf([i \in DOMAIN s |-> Bytes1(s[i])])
            BY <1>3, Zenon DEF Bytes1
        <3>4. QED BY <3>2, <3>3, Zenon DEF Mapped
    <2>6. NoLarger(SumOf(Mapped(g, a)), SumOf(Mapped(g, v)), SumOf(Mapped(g, a \o v)))
        BY <1>2, <2>4, ListSmall
    <2>7. a \o v \in Seq(PlainMessages(S))
        BY <1>2, ConcatProperties
    <2>8. QED BY <1>2, <2>1, <2>5, <2>6, <2>7
<1>6. CASE ~row.type.repeated /\ v = << >>
    <2>1. Merged(row, a, v) = a
        BY <1>6 DEF Merged, MergedPlain, Default, IsSeq
    <2>2. QED BY <1>4, <2>1
<1>7. CASE ~row.type.repeated /\ v # << >>
    <2>1. Len(v) <= 1 /\ Len(a) <= 1
        BY <1>7 DEF Values
    <2> PICK b \in PlainMessages(S) : v = <<b>>
        BY <1>2, <1>7, <2>1, SingleIs
    <2>2. Merged(row, a, v)
              = << MergePlain(S, IF a = << >> THEN Cleared(S) ELSE a[1], b) >>
        BY <1>7 DEF Merged
    <2>3. CASE a = << >>
        <3>1. MergePlain(S, Cleared(S), b) = b
            BY <1>0, PlainFreshMerge
        <3>2. Merged(row, a, v) = v
            BY <2>2, <2>3, <3>1
        <3>3. QED BY <1>4, <3>2
    <2>4. CASE a # << >>
        <3> PICK c \in PlainMessages(S) : a = <<c>>
            BY <1>2, <2>1, <2>4, SingleIs
        <3> PICK d : d = MergePlain(S, c, b)
            OBVIOUS
        <3>1. Merged(row, a, v) = <<d>>
            BY <2>2, <2>4
        <3>2. NoLarger(ByteSizePlain(S, c), ByteSizePlain(S, b), ByteSizePlain(S, d))
            BY <1>0, PlainSmall
        <3>3. NoLarger(tag + Prefixed(ByteSizePlain(S, c)), tag + Prefixed(ByteSizePlain(S, b)),
                       tag + Prefixed(ByteSizePlain(S, d)))
            BY <3>2, PrefixedSmall
        <3>4. ASSUME NEW e, tag + Prefixed(ByteSizePlain(S, e)) \in Nat
              PROVE  FieldSize(row, <<e>>) = tag + Prefixed(ByteSizePlain(S, e))
            <4> PICK x \in Nat : x = tag + Prefixed(ByteSizePlain(S, e))
                BY <3>4
            <4>1. [i \in DOMAIN <<e>> |-> tag + Prefixed(ByteSizePlain(S, <<e>>[i]))] = <<x>>
                OBVIOUS
            <4>2. FieldSize(row, <<e>>) = SumOf(<<x>>)
                BY <1>3, <4>1, Zenon
            <4>3. QED BY <4>2, SumOne
        <3>5. QED BY <3>1, <3>3, <3>4 DEF NoLarger
    <2>5. QED BY <2>3, <2>4
<1>8. QED BY <1>5, <1>6, <1>7

\* What two objects merged take is no more than both did.
LEMMA ObjectSmall ==
    ASSUME NEW T \in MessageTypes, NEW a, IsMsg(T, a), NEW m, IsMsg(T, m)
    PROVE  ByteSizeLong(T, MergeFrom(T, a, m)) <= ByteSizeLong(T, a) + ByteSizeLong(T, m)
<1>1. ASSUME NEW i \in Rows(T) PROVE RowSmall(Row(T, i))
    <2> PICK row : row = Row(T, i)
        OBVIOUS
    <2>1. row.num \in Nat /\ row.tagSize = TagBytes(row.num)
        BY RowTags
    <2>2. CASE row.type \in FieldTypes
        BY <2>1, <2>2, PlainRowSmall
    <2>3. CASE IsMessage(row.type) /\ row.type.of \in MessageTypes /\ Plain(row.type.of)
        BY <2>1, <2>3, MessageRowSmall
    <2>4. QED BY <2>2, <2>3, RowKind
<1>2. RowsSmall(T)
    BY <1>1 DEF RowsSmall
<1>3. QED BY <1>2, MergeSmall DEF NoLarger

-----------------------------------------------------------------------------
(* What the receiver makes of an encoding, as it came or rewritten by a peer *)

Result(T, w) == Loop(T, Reading(Cleared(T)), w)

\* An encoding that was not touched.
LEMMA Untouched ==
    ASSUME NEW T \in MessageTypes, NEW m, IsMsg(T, m)
    PROVE  Outcome(Result(T, Serialize(T, m)), WellFormed(T, m), m)
<1>1. IsMsg(T, Cleared(T))
    BY ClearedIs
<1>2. Accepted(T, Cleared(T), m)
    BY <1>1, ObjectRead
<1>3. MergeFrom(T, Cleared(T), m) = m
    BY ObjectFresh
<1>4. QED BY <1>2, <1>3 DEF Accepted, Outcome, Result

\* The object that is read instead.
LEMMA ReadAsIs ==
    ASSUME NEW T \in MessageTypes, NEW m, IsMsg(T, m), NEW n, NEW c, c = ReadAs(T, m, n)
    PROVE  /\ IsObject(T, c)
           /\ c.unknown = IF n = "unknown" THEN Strays ELSE m.unknown
           /\ \A f \in FieldNames(T) :
                 c[f] = IF n = "reversed" THEN Turned(FieldType(T, f), m[f]) ELSE m[f]
<1>1. DOMAIN m = Fields(T)
    BY DEF IsMsg, IsObject
<1>2. "unknown" \in Fields(T)
    BY DEF Fields
<1>3. \A f \in FieldNames(T) : f \in Fields(T) /\ f # "unknown"
    BY FieldIs DEF Fields
<1>4. \A f \in Fields(T) :
          c[f] = IF f = "unknown" THEN IF n = "unknown" THEN Strays ELSE m.unknown
                 ELSE IF n = "reversed" THEN Turned(FieldType(T, f), m[f]) ELSE m[f]
    BY <1>1 DEF ReadAs
<1>5. IsObject(T, c)
    BY <1>1 DEF ReadAs, IsObject
<1>6. QED BY <1>2, <1>3, <1>4, <1>5

\* Objects that differ in their unknown fields only.
LEMMA SameFields ==
    ASSUME NEW T \in MessageTypes, NEW m, IsMsg(T, m), NEW c, IsObject(T, c),
           c.unknown \in Seq(StrayTokens), \A f \in FieldNames(T) : c[f] = m[f]
    PROVE  IsMsg(T, c) /\ (WellFormed(T, c) <=> WellFormed(T, m))
BY DEF IsMsg, WellFormed

\* The size of an object depends on its fields, and its unknown ones add
\* theirs.
LEMMA SameSize ==
    ASSUME NEW T \in MessageTypes, NEW m, NEW c, \A f \in FieldNames(T) : c[f] = m[f],
           m.unknown = << >>, IsMsg(T, m)
    PROVE  ByteSizeLong(T, c) = ByteSizeLong(T, m) + WireSize(c.unknown)
<1> PICK n \in Nat : Rows(T) = 1 .. n
    BY RowIs
<1> PICK s : s = FieldSizes(T, c)
    OBVIOUS
<1> PICK t : t = FieldSizes(T, m)
    OBVIOUS
<1>1. /\ ByteSizeLong(T, c) = SumTo(s, n) + WireSize(c.unknown)
      /\ \A i \in 1 .. n : s[i] = FieldSize(Row(T, i), c[Row(T, i).field])
    BY ByteSizeIs
<1>2. /\ ByteSizeLong(T, m) = SumTo(t, n) + WireSize(m.unknown)
      /\ \A i \in 1 .. n : t[i] = FieldSize(Row(T, i), m[Row(T, i).field])
    BY ByteSizeIs
<1>3. \A i \in 1 .. n : s[i] = t[i]
    <2>1. TAKE i \in 1 .. n
    <2>2. Row(T, i).field \in FieldNames(T)
        BY RowIs
    <2>3. QED BY <1>1, <1>2, <2>2
<1>4. SumTo(s, n) = SumTo(t, n)
    BY <1>3, SumAgree
<1>5. WireSize(m.unknown) = 0 /\ ByteSizeLong(T, m) \in Nat
    <2>1. WireSize(m.unknown) = 0
        BY WireNone
    <2>2. QED BY <2>1, ObjectSized
<1>6. \A i \in 1 .. n : t[i] \in Nat
    <2>1. TAKE i \in 1 .. n
    <2>2. Row(T, i).field \in FieldNames(T) /\ Row(T, i).type = FieldType(T, Row(T, i).field)
        BY RowIs
    <2>3. m[Row(T, i).field] \in Values(Row(T, i).type)
        BY <2>2 DEF IsMsg
    <2>4. RowSized(Row(T, i))
        BY AllSized DEF RowsSized
    <2>5. QED BY <1>2, <2>3, <2>4 DEF RowSized
<1> PICK x \in Nat : x = SumTo(t, n)
    BY <1>6, SumNat
<1>7. ByteSizeLong(T, m) = x
    BY <1>2, <1>5
<1>8. QED BY <1>1, <1>4, <1>7

\* What a peer of a later schema adds are unknown fields.
LEMMA StraysAre ==
    Strays \in Seq(StrayTokens)
<1> PICK a : a = Varint(17, 1)
    OBVIOUS
<1> PICK b : b = Bare(1, 5)
    OBVIOUS
<1>1. Strays = <<a, b>>
    BY DEF Strays
<1>2. StrayTokens = {a, b}
    BY <1>1 DEF StrayTokens
<1>3. QED BY <1>1, <1>2

Both(x, y) == x \o y

\* Merging puts the unknown fields one after the other.
LEMMA MergeUnknown ==
    \A T, a, m : IsObject(T, a) => MergeFrom(T, a, m).unknown = Both(a.unknown, m.unknown)
<1> SUFFICES ASSUME NEW T, NEW a, NEW m, IsObject(T, a)
             PROVE  MergeFrom(T, a, m).unknown = a.unknown \o m.unknown
    BY Zenon DEF Both
<1>1. "unknown" \in DOMAIN a
    <2>1. DOMAIN a = Fields(T)
        BY DEF IsObject
    <2>2. QED BY <2>1 DEF Fields
<1>2. QED BY <1>1 DEF MergeFrom

\* Fields this schema does not have are kept, in front of nothing.
LEMMA StraysSent ==
    ASSUME NEW T \in MessageTypes, NEW m, IsMsg(T, m), m.unknown = << >>,
           NEW c, c = ReadAs(T, m, "unknown")
    PROVE  /\ Outcome(Result(T, Strays \o Serialize(T, m)), WellFormed(T, m), c)
           /\ IsMsg(T, c) /\ (WellFormed(T, c) <=> WellFormed(T, m))
           /\ ByteSizeLong(T, c) = WireSize(Strays \o Serialize(T, m))
<1> PICK d : d = Cleared(T)
    OBVIOUS
<1>1. /\ IsMsg(T, d) /\ IsObject(T, d) /\ d.unknown = << >>
    BY ClearedIs DEF IsMsg
<1> PICK v \in Seq(StrayTokens) : v = Strays
    BY StraysAre
<1>2. IsObject(T, c) /\ c.unknown = v /\ \A f \in FieldNames(T) : c[f] = m[f]
    BY ReadAsIs
<1>3. IsMsg(T, c) /\ (WellFormed(T, c) <=> WellFormed(T, m))
    BY <1>2, SameFields
<1> PICK a : a = Put(d, "unknown", v)
    OBVIOUS
<1>4. "unknown" \in Fields(T)
    BY DEF Fields
<1>5. IsPut(T, d, "unknown", v, a)
    BY <1>1, <1>4, PutIs
<1>6. /\ IsObject(T, a) /\ a.unknown = v
      /\ \A f \in FieldNames(T) : a[f] = d[f]
    BY <1>4, <1>5, FieldIs DEF IsPut, Fields
<1>7. IsMsg(T, a)
    BY <1>1, <1>6, SameFields
<1>8. Loop(T, Reading(d), v) = Reading(a)
    <2>1. << >> \o v = v
        BY ConcatEmptySeq
    <2>2. d.unknown \in Seq(StrayTokens)
        BY <1>1 DEF IsMsg
    <2>3. Loop(T, Reading(d), v) = Reading(Put(d, "unknown", d.unknown \o v))
        BY <1>1, <2>2, StraysRead
    <2>4. QED BY <1>1, <2>1, <2>3
<1> PICK w \in Seq(Tokens(T)) : w = Serialize(T, m)
    BY WrittenParts
<1>9. v \in Seq(Tokens(T))
    <2>1. StrayTokens \subseteq Tokens(T)
        BY DEF Tokens
    <2>2. QED BY <2>1
<1>10. Loop(T, Reading(d), v \o w) = Loop(T, Reading(a), w)
    BY <1>8, <1>9, LoopConcat
<1>11. MergeFrom(T, a, m) = c
    <2> PICK e : e = MergeFrom(T, a, m)
        OBVIOUS
    <2>1. /\ IsObject(T, e) /\ e.unknown = Both(a.unknown, m.unknown)
          /\ \A f \in FieldNames(T) : e[f] = Merged(RowOf(T, f), a[f], m[f])
        <3>1. IsObject(T, a)
            BY <1>6
        <3>2. e.unknown = Both(a.unknown, m.unknown)
            BY <3>1, MergeUnknown
        <3>3. IsObject(T, e)
            BY <3>1, MergeIs
        <3>4. \A f \in FieldNames(T) : e[f] = Merged(RowOf(T, f), a[f], m[f])
            BY <3>1, MergeIs
        <3>5. QED BY <3>2, <3>3, <3>4
    <2> PICK g : g = MergeFrom(T, d, m)
        OBVIOUS
    <2>2. /\ g = m
          /\ \A f \in FieldNames(T) : g[f] = Merged(RowOf(T, f), d[f], m[f])
        <3>1. g = m
            BY ObjectFresh
        <3>2. \A f \in FieldNames(T) : g[f] = Merged(RowOf(T, f), d[f], m[f])
            BY <1>1, MergeIs
        <3>3. QED BY <3>1, <3>2
    <2>3. \A f \in FieldNames(T) : e[f] = c[f]
        BY <1>2, <1>6, <2>1, <2>2
    <2>4. e.unknown = c.unknown
        <3>1. v \o << >> = v
            BY ConcatEmptySeq
        <3>2. Both(a.unknown, m.unknown) = v
            BY <1>6, <3>1 DEF Both
        <3>3. QED BY <1>2, <2>1, <3>2
    <2>5. e = c
        <3>1. \A h \in Fields(T) : e[h] = c[h]
            BY <2>3, <2>4 DEF Fields
        <3>2. QED BY <1>2, <2>1, <3>1, SameObject
    <2>6. QED BY <2>5
<1>12. Accepted(T, a, m)
    BY <1>7, ObjectRead
<1>13. Outcome(Result(T, Strays \o Serialize(T, m)), WellFormed(T, m), c)
    BY <1>10, <1>11, <1>12 DEF Accepted, Outcome, Result
<1>14. ByteSizeLong(T, c) = WireSize(v \o w)
    <2>1. ByteSizeLong(T, c) = ByteSizeLong(T, m) + WireSize(v)
        BY <1>2, SameSize
    <2>2. WireSize(w) = ByteSizeLong(T, m) /\ ByteSizeLong(T, m) \in Nat
        BY ObjectSized
    <2>3. \A t \in Tokens(T) : TokenSize(t) \in Nat
        BY AllSized DEF TokensSized
    <2>4. WireSize(v \o w) = WireSize(v) + WireSize(w) /\ WireSize(v) \in Nat
        <3>1. WireSize(v \o w) = WireSize(v) + WireSize(w)
            BY <1>9, <2>3, WireConcat
        <3>2. QED BY <1>9, <2>3, <3>1, WireNat
    <2> PICK x \in Nat : x = WireSize(v)
        BY <2>4
    <2> PICK y \in Nat : y = WireSize(w)
        BY <2>2
    <2>5. ByteSizeLong(T, c) = y + x
        BY <2>1, <2>2
    <2>6. WireSize(v \o w) = x + y
        BY <2>4
    <2>7. QED BY <2>5, <2>6
<1>15. QED BY <1>3, <1>13, <1>14
\* One more token is read.
LEMMA LoopAppend ==
    ASSUME NEW T, NEW r, NEW A, NEW x \in Seq(A), NEW t
    PROVE  Loop(T, r, Append(x, t)) = ReadToken(T, Loop(T, r, x), t)
<1> PICK y : y = Append(x, t)
    OBVIOUS
<1> PICK n \in Nat : n = Len(x)
    BY LenProperties
<1>1. Len(y) = n + 1 /\ y[n + 1] = t /\ \A i \in 1 .. n : y[i] = x[i]
    OBVIOUS
<1>2. LoopTo(T, r, y, n + 1) = ReadToken(T, LoopTo(T, r, y, n), y[n + 1])
    BY LoopNext
<1>3. LoopTo(T, r, y, n) = LoopTo(T, r, x, n)
    <2>1. \A i \in 1 .. n : \A q : ReadToken(T, q, y[i]) = ReadToken(T, q, x[i])
        BY <1>1
    <2>2. QED BY <2>1, LoopAgree
<1>4. QED BY <1>1, <1>2, <1>3 DEF Loop

\* The header of the next packet ends the message before its bytes are used up.
LEMMA NextSent ==
    ASSUME NEW T \in MessageTypes, NEW m, IsMsg(T, m)
    PROVE  Result(T, Append(Serialize(T, m), Bare(0, 0))).status # "reading"
<1> PICK w \in Seq(Tokens(T)) : w = Serialize(T, m)
    BY WrittenParts
<1> PICK t : t = Bare(0, 0)
    OBVIOUS
<1> PICK r : r = Result(T, w)
    OBVIOUS
<1>3. Result(T, Append(w, t)) = ReadToken(T, r, t)
    BY LoopAppend DEF Result
<1>5. t.num = 0 /\ t.wireType = 0
    BY DEF Bare
<1>6. Cases(T, t) = {}
    BY StraysAssumption, Zenon
<1>7. TagOf(t) = 0
    BY <1>5 DEF TagOf
<1>8. ReadToken(T, r, t).status # "reading"
    BY <1>6, <1>7 DEF ReadToken, ReadTag, State
<1>9. QED BY <1>3, <1>8

\* The default of a number or a text is one of its values.
LEMMA DefaultScalar ==
    ASSUME NEW k \in FieldTypes, ~k.repeated
    PROVE  /\ Default(k) \in Scalars(k)
           /\ k.kind = "string" => Default(k).utf8
<1>1. ~IsSeq(k)
    BY KindIs DEF IsSeq
<1>2. CASE IsText(k)
    <2>1. Default(k) = EmptyText
        BY <1>1, <1>2 DEF Default
    <2>2. EmptyText \in Texts /\ EmptyText.utf8
        BY DEF EmptyText, Texts
    <2>3. QED BY <1>2, <2>1, <2>2 DEF Scalars
<1>3. CASE ~IsText(k)
    <2>1. Default(k) = 0
        BY <1>1, <1>3 DEF Default
    <2>2. 0 \in Scalars(k)
        <3>1. W64 \in Nat \ {0} /\ W32 \in Nat \ {0}
            BY SMT DEF W64, W32
        <3>2. QED BY <1>3, <3>1, SMT DEF Scalars
    <2>3. k.kind # "string"
        BY <1>3 DEF IsText
    <2>4. QED BY <2>1, <2>2, <2>3
<1>4. QED BY <1>2, <1>3

\* All that is known of one row.
IsRow(T, row) == \E i \in Rows(T) : row = Row(T, i)

\* What the table says of a row.
LEMMA RowFacts ==
    ASSUME NEW T \in MessageTypes, NEW row, IsRow(T, row)
    PROVE  /\ row.field \in FieldNames(T) /\ row.field \in Fields(T) /\ row.field # "unknown"
           /\ row.type = FieldType(T, row.field) /\ RowOf(T, row.field) = row
           /\ row.num \in Nat /\ row.tagSize = TagBytes(row.num)
<1> PICK i \in Rows(T) : row = Row(T, i)
    BY DEF IsRow
<1>1. row.field \in FieldNames(T) /\ row.type = FieldType(T, row.field)
      /\ RowOf(T, row.field) = row
    BY RowIs
<1>2. row.num \in Nat /\ row.tagSize = TagBytes(row.num)
    BY RowTags
<1>3. row.field \in Fields(T) /\ row.field # "unknown"
    BY <1>1, FieldIs DEF Fields
<1>4. QED BY <1>1, <1>2, <1>3

\* A default that is written nevertheless is read as one.
LEMMA ExplicitRead ==
    ASSUME NEW T \in MessageTypes, NEW row, IsRow(T, row),
           NEW x, IsObject(T, x), x[row.field] = Default(row.type)
    PROVE  /\ Loop(T, Reading(x), ExplicitDefault(row)) = Reading(x)
           /\ ExplicitDefault(row) \in Seq({Written1(row, Default(row.type))})
           /\ ~IsSeq(row.type) => Sized(Written1(row, Default(row.type)))
<1> PICK i \in Rows(T) : row = Row(T, i)
    BY DEF IsRow
<1>1. row.field \in Fields(T) /\ row.num \in Nat /\ row.tagSize = TagBytes(row.num)
    BY RowFacts
<1>2. CASE IsSeq(row.type)
    <2>1. ExplicitDefault(row) = << >>
        BY <1>2 DEF ExplicitDefault
    <2>2. QED BY <1>2, <2>1, LoopEmpty
<1>3. CASE ~IsSeq(row.type)
    <2> PICK v : v = Default(row.type)
        OBVIOUS
    <2>1. row.type \in FieldTypes /\ ~row.type.repeated
        BY <1>3, RowKind DEF IsSeq
    <2>2. v \in Scalars(row.type) /\ (row.type.kind = "string" => v.utf8)
        BY <2>1, DefaultScalar
    <2> PICK t : t = Written1(row, v)
        OBVIOUS
    <2>3. ExplicitDefault(row) = <<t>>
        BY <1>3 DEF ExplicitDefault, Written1, Default
    <2>4. ReadToken(T, Reading(x), t) = Reading(Put(x, row.field, v))
        BY <2>1, <2>2, ReadScalar
    <2>5. Put(x, row.field, v) = x
        BY <1>1, PutSame
    <2>6. Loop(T, Reading(x), <<t>>) = Reading(x)
        BY <2>4, <2>5, LoopOne
    <2>7. Sized(t)
        BY <1>1, <2>1, <2>2, ScalarSized
    <2>8. <<t>> \in Seq({t})
        OBVIOUS
    <2>9. QED BY <2>3, <2>6, <2>7, <2>8
<1>4. QED BY <1>2, <1>3

\* A default that is written out leaves a field at its default.
LEMMA ExplicitKept ==
    \A T \in MessageTypes : \A row, x :
        IsRow(T, row) /\ IsObject(T, x) /\ x[row.field] = Default(row.type) =>
            Loop(T, Reading(x), ExplicitDefault(row)) = Reading(x)
BY ExplicitRead

\* What a peer may write though this code never does.
DefaultTokens(T) ==
    {t \in {Written1(Row(T, i), Default(Row(T, i).type)) : i \in Rows(T)} : TokenSize(t) \in Nat}

\* A peer writes the fields that have their defaults, too.
LEMMA DefaultsSent ==
    ASSUME NEW T \in MessageTypes, NEW m, IsMsg(T, m), NEW w, w = Schema[T].write,
           NEW p, p = [i \in DOMAIN w |-> ExplicitDefault(w[i])], NEW u, u = Joint(p)
    PROVE  /\ Outcome(Result(T, u \o Serialize(T, m)), WellFormed(T, m), m)
           /\ WireSize(u \o Serialize(T, m)) \in Nat
           /\ ByteSizeLong(T, m) <= WireSize(u \o Serialize(T, m))
<1> PICK n \in Nat : n = Len(w) /\ DOMAIN w = 1 .. n /\ Rows(T) = 1 .. n
    BY RowIs DEF Rows
<1> PICK d : d = Cleared(T)
    OBVIOUS
<1>1. IsMsg(T, d) /\ IsObject(T, d) /\ \A f \in FieldNames(T) : d[f] = Default(FieldType(T, f))
    BY ClearedIs DEF IsMsg
<1> PICK A : A = Tokens(T) \cup DefaultTokens(T)
    OBVIOUS
<1>2. \A t \in A : TokenSize(t) \in Nat
    BY AllSized DEF TokensSized, DefaultTokens
<1>3. Parts(p, n, A)
    <2> SUFFICES ASSUME NEW i \in 1 .. n PROVE p[i] \in Seq(A)
        BY Zenon DEF Parts
    <2> PICK row : row = Row(T, i) /\ row = w[i]
        BY DEF Row
    <2>9. IsRow(T, row)
        BY DEF IsRow
    <2> PICK t : t = Written1(row, Default(row.type))
        OBVIOUS
    <2>0. row.field \in FieldNames(T) /\ row.type = FieldType(T, row.field)
        BY <2>9, RowFacts
    <2>1. d[row.field] = Default(row.type)
        BY <1>1, <2>0
    <2>2. ExplicitDefault(row) \in Seq({t}) /\ (~IsSeq(row.type) => Sized(t))
        BY <1>1, <2>9, <2>1, ExplicitRead
    <2>3. p[i] = ExplicitDefault(row)
        OBVIOUS
    <2>4. CASE IsSeq(row.type)
        <3>1. ExplicitDefault(row) = << >>
            BY <2>4 DEF ExplicitDefault
        <3>2. << >> \in Seq(A)
            OBVIOUS
        <3>3. QED BY <2>3, <3>1, <3>2
    <2>5. CASE ~IsSeq(row.type)
        <3>1. t \in A
            BY <2>2, <2>5 DEF Sized, DefaultTokens
        <3>2. Seq({t}) \subseteq Seq(A)
            BY <3>1
        <3>3. QED BY <2>2, <2>3, <3>2
    <2>6. QED BY <2>4, <2>5
<1> PICK F : F = [i \in DOMAIN w |-> w[i].field]
    OBVIOUS
<1>4. Pieces(T, d, d, p, F, 1 .. n, n)
    <2>1. ASSUME NEW i \in 1 .. n
          PROVE  F[i] \in Fields(T) /\ \A j \in 1 .. n : i # j => F[i] # F[j]
        <3>1. F[i] = Row(T, i).field /\ \A j \in 1 .. n : F[j] = Row(T, j).field
            BY DEF Row
        <3>2. Row(T, i).field \in Fields(T)
            BY RowIs DEF Fields
        <3>3. \A j \in 1 .. n : i # j => Row(T, i).field # Row(T, j).field
            BY RowIs
        <3>4. QED BY <3>1, <3>2, <3>3
    <2>2. ASSUME NEW i \in 1 .. n, NEW x, IsObject(T, x), x[F[i]] = d[F[i]]
          PROVE  Outcome(Loop(T, Reading(x), p[i]), i \in 1 .. n, Put(x, F[i], d[F[i]]))
        <3> PICK row : row = Row(T, i) /\ row = w[i]
            BY DEF Row
        <3>0. IsRow(T, row)
            BY DEF IsRow
        <3>1. F[i] = row.field /\ p[i] = ExplicitDefault(row)
            OBVIOUS
        <3>2. row.field \in FieldNames(T) /\ row.type = FieldType(T, row.field)
            BY <3>0, RowFacts
        <3>3. x[row.field] = Default(row.type)
            BY <1>1, <2>2, <3>1, <3>2
        <3>4. Loop(T, Reading(x), p[i]) = Reading(x)
            <4>1. Loop(T, Reading(x), ExplicitDefault(row)) = Reading(x)
                BY <2>2, <3>0, <3>3, ExplicitKept
            <4>2. QED BY <3>1, <4>1
        <3>5. Put(x, F[i], d[F[i]]) = x
            <4>1. row.field \in Fields(T)
                BY <3>2 DEF Fields
            <4>2. Put(x, F[i], x[F[i]]) = x
                BY <2>2, <3>1, <4>1, PutSame
            <4>3. QED BY <2>2, <4>2
        <3>6. QED BY <3>4, <3>5 DEF Outcome
    <2>3. QED BY <2>1, <2>2 DEF Pieces
<1> PICK v : v = JointTo(p, n)
    OBVIOUS
<1>5. v \in Seq(A)
    BY <1>3, JointType
<1>6. u = v
    <2>1. Len(p) = n
        OBVIOUS
    <2>2. QED BY <2>1 DEF Joint
<1>7. Loop(T, Reading(d), v) = Reading(d)
    <2>1. Outcome(Loop(T, Reading(d), v), \A i \in 1 .. n : i \in 1 .. n, d)
        BY <1>1, <1>3, <1>4, PiecesRead
    <2>2. QED BY <2>1 DEF Outcome
<1> PICK s \in Seq(A) : s = Serialize(T, m)
    <2>1. Serialize(T, m) \in Seq(Tokens(T))
        BY WrittenParts
    <2> PICK l \in Seq(Tokens(T)) : l = Serialize(T, m)
        BY <2>1
    <2>2. Tokens(T) \subseteq A
        OBVIOUS
    <2>3. l \in Seq(A)
        BY <2>2
    <2>4. QED BY <2>3
<1>8. Loop(T, Reading(d), v \o s) = Loop(T, Reading(d), s)
    BY <1>5, <1>7, LoopConcat
<1>9. Outcome(Result(T, s), WellFormed(T, m), m)
    BY Untouched
<1>10. Outcome(Result(T, u \o Serialize(T, m)), WellFormed(T, m), m)
    BY <1>6, <1>8, <1>9 DEF Result, Outcome
<1>11. WireSize(v \o s) \in Nat /\ ByteSizeLong(T, m) <= WireSize(v \o s)
    <2>1. WireSize(v \o s) = WireSize(v) + WireSize(s) /\ WireSize(v) \in Nat
        <3>1. WireSize(v \o s) = WireSize(v) + WireSize(s)
            BY <1>2, <1>5, WireConcat
        <3>2. QED BY <1>2, <1>5, <3>1, WireNat
    <2>2. WireSize(s) = ByteSizeLong(T, m) /\ ByteSizeLong(T, m) \in Nat
        BY ObjectSized
    <2> PICK x \in Nat : x = WireSize(v)
        BY <2>1
    <2> PICK y \in Nat : y = WireSize(s)
        BY <2>2
    <2>3. WireSize(v \o s) = x + y
        BY <2>1
    <2>4. y <= x + y /\ x + y \in Nat
        OBVIOUS
    <2>5. QED BY <2>2, <2>3, <2>4
<1>12. QED BY <1>6, <1>10, <1>11

-----------------------------------------------------------------------------
(* Integers of a width a field does not have *)

Short == {"u32", "i32", "enum", "bool"}

\* A number leads to the row that has it.
LEMMA RowAtIs ==
    \A T \in MessageTypes : \A row : IsRow(T, row) => RowAt(T, row.num) = row
<1> SUFFICES ASSUME NEW T \in MessageTypes, NEW row, IsRow(T, row)
             PROVE  RowAt(T, row.num) = row
    BY Zenon
<1> PICK w : w = Schema[T].write
    OBVIOUS
<1> PICK i \in DOMAIN w : row = w[i]
    BY DEF IsRow, Rows, Row
<1>1. \A j \in DOMAIN w : w[j].num = row.num => j = i
    <2>1. TAKE j \in DOMAIN w
    <2>2. i \in Rows(T) /\ j \in Rows(T) /\ w[i] = Row(T, i) /\ w[j] = Row(T, j)
        BY DEF Rows, Row
    <2>3. i # j => Row(T, i).num # Row(T, j).num
        BY <2>2, RowIs
    <2>4. QED BY <2>2, <2>3
<1>2. (CHOOSE j \in DOMAIN w : w[j].num = row.num) = i
    BY <1>1
<1>3. QED BY <1>2 DEF RowAt

\* The kinds of row that have a width of their own are numbers, one each.
LEMMA ShortIs ==
    \A T \in MessageTypes : \A row :
        IsRow(T, row) /\ row.type.kind \in Short =>
            /\ row.type \in FieldTypes /\ ~row.type.repeated
            /\ ~IsText(row.type) /\ row.type # Rep(U64) /\ ~IsMessage(row.type)
<1> SUFFICES ASSUME NEW T \in MessageTypes, NEW row, IsRow(T, row), row.type.kind \in Short
             PROVE  /\ row.type \in FieldTypes /\ ~row.type.repeated
                    /\ ~IsText(row.type) /\ row.type # Rep(U64) /\ ~IsMessage(row.type)
    BY Zenon
<1> PICK k : k = row.type
    OBVIOUS
<1>1. k.kind # "message"
    BY DEF Short
<1>2. k \in FieldTypes
    BY <1>1, RowKind DEF IsRow, IsMessage
<1>3. k.kind \notin {"u64", "string", "bytes"}
    BY DEF Short
<1>4. ~IsText(k) /\ ~IsMessage(k)
    BY <1>1, <1>3 DEF IsText, IsMessage
<1>5. ~k.repeated
    <2>1. \/ k \in {U64, U32, I32, Enum, Bool, Str, Bytes}
          \/ k \in {Rep(U64), Rep(Str), Rep(Bytes)}
        BY <1>2 DEF FieldTypes
    <2>2. /\ ~U64.repeated /\ ~U32.repeated /\ ~I32.repeated /\ ~Enum.repeated
          /\ ~Bool.repeated /\ ~Str.repeated /\ ~Bytes.repeated
        BY DEF U64, U32, I32, Enum, Bool, Str, Bytes, Kind
    <2>3. Rep(U64).kind = "u64" /\ Rep(Str).kind = "string" /\ Rep(Bytes).kind = "bytes"
        BY DEF Rep, U64, Str, Bytes, Kind
    <2>4. QED BY <1>3, <2>1, <2>2, <2>3
<1>6. k # Rep(U64)
    BY <1>5 DEF Rep
<1>7. QED BY <1>2, <1>4, <1>5, <1>6

\* Only the low bits are read.
LEMMA LowBits ==
    /\ \A x \in Int : 0 <= x /\ x < W64 => ((x + W32) % W64) % W32 = x % W32
    /\ \A x \in Int : 0 <= x /\ x < W32 => (x + W32) % W64 = x + W32
BY SMT DEF W64, W32

\* Bits above a field's own width are cut off.
LEMMA NarrowWide ==
    ASSUME NEW k \in FieldTypes, k.kind \in Short, NEW v \in Scalars(k), v # 0
    PROVE  Narrow(k, ((v % W64) + W32) % W64) = Narrow(k, v % W64)
<1>0. ~IsText(k)
    BY DEF Short, IsText
<1>1. /\ v \in Int
      /\ k.kind = "bool" => v = 1
    BY <1>0, ScalarsAre
<1> PICK x \in Int : x = v % W64 /\ 0 <= x /\ x < W64
    BY <1>1, Remainders
<1>2. ((x + W32) % W64) % W32 = x % W32
    BY LowBits
<1>3. CASE k.kind = "bool"
    <2>1. x = 1
        BY <1>1, <1>3, SMT DEF W64
    <2>2. (x + W32) % W64 # 0
        BY <2>1, SMT DEF W64, W32
    <2>3. QED BY <1>3, <2>1, <2>2 DEF Narrow
<1>4. CASE k.kind # "bool"
    <2>1. k.kind # "u64"
        BY DEF Short
    <2>2. QED BY <1>2, <1>4, <2>1, SMT DEF Narrow
<1>5. QED BY <1>3, <1>4
\* The tokens of a row have its number.
LEMMA TokenNum ==
    ASSUME NEW row, NEW t \in RowTokens(row)
    PROVE  t.num = row.num
<1>1. CASE IsMessage(row.type)
    <2> PICK m \in PlainMessages(row.type.of) :
                 t = Nested(row.num, SerializePlain(row.type.of, m))
        BY <1>1 DEF RowTokens
    <2>1. QED BY DEF Nested
<1>2. CASE ~IsMessage(row.type) /\ row.type = Rep(U64)
    <2> PICK v \in PlainValues(row.type) : t = Packed(row.num, v)
        BY <1>2 DEF RowTokens
    <2>1. QED BY DEF Packed
<1>3. CASE ~IsMessage(row.type) /\ row.type # Rep(U64)
    <2> PICK v \in Scalars(row.type) : t = Written1(row, v)
        BY <1>3 DEF RowTokens
    <2>1. QED BY DEF Written1, Text, Varint
<1>4. QED BY <1>1, <1>2, <1>3

\* A short number that is written, and what a wider one would be.
LEMMA ShortToken ==
    ASSUME NEW T \in MessageTypes, NEW row, IsRow(T, row), row.type.kind \in Short,
           NEW t \in RowTokens(row)
    PROVE  \E v \in Scalars(row.type) :
               /\ v # 0 /\ t = Varint(row.num, v)
               /\ Widened(T, t) = Varint(row.num, t.number + W32)
               /\ t.number = v % W64
<1>1. /\ row.type \in FieldTypes /\ ~row.type.repeated
      /\ ~IsText(row.type) /\ row.type # Rep(U64) /\ ~IsMessage(row.type)
    BY ShortIs
<1>2. Default(row.type) = 0
    BY <1>1 DEF Default, IsSeq
<1> PICK v \in Scalars(row.type) : v # 0 /\ t = Written1(row, v)
    BY <1>1, <1>2 DEF RowTokens
<1>3. t = Varint(row.num, v)
    BY <1>1 DEF Written1
<1>4. t.num = row.num /\ t.number = v % W64
    BY <1>3 DEF Varint
<1>5. RowAt(T, t.num) = row
    BY <1>4, RowAtIs
<1>6. Widened(T, t) = Varint(row.num, t.number + W32)
    BY <1>4, <1>5 DEF Widened, Short
<1>7. QED BY <1>3, <1>4, <1>6

\* Any other token is left alone.
LEMMA LongToken ==
    ASSUME NEW T \in MessageTypes, NEW row, IsRow(T, row), row.type.kind \notin Short,
           NEW t \in RowTokens(row)
    PROVE  Widened(T, t) = t
<1>1. RowAt(T, t.num) = row
    BY TokenNum, RowAtIs
<1>2. QED BY <1>1 DEF Widened, Short

\* A wider integer is read as the one it was made of.
LEMMA WideRead ==
    ASSUME NEW T \in MessageTypes, NEW row, IsRow(T, row), NEW t \in RowTokens(row), NEW q
    PROVE  ReadToken(T, q, Widened(T, t)) = ReadToken(T, q, t)
<1>1. CASE row.type.kind \notin Short
    BY <1>1, LongToken
<1>2. CASE row.type.kind \in Short
    <2> PICK v \in Scalars(row.type) :
                 /\ v # 0 /\ t = Varint(row.num, v)
                 /\ Widened(T, t) = Varint(row.num, t.number + W32)
                 /\ t.number = v % W64
        BY <1>2, ShortToken
    <2> PICK u : u = Widened(T, t)
        OBVIOUS
    <2>1. /\ t.num = row.num /\ u.num = row.num /\ t.wireType = 0 /\ u.wireType = 0
          /\ u.number = (t.number + W32) % W64
        BY DEF Varint
    <2>2. Cases(T, u) = Cases(T, t) /\ RowFor(T, u) = RowFor(T, t) /\ TagOf(u) = TagOf(t)
        BY <2>1, ZenonT(60) DEF Cases, RowFor, TagOf, CasesIn
    <2>3. /\ row.type \in FieldTypes /\ ~row.type.repeated
          /\ ~IsText(row.type) /\ row.type # Rep(U64) /\ ~IsMessage(row.type)
        BY <1>2, ShortIs
    <2> PICK i \in Rows(T) : row = Row(T, i)
        BY DEF IsRow
    <2>4. Cases(T, t) # {} /\ RowFor(T, t).type = row.type
        <3>1. t.wireType \in WrittenAs(row.type)
            BY <2>1, <2>3 DEF WrittenAs
        <3>2. QED BY <2>1, <3>1, KnownRow
    <2> PICK p : p = RowFor(T, t)
        OBVIOUS
    <2>5. Narrow(row.type, u.number) = Narrow(row.type, t.number)
        <3>1. Narrow(row.type, ((v % W64) + W32) % W64) = Narrow(row.type, v % W64)
            BY <1>2, <2>3, NarrowWide
        <3>2. QED BY <2>1, <3>1
    <2>6. row.type.kind # "string"
        BY <2>3 DEF IsText
    <2>7. ReadField(p, q, t) = Store(p, q, Narrow(row.type, t.number))
        BY <2>3, <2>4, <2>6 DEF ReadField, ReadPlain, Nest
    <2>8. ReadField(p, q, u) = Store(p, q, Narrow(row.type, u.number))
        BY <2>3, <2>4, <2>6 DEF ReadField, ReadPlain, Nest
    <2>9. ReadField(p, q, u) = ReadField(p, q, t)
        BY <2>5, <2>7, <2>8
    <2>10. ReadToken(T, q, u) = ReadToken(T, q, t)
        BY <2>2, <2>4, <2>9 DEF ReadToken, ReadTag
    <2>11. QED BY <2>10
<1>3. QED BY <1>1, <1>2
KnownTokens(T) == UNION {RowTokens(Row(T, i)) : i \in Rows(T)}

\* An object without unknown fields is written row by row.
RowByRow(T, m, q, n) ==
    /\ n \in Nat /\ Rows(T) = 1 .. n /\ Len(q) = n
    /\ \A i \in 1 .. n : /\ q[i] = WriteField(Row(T, i), m[Row(T, i).field])
                         /\ m[Row(T, i).field] \in Values(Row(T, i).type)
                         /\ q[i] \in Seq(RowTokens(Row(T, i)))
    /\ Serialize(T, m) = JointTo(q, n)
    /\ Serialize(T, m) \in Seq(KnownTokens(T))

\* An object without unknown fields is written row by row.
LEMMA RowsWritten ==
    ASSUME NEW T \in MessageTypes, NEW m, IsMsg(T, m), m.unknown = << >>
    PROVE  \E q, n : RowByRow(T, m, q, n)
<1> PICK w : w = Schema[T].write
    OBVIOUS
<1> PICK n \in Nat : n = Len(w) /\ DOMAIN w = 1 .. n /\ Rows(T) = 1 .. n
    BY RowIs DEF Rows
<1> PICK q : q = [i \in DOMAIN w |-> WriteField(w[i], m[w[i].field])]
    OBVIOUS
<1>1. /\ Serialize(T, m) = JointTo(q, n) \o m.unknown
      /\ Parts(q, n, Tokens(T))
    BY WrittenParts
<1>2. ASSUME NEW i \in 1 .. n
      PROVE  /\ q[i] = WriteField(Row(T, i), m[Row(T, i).field])
             /\ m[Row(T, i).field] \in Values(Row(T, i).type)
             /\ q[i] \in Seq(RowTokens(Row(T, i)))
    <2>1. q[i] = WriteField(Row(T, i), m[Row(T, i).field])
        BY DEF Row
    <2>2. Row(T, i).field \in FieldNames(T) /\ Row(T, i).type = FieldType(T, Row(T, i).field)
        BY RowIs
    <2>3. m[Row(T, i).field] \in Values(Row(T, i).type)
        BY <2>2 DEF IsMsg
    <2>4. Row(T, i).type \in FieldTypes \/ IsMessage(Row(T, i).type)
        BY RowKind
    <2>5. QED BY <2>1, <2>3, <2>4, WrittenTokens
<1> PICK A : A = KnownTokens(T)
    OBVIOUS
<1>3. Parts(q, n, A)
    <2> SUFFICES ASSUME NEW i \in 1 .. n PROVE q[i] \in Seq(A)
        BY Zenon DEF Parts
    <2>1. RowTokens(Row(T, i)) \subseteq A
        BY DEF KnownTokens
    <2> PICK x \in Seq(RowTokens(Row(T, i))) : x = q[i]
        BY <1>2
    <2>2. x \in Seq(A)
        BY <2>1
    <2>3. QED BY <2>2
<1> PICK u \in Seq(A) : u = JointTo(q, n)
    BY <1>3, JointType
<1>4. u \o m.unknown = u
    BY ConcatEmptySeq
<1>5. Serialize(T, m) = u
    BY <1>1, <1>4
<1>6. Len(q) = n
    OBVIOUS
<1>7. RowByRow(T, m, q, n)
    BY <1>2, <1>5, <1>6 DEF RowByRow
<1>8. QED BY <1>7

Wide(T, w) == [i \in DOMAIN w |-> Widened(T, w[i])]

\* A peer that writes wider integers is understood.
LEMMA WideSent ==
    ASSUME NEW T \in MessageTypes, NEW m, IsMsg(T, m), m.unknown = << >>
    PROVE  Outcome(Result(T, Wide(T, Serialize(T, m))), WellFormed(T, m), m)
<1> PICK w \in Seq(KnownTokens(T)) : w = Serialize(T, m)
    BY RowsWritten DEF RowByRow
<1> PICK n \in Nat : n = Len(w) /\ DOMAIN w = 1 .. n
    BY LenProperties
<1> PICK v : v = Wide(T, w)
    OBVIOUS
<1>1. Len(v) = n /\ \A i \in 1 .. n : v[i] = Widened(T, w[i])
    BY DEF Wide
<1>2. ASSUME NEW i \in 1 .. n, NEW q PROVE ReadToken(T, q, v[i]) = ReadToken(T, q, w[i])
    <2>1. w[i] \in KnownTokens(T)
        BY ElementOfSeq
    <2> PICK j \in Rows(T) : w[i] \in RowTokens(Row(T, j))
        BY <2>1 DEF KnownTokens
    <2>2. IsRow(T, Row(T, j))
        BY DEF IsRow
    <2>3. ReadToken(T, q, Widened(T, w[i])) = ReadToken(T, q, w[i])
        BY <2>2, WideRead
    <2>4. QED BY <1>1, <2>3
<1>3. LoopTo(T, Reading(Cleared(T)), v, n) = LoopTo(T, Reading(Cleared(T)), w, n)
    BY <1>2, LoopAgree
<1>4. Result(T, v) = Result(T, w)
    BY <1>1, <1>3 DEF Result, Loop
<1>5. Outcome(Result(T, w), WellFormed(T, m), m)
    BY Untouched
<1>6. QED BY <1>4, <1>5 DEF Outcome
\* The tokens a wider integer makes no shorter.
Longer(T) ==
    {t \in KnownTokens(T) :
        /\ TokenSize(t) \in Nat /\ TokenSize(Widened(T, t)) \in Nat
        /\ TokenSize(t) <= TokenSize(Widened(T, t))}

\* A wider integer is no shorter.
LEMMA WideNumber ==
    ASSUME NEW num \in Nat, NEW v \in Int, 0 <= v, v < W32, NEW t, t = Varint(num, v),
           NEW u, u = Varint(num, t.number + W32)
    PROVE  TokenSize(t) \in Nat /\ TokenSize(u) \in Nat /\ TokenSize(t) <= TokenSize(u)
<1>1. v % W64 = v
    BY Remainders
<1>2. t.number = v
    BY <1>1 DEF Varint
<1> PICK x \in Nat : x = v + W32
    BY SMT DEF W32
<1>3. x % W64 = x
    <2>1. (v + W32) % W64 = v + W32
        BY LowBits
    <2>2. QED BY <2>1
<1>4. u = Varint(num, x)
    BY <1>2
<1>5. TokenSize(t) = TagBytes(num) + VarintSize(v)
    BY <1>1, TokenSizes
<1>6. TokenSize(u) = TagBytes(num) + VarintSize(x)
    <2>1. TokenSize(Varint(num, x)) = TagBytes(num) + VarintSize(x % W64)
        BY TokenSizes
    <2>2. QED BY <1>3, <1>4, <2>1
<1>7. v \in Nat /\ v <= x
    BY SMT DEF W32
<1>8. VarintSize(v) <= VarintSize(x)
    BY <1>7, VarintSizeIs
<1> PICK p \in Nat : p = TagBytes(num)
    <2>1. TagBytes(num) \in 1 .. 4
        BY VarintSizeIs DEF TagBytes
    <2>2. QED BY <2>1
<1> PICK a \in Nat : a = VarintSize(v)
    <2>1. VarintSize(v) \in 1 .. 4
        BY VarintSizeIs
    <2>2. QED BY <2>1
<1> PICK b \in Nat : b = VarintSize(x)
    <2>1. VarintSize(x) \in 1 .. 4
        BY VarintSizeIs
    <2>2. QED BY <2>1
<1>9. TokenSize(t) = p + a /\ TokenSize(u) = p + b /\ a <= b
    BY <1>5, <1>6, <1>8
<1>10. QED BY <1>9

\* What is written for a field is of that kind, unless it is a negative int32.
LEMMA WideRow ==
    ASSUME NEW T \in MessageTypes, NEW i \in Rows(T), NEW row, row = Row(T, i),
           NEW v \in Values(row.type), row.type = I32 => 0 <= v
    PROVE  WriteField(row, v) \in Seq(Longer(T))
<1>0. IsRow(T, row) /\ RowTokens(row) \subseteq KnownTokens(T)
    BY DEF IsRow, KnownTokens
<1>1. row.num \in Nat
    BY <1>0, RowFacts
<1> PICK x \in Seq(RowTokens(row)) : x = WriteField(row, v)
    <2>1. row.type \in FieldTypes \/ IsMessage(row.type)
        BY RowKind
    <2>2. QED BY <2>1, WrittenTokens
<1>2. CASE row.type.kind \notin Short
    <2>1. ASSUME NEW t \in RowTokens(row) PROVE t \in Longer(T)
        <3>1. Widened(T, t) = t
            BY <1>0, <1>2, LongToken
        <3>2. t \in Tokens(T) /\ t \in KnownTokens(T)
            BY <1>0 DEF Tokens, KnownTokens
        <3>3. TokenSize(t) \in Nat
            BY <3>2, AllSized DEF TokensSized
        <3>4. QED BY <3>1, <3>2, <3>3 DEF Longer
    <2>2. RowTokens(row) \subseteq Longer(T)
        BY <2>1
    <2>3. x \in Seq(Longer(T))
        BY <2>2
    <2>4. QED BY <2>3
<1>3. CASE row.type.kind \in Short
    <2>1. /\ row.type \in FieldTypes /\ ~row.type.repeated
          /\ ~IsText(row.type) /\ row.type # Rep(U64) /\ ~IsMessage(row.type)
        BY <1>0, <1>3, ShortIs
    <2>2. Default(row.type) = 0
        BY <2>1 DEF Default, IsSeq
    <2>3. v \in Scalars(row.type)
        BY <2>1 DEF Values, PlainValues
    <2>4. WriteField(row, v) = IF v = 0 THEN << >> ELSE << Written1(row, v) >>
        BY <2>1, <2>2 DEF WriteField, WritePlain, Written1
    <2>5. CASE v = 0
        <3>1. << >> \in Seq(Longer(T))
            OBVIOUS
        <3>2. QED BY <2>4, <2>5, <3>1
    <2>6. CASE v # 0
        <3> PICK t : t = Written1(row, v)
            OBVIOUS
        <3>1. t \in RowTokens(row)
            BY <2>1, <2>2, <2>3, <2>6 DEF RowTokens
        <3>2. t = Varint(row.num, v)
            BY <2>1 DEF Written1
        <3> PICK u : u = Widened(T, t)
            OBVIOUS
        <3>3. u = Varint(row.num, t.number + W32)
            BY <1>0, <1>3, <3>1, ShortToken
        <3>4. v \in Int /\ 0 <= v /\ v < W32
            <4>1. /\ v \in Int
                  /\ row.type.kind = "u32" => 0 <= v /\ v < W32
                  /\ row.type.kind = "bool" => v \in {0, 1}
                  /\ row.type.kind = "enum" => 0 <= v /\ v < 8192
                  /\ row.type.kind = "i32" => v < 8192
                BY <2>1, <2>3, ScalarsAre
            <4>2. row.type.kind = "i32" => row.type = I32
                <5>1. /\ U64.kind = "u64" /\ U32.kind = "u32"
                      /\ Enum.kind = "enum" /\ Bool.kind = "bool"
                      /\ Str.kind = "string" /\ Bytes.kind = "bytes"
                    BY DEF U64, U32, Enum, Bool, Str, Bytes, Kind
                <5>2. Rep(U64).kind = "u64" /\ Rep(Str).kind = "string" /\ Rep(Bytes).kind = "bytes"
                    BY DEF Rep, U64, Str, Bytes, Kind
                <5>3. \/ row.type \in {U64, U32, I32, Enum, Bool, Str, Bytes}
                      \/ row.type \in {Rep(U64), Rep(Str), Rep(Bytes)}
                    BY <2>1 DEF FieldTypes
                <5>4. QED BY <5>1, <5>2, <5>3
            <4>3. 0 <= v
                BY <1>3, <4>1, <4>2 DEF Short
            <4>4. v < W32
                BY <1>3, <4>1, SMT DEF Short, W32
            <4>5. QED BY <4>1, <4>3, <4>4
        <3>5. TokenSize(t) \in Nat /\ TokenSize(u) \in Nat /\ TokenSize(t) <= TokenSize(u)
            BY <1>1, <3>2, <3>3, <3>4, WideNumber
        <3>6. t \in Longer(T)
            BY <1>0, <3>1, <3>5 DEF Longer
        <3>7. <<t>> \in Seq(Longer(T))
            BY <3>6
        <3>8. QED BY <2>4, <2>6, <3>7
    <2>7. QED BY <2>5, <2>6
<1>4. QED BY <1>2, <1>3
\* No int32 of an object is negative.
NoneNegative(T, m) == \A f \in FieldNames(T) : FieldType(T, f) = I32 => 0 <= m[f]

\* Wider integers make no message shorter, unless they cut off a sign.
LEMMA WideSize ==
    ASSUME NEW T \in MessageTypes, NEW m, IsMsg(T, m), m.unknown = << >>, NoneNegative(T, m)
    PROVE  /\ WireSize(Wide(T, Serialize(T, m))) \in Nat
           /\ ByteSizeLong(T, m) <= WireSize(Wide(T, Serialize(T, m)))
<1> PICK q, n : RowByRow(T, m, q, n)
    BY RowsWritten
<1>1. n \in Nat /\ Rows(T) = 1 .. n /\ Serialize(T, m) = JointTo(q, n)
    BY DEF RowByRow
<1> PICK A : A = Longer(T)
    OBVIOUS
<1>2. Parts(q, n, A)
    <2> SUFFICES ASSUME NEW i \in 1 .. n PROVE q[i] \in Seq(A)
        BY Zenon DEF Parts
    <2>1. i \in Rows(T) /\ q[i] = WriteField(Row(T, i), m[Row(T, i).field])
          /\ m[Row(T, i).field] \in Values(Row(T, i).type)
        BY <1>1 DEF RowByRow
    <2>2. Row(T, i).field \in FieldNames(T) /\ Row(T, i).type = FieldType(T, Row(T, i).field)
        BY <2>1, RowIs
    <2>3. Row(T, i).type = I32 => 0 <= m[Row(T, i).field]
        BY <2>2 DEF NoneNegative
    <2>4. QED BY <2>1, <2>3, WideRow
<1> PICK w \in Seq(A) : w = Serialize(T, m)
    BY <1>1, <1>2, JointType
<1> PICK k \in Nat : k = Len(w) /\ DOMAIN w = 1 .. k
    BY LenProperties
<1> PICK v : v = Wide(T, w)
    OBVIOUS
<1> PICK s : s = [i \in DOMAIN w |-> TokenSize(w[i])]
    OBVIOUS
<1> PICK t : t = [i \in DOMAIN v |-> TokenSize(v[i])]
    OBVIOUS
<1>3. DOMAIN v = 1 .. k /\ Len(v) = k /\ \A i \in 1 .. k : v[i] = Widened(T, w[i])
    BY DEF Wide
<1>4. Below(s, t, k)
    <2> SUFFICES ASSUME NEW i \in 1 .. k PROVE s[i] \in Nat /\ t[i] \in Nat /\ s[i] <= t[i]
        BY Zenon DEF Below
    <2>1. w[i] \in A
        BY ElementOfSeq
    <2>2. s[i] = TokenSize(w[i]) /\ t[i] = TokenSize(Widened(T, w[i]))
        BY <1>3
    <2>3. QED BY <2>1, <2>2 DEF Longer
<1>5. SumTo(s, k) <= SumTo(t, k) /\ SumTo(t, k) \in Nat
    <2>1. SumTo(s, k) <= SumTo(t, k)
        BY <1>4, SumLess
    <2>2. \A i \in 1 .. k : t[i] \in Nat
        BY <1>4 DEF Below
    <2>3. QED BY <2>1, <2>2, SumNat
<1>6. Len(s) = k /\ Len(t) = k
    BY <1>3
<1>7. WireSize(w) = SumTo(s, k) /\ WireSize(v) = SumTo(t, k)
    BY <1>6 DEF WireSize, SumOf
<1>8. WireSize(w) = ByteSizeLong(T, m)
    BY ObjectSized
<1>9. QED BY <1>5, <1>7, <1>8

-----------------------------------------------------------------------------
(* Lists of numbers that are not packed *)

\* Objects whose lists of numbers are lists.
Lists(T, x) ==
    /\ IsObject(T, x)
    /\ \A f \in FieldNames(T) : FieldType(T, f) = Rep(U64) => x[f] \in Seq(Scalars(Rep(U64)))

\* A list of numbers, packed, is read as one.
LEMMA PackedRead ==
    ASSUME NEW T \in MessageTypes, NEW row, IsRow(T, row), row.type = Rep(U64), NEW x, NEW v
    PROVE  ReadToken(T, Reading(x), Packed(row.num, v))
               = Reading(Put(x, row.field, x[row.field] \o v))
<1> PICK i \in Rows(T) : row = Row(T, i)
    BY DEF IsRow
<1> PICK k \in FieldTypes : k = row.type
    BY DEF FieldTypes
<1>1. k.kind = "u64" /\ k.repeated /\ ~IsText(k) /\ ~IsMessage(k)
    BY KindIs
<1> PICK t : t = Packed(row.num, v)
    OBVIOUS
<1>3. t.num = row.num /\ t.wireType = 2 /\ t.numbers = v /\ "numbers" \in DOMAIN t
    BY DEF Packed
<1>4. 2 \in WrittenAs(k)
    BY <1>1 DEF WrittenAs
<1>6. ReadToken(T, Reading(x), t) = ReadField(row, Reading(x), t)
    BY <1>3, <1>4, ReadKnown
<1>7. ReadField(row, Reading(x), t) = ReadPlain(row, Reading(x), t)
    BY <1>1 DEF ReadField, Nest
<1>8. ReadPlain(row, Reading(x), t) = Reading(Put(x, row.field, x[row.field] \o v))
    <2>1. Reading(x).msg = x
        BY DEF Reading, State
    <2>2. QED BY <1>1, <1>3, <2>1 DEF ReadPlain, Reading, Put
<1>9. QED BY <1>6, <1>7, <1>8

\* So it is when its numbers come one by one.
LEMMA OneByOne ==
    ASSUME NEW T \in MessageTypes, NEW row, IsRow(T, row), row.type = Rep(U64),
           NEW x, IsObject(T, x), x[row.field] \in Seq(Scalars(row.type)),
           NEW v \in Seq(Scalars(row.type)),
           NEW p, p = [j \in DOMAIN v |-> Varint(row.num, v[j])]
    PROVE  Loop(T, Reading(x), p) = Reading(Put(x, row.field, x[row.field] \o v))
<1> PICK i \in Rows(T) : row = Row(T, i)
    BY DEF IsRow
<1> PICK k \in FieldTypes : k = row.type
    BY DEF FieldTypes
<1>1. k.kind = "u64" /\ k.repeated /\ ~IsText(k)
    BY KindIs
<1> PICK f \in Fields(T) : f = row.field
    BY RowFacts
<1> PICK B : B = Scalars(k)
    OBVIOUS
<1> PICK n \in Nat : n = Len(v) /\ DOMAIN v = 1 .. n
    BY LenProperties
<1> PICK G : G = 1 .. n
    OBVIOUS
<1>2. \A j \in 1 .. n : v[j] \in B
    BY ElementOfSeq
<1>4. Len(p) = n /\ \A j \in 1 .. n : p[j] = Varint(row.num, v[j])
    OBVIOUS
<1>5. Elements(T, f, B, p, v, G)
    <2> SUFFICES ASSUME NEW j \in 1 .. Len(v), NEW y, IsObject(T, y), y[f] \in Seq(B)
                 PROVE  Outcome(ReadToken(T, Reading(y), p[j]), j \in G,
                                Put(y, f, Append(y[f], v[j])))
        BY Zenon DEF Elements
    <2>1. v[j] \in Scalars(row.type)
        BY <1>2
    <2>2. ReadToken(T, Reading(y), Written1(row, v[j])) =
              IF row.type.kind = "string" /\ ~v[j].utf8 THEN State("failed", y)
              ELSE Reading(Put(y, row.field, IF row.type.repeated THEN Append(y[row.field], v[j])
                                             ELSE v[j]))
        BY <2>1, ReadScalar
    <2>3. p[j] = Written1(row, v[j])
        BY <1>1, <1>4 DEF Written1
    <2>4. ReadToken(T, Reading(y), p[j]) = Reading(Put(y, f, Append(y[f], v[j])))
        BY <1>1, <2>2, <2>3
    <2>5. QED BY <2>4 DEF Outcome
<1>6. Outcome(LoopTo(T, Reading(x), p, Len(v)), \A j \in 1 .. Len(v) : j \in G,
              Put(x, f, x[f] \o v))
    BY <1>5, ListRead
<1>7. LoopTo(T, Reading(x), p, n) = Reading(Put(x, f, x[f] \o v))
    BY <1>6 DEF Outcome
<1>8. QED BY <1>4, <1>7 DEF Loop
\* Whatever a token of a row is, only the field of that row is put.
LEMMA ReadPuts ==
    ASSUME NEW T \in MessageTypes, NEW row, IsRow(T, row), NEW t \in RowTokens(row), NEW x,
           NEW r, r = ReadToken(T, Reading(x), t)
    PROVE  r.status = "reading" => \E v : r = Reading(Put(x, row.field, v))
<1> PICK i \in Rows(T) : row = Row(T, i)
    BY DEF IsRow
<1> PICK k : k = row.type
    OBVIOUS
<1>1. \/ k \in FieldTypes /\ ~IsMessage(k)
      \/ IsMessage(k) /\ k \in {Msg(k.of), Rep(Msg(k.of))}
    BY RowKind
<1>2. t.num = row.num /\ t.wireType \in WrittenAs(k)
    <2>1. CASE IsMessage(k)
        <3>1. t.num = row.num /\ t.wireType = 2
            BY <2>1 DEF RowTokens, Nested
        <3>2. QED BY <2>1, <3>1 DEF WrittenAs
    <2>2. CASE ~IsMessage(k) /\ k = Rep(U64)
        <3>1. t.num = row.num /\ t.wireType = 2
            BY <2>2 DEF RowTokens, Packed
        <3>2. k.repeated
            BY <2>2 DEF Rep
        <3>3. QED BY <3>1, <3>2 DEF WrittenAs
    <2>3. CASE ~IsMessage(k) /\ k # Rep(U64)
        <3> PICK v : t = Written1(row, v)
            BY <2>3 DEF RowTokens
        <3>1. t.num = row.num /\ t.wireType = IF IsText(k) THEN 2 ELSE 0
            BY DEF Written1, Text, Varint
        <3>2. QED BY <2>3, <3>1 DEF WrittenAs
    <2>4. QED BY <2>1, <2>2, <2>3
<1>3. r = ReadField(row, Reading(x), t)
    BY <1>2, ReadKnown
<1>4. \A v : \E z : Store(row, Reading(x), v) = Reading(Put(x, row.field, z))
    BY StoreIs
<1>5. \A z : State("failed", z).status # "reading"
    BY DEF State
<1>6. \A z : State("reading", [Reading(x).msg EXCEPT ![row.field] = @ \o z])
                 = Reading(Put(x, row.field, x[row.field] \o z))
    <2>1. Reading(x).msg = x
        BY DEF Reading, State
    <2>2. QED BY <2>1 DEF Reading, Put
<1>7. CASE IsMessage(k)
    <2>1. \/ \E v : r = Store(row, Reading(x), v)
          \/ r = State("failed", Reading(x).msg)
        BY <1>3, <1>7 DEF ReadField, Nest
    <2>2. QED BY <1>4, <1>5, <2>1
<1>8. CASE ~IsMessage(k)
    <2>1. r = ReadPlain(row, Reading(x), t)
        BY <1>3, <1>8 DEF ReadField, Nest
    <2>2. \/ \E v : r = Store(row, Reading(x), v)
          \/ r = State("failed", Reading(x).msg)
          \/ \E z : r = State("reading", [Reading(x).msg EXCEPT ![row.field] = @ \o z])
        BY <2>1 DEF ReadPlain
    <2>3. QED BY <1>4, <1>5, <1>6, <2>2
<1>9. QED BY <1>7, <1>8

\* What is put into a field that is no list of numbers leaves these alone.
LEMMA ListsKept ==
    ASSUME NEW T \in MessageTypes, NEW row, IsRow(T, row), NEW x, Lists(T, x), NEW v,
           row.type = Rep(U64) => v \in Seq(Scalars(Rep(U64)))
    PROVE  Lists(T, Put(x, row.field, v))
<1> PICK y : y = Put(x, row.field, v)
    OBVIOUS
<1>1. row.field \in Fields(T) /\ row.type = FieldType(T, row.field)
    BY RowFacts
<1>2. IsPut(T, x, row.field, v, y)
    BY <1>1, PutIs DEF Lists
<1>3. ASSUME NEW f \in FieldNames(T), FieldType(T, f) = Rep(U64)
      PROVE  y[f] \in Seq(Scalars(Rep(U64)))
    <2>1. CASE f = row.field
        BY <1>1, <1>2, <1>3, <2>1 DEF IsPut
    <2>2. CASE f # row.field
        <3>1. f \in Fields(T)
            BY DEF Fields
        <3>2. y[f] = x[f]
            BY <1>2, <2>2, <3>1 DEF IsPut
        <3>3. QED BY <1>3, <3>2 DEF Lists
    <2>3. QED BY <2>1, <2>2
<1>4. QED BY <1>2, <1>3 DEF Lists, IsPut

\* One token, or what a peer that does not pack makes of it, comes to the same.
LEMMA UnpackedRead ==
    ASSUME NEW T \in MessageTypes, NEW t \in KnownTokens(T), NEW x, Lists(T, x),
           NEW r, r = ReadToken(T, Reading(x), t)
    PROVE  /\ Loop(T, Reading(x), Unpacked(t)) = r
           /\ r.status = "reading" => \E y : r = Reading(y) /\ Lists(T, y)
<1> PICK row : IsRow(T, row) /\ t \in RowTokens(row)
    BY DEF KnownTokens, IsRow
<1> PICK k : k = row.type
    OBVIOUS
<1>1. row.field \in FieldNames(T) /\ row.type = FieldType(T, row.field)
    BY RowFacts
<1>2. CASE k = Rep(U64)
    <2>1. ~IsMessage(k)
        BY <1>2, KindIs DEF FieldTypes
    <2>2. k.repeated
        BY <1>2 DEF Rep
    <2> PICK v \in Seq(Scalars(k)) : t = Packed(row.num, v)
        BY <1>2, <2>1, <2>2 DEF RowTokens, PlainValues
    <2> PICK p : p = [j \in DOMAIN v |-> Varint(row.num, v[j])]
        OBVIOUS
    <2>3. Unpacked(t) = p
        <3>1. "numbers" \in DOMAIN t /\ t.numbers = v /\ t.num = row.num
            BY DEF Packed
        <3>2. QED BY <3>1 DEF Unpacked
    <2>4. IsObject(T, x) /\ x[row.field] \in Seq(Scalars(k))
        BY <1>1, <1>2 DEF Lists
    <2>5. Loop(T, Reading(x), p) = Reading(Put(x, row.field, x[row.field] \o v))
        <3>1. x[row.field] \in Seq(Scalars(row.type)) /\ v \in Seq(Scalars(row.type))
            BY <2>4
        <3>2. row.type = Rep(U64) /\ IsObject(T, x)
            BY <1>2, <2>4
        <3>3. QED BY <3>1, <3>2, OneByOne
    <2>6. r = Reading(Put(x, row.field, x[row.field] \o v))
        BY <1>2, PackedRead
    <2>7. x[row.field] \o v \in Seq(Scalars(k))
        BY <2>4, ConcatProperties
    <2>8. Lists(T, Put(x, row.field, x[row.field] \o v))
        BY <1>2, <2>7, ListsKept
    <2>9. QED BY <2>3, <2>5, <2>6, <2>8
<1>3. CASE k # Rep(U64)
    <2>1. "numbers" \notin DOMAIN t
        <3>1. CASE IsMessage(k)
            BY <3>1 DEF RowTokens, Nested
        <3>2. CASE ~IsMessage(k)
            <4> PICK v : t = Written1(row, v)
                BY <1>3, <3>2 DEF RowTokens
            <4>1. QED BY DEF Written1, Text, Varint
        <3>3. QED BY <3>1, <3>2
    <2>2. Unpacked(t) = << t >>
        BY <2>1 DEF Unpacked
    <2>3. Loop(T, Reading(x), << t >>) = r
        BY LoopOne
    <2>4. ASSUME r.status = "reading" PROVE \E y : r = Reading(y) /\ Lists(T, y)
        <3> PICK v : r = Reading(Put(x, row.field, v))
            BY <2>4, ReadPuts
        <3>1. Lists(T, Put(x, row.field, v))
            BY <1>3, ListsKept
        <3>2. QED BY <3>1
    <2>5. QED BY <2>2, <2>3, <2>4
<1>4. QED BY <1>2, <1>3
\* The tokens of a peer that does not pack.
LooseTokens(T) == UNION {{Unpacked(t)[j] : j \in DOMAIN Unpacked(t)} : t \in KnownTokens(T)}

\* What becomes of a token when lists are not packed.
LEMMA UnpackedSeq ==
    ASSUME NEW T \in MessageTypes, NEW t \in KnownTokens(T)
    PROVE  Unpacked(t) \in Seq(LooseTokens(T))
<1> PICK A : A = LooseTokens(T)
    OBVIOUS
<1> PICK p : p = Unpacked(t)
    OBVIOUS
<1>1. \A j \in DOMAIN p : p[j] \in A
    BY DEF LooseTokens
<1> PICK row : IsRow(T, row) /\ t \in RowTokens(row)
    BY DEF KnownTokens, IsRow
<1> PICK k : k = row.type
    OBVIOUS
<1>2. CASE k = Rep(U64)
    <2>1. ~IsMessage(k)
        BY <1>2, KindIs DEF FieldTypes
    <2>2. k.repeated
        BY <1>2 DEF Rep
    <2> PICK v \in Seq(Scalars(k)) : t = Packed(row.num, v)
        BY <1>2, <2>1, <2>2 DEF RowTokens, PlainValues
    <2>3. p = [j \in DOMAIN v |-> Varint(row.num, v[j])]
        <3>1. "numbers" \in DOMAIN t /\ t.numbers = v /\ t.num = row.num
            BY DEF Packed
        <3>2. QED BY <3>1 DEF Unpacked
    <2>4. DOMAIN v = 1 .. Len(v)
        BY LenProperties
    <2>5. p = [j \in DOMAIN v |-> p[j]]
        BY <2>3
    <2>6. \A j \in 1 .. Len(v) : p[j] \in A
        BY <1>1, <2>4, <2>5
    <2>7. p \in Seq(A)
        BY <2>5, <2>6, MappedSeq
    <2>8. QED BY <2>7
<1>3. CASE k # Rep(U64)
    <2>1. "numbers" \notin DOMAIN t
        <3>1. CASE IsMessage(k)
            BY <3>1 DEF RowTokens, Nested
        <3>2. CASE ~IsMessage(k)
            <4> PICK v : t = Written1(row, v)
                BY <1>3, <3>2 DEF RowTokens
            <4>1. QED BY DEF Written1, Text, Varint
        <3>3. QED BY <3>1, <3>2
    <2>2. p = << t >>
        BY <2>1 DEF Unpacked
    <2>3. t \in A
        BY <1>1, <2>2
    <2>4. QED BY <2>2, <2>3
<1>4. QED BY <1>2, <1>3

Loose(w) == [i \in DOMAIN w |-> Unpacked(w[i])]

\* Token by token, both encodings are read alike.
LEMMA LooseRead ==
    ASSUME NEW T \in MessageTypes, NEW w \in Seq(KnownTokens(T)), NEW x, Lists(T, x)
    PROVE  Loop(T, Reading(x), Joint(Loose(w))) = Loop(T, Reading(x), w)
<1> PICK n \in Nat : n = Len(w) /\ DOMAIN w = 1 .. n
    BY LenProperties
<1> PICK u : u = Loose(w)
    OBVIOUS
<1> PICK A : A = LooseTokens(T)
    OBVIOUS
<1> PICK r : r = Reading(x)
    OBVIOUS
<1>1. Len(u) = n /\ \A i \in 1 .. n : u[i] = Unpacked(w[i])
    BY DEF Loose
<1>2. \A i \in 1 .. n : w[i] \in KnownTokens(T)
    BY ElementOfSeq
<1>3. \A i \in 1 .. n : u[i] \in Seq(A)
    BY <1>1, <1>2, UnpackedSeq
<1> DEFINE Good(q) == q.status = "reading" => \E y : q = Reading(y) /\ Lists(T, y)
           Sofar(k) == k <= n => /\ Loop(T, r, JointTo(u, k)) = LoopTo(T, r, w, k)
                                 /\ Good(LoopTo(T, r, w, k))
           D == {k \in Nat : Sofar(k)}
<1>4. Sofar(0)
    <2>1. JointTo(u, 0) = << >>
        BY JointNone
    <2>2. Loop(T, r, << >>) = r
        BY LoopEmpty
    <2>3. LoopTo(T, r, w, 0) = r
        BY LoopNone
    <2>4. Good(r)
        OBVIOUS
    <2> HIDE DEF Good
    <2>5. QED BY <2>1, <2>2, <2>3, <2>4
<1>5. ASSUME NEW k \in Nat, Sofar(k) PROVE Sofar(k + 1)
    <2> SUFFICES ASSUME k + 1 <= n
                 PROVE  /\ Loop(T, r, JointTo(u, k + 1)) = LoopTo(T, r, w, k + 1)
                        /\ Good(LoopTo(T, r, w, k + 1))
        BY Zenon
    <2> PICK q : q = LoopTo(T, r, w, k)
        OBVIOUS
    <2>1. Loop(T, r, JointTo(u, k)) = q /\ Good(q)
        BY <1>5
    <2> HIDE DEF Good
    <2>2. k + 1 \in 1 .. n
        OBVIOUS
    <2> PICK t \in KnownTokens(T) : t = w[k + 1]
        BY <1>2, <2>2
    <2> PICK p \in Seq(A) : p = u[k + 1]
        BY <1>3, <2>2
    <2> PICK j \in Seq(A) : j = JointTo(u, k)
        <3>1. Parts(u, k, A)
            BY <1>3 DEF Parts
        <3>2. QED BY <3>1, JointType
    <2>3. JointTo(u, k + 1) = j \o p
        BY JointNext
    <2>4. Loop(T, r, j \o p) = Loop(T, q, p)
        <3>1. Loop(T, r, j \o p) = Loop(T, Loop(T, r, j), p)
            BY LoopConcat
        <3>2. QED BY <2>1, <3>1
    <2>5. LoopTo(T, r, w, k + 1) = ReadToken(T, q, t)
        BY LoopNext
    <2>6. p = Unpacked(t)
        BY <1>1, <2>2
    <2>7. CASE q.status = "reading"
        <3> PICK y : q = Reading(y) /\ Lists(T, y)
            BY <2>1, <2>7 DEF Good
        <3> PICK s : s = ReadToken(T, Reading(y), t)
            OBVIOUS
        <3>1. /\ Loop(T, Reading(y), Unpacked(t)) = s
              /\ s.status = "reading" => \E z : s = Reading(z) /\ Lists(T, z)
            BY UnpackedRead
        <3>2. Loop(T, q, p) = s
            BY <2>6, <3>1
        <3>3. Good(s)
            BY <3>1 DEF Good
        <3>4. LoopTo(T, r, w, k + 1) = s
            BY <2>5
        <3>5. Loop(T, r, JointTo(u, k + 1)) = s
            BY <2>3, <2>4, <3>2
        <3>6. QED BY <3>3, <3>4, <3>5
    <2>8. CASE q.status # "reading"
        <3>1. Loop(T, q, p) = q
            <4>1. Len(p) \in Nat
                BY LenProperties
            <4>2. QED BY <2>8, <4>1, LoopStopped DEF Loop
        <3>2. ReadToken(T, q, t) = q
            BY <2>8 DEF ReadToken, ReadTag
        <3>3. LoopTo(T, r, w, k + 1) = q
            BY <2>5, <3>2
        <3>4. Loop(T, r, JointTo(u, k + 1)) = q
            BY <2>3, <2>4, <3>1
        <3>5. QED BY <2>1, <3>3, <3>4
    <2>9. QED BY <2>7, <2>8
<1> HIDE DEF Sofar
<1>6. Nat \subseteq D
    <2>1. 0 \in D
        BY <1>4
    <2>2. \A k \in Nat : k \in D => k + 1 \in D
        BY <1>5
    <2> HIDE DEF D
    <2>3. QED BY <2>1, <2>2, Induct
<1>7. Sofar(n)
    BY <1>6
<1>8. Loop(T, r, JointTo(u, n)) = LoopTo(T, r, w, n)
    BY <1>7 DEF Sofar
<1>9. QED BY <1>1, <1>8 DEF Joint, Loop

\* A peer that does not pack its lists is understood.
LEMMA UnpackedSent ==
    ASSUME NEW T \in MessageTypes, NEW m, IsMsg(T, m), m.unknown = << >>
    PROVE  Outcome(Result(T, Joint(Loose(Serialize(T, m)))), WellFormed(T, m), m)
<1> PICK w \in Seq(KnownTokens(T)) : w = Serialize(T, m)
    BY RowsWritten DEF RowByRow
<1> PICK x : x = Cleared(T)
    OBVIOUS
<1>1. IsMsg(T, x)
    BY ClearedIs
<1>2. Lists(T, x)
    <2> SUFFICES ASSUME NEW f \in FieldNames(T), FieldType(T, f) = Rep(U64)
                 PROVE  x[f] \in Seq(Scalars(Rep(U64)))
        BY <1>1, Zenon DEF Lists, IsMsg
    <2>1. x[f] \in Values(Rep(U64))
        BY <1>1 DEF IsMsg
    <2>2. ~IsMessage(Rep(U64))
        BY KindIs DEF FieldTypes
    <2>3. Rep(U64).repeated
        BY DEF Rep
    <2>4. QED BY <2>1, <2>2, <2>3 DEF Values, PlainValues
<1>3. Loop(T, Reading(x), Joint(Loose(w))) = Loop(T, Reading(x), w)
    BY <1>2, LooseRead
<1>4. Result(T, Joint(Loose(w))) = Result(T, w)
    BY <1>3 DEF Result
<1>5. Outcome(Result(T, w), WellFormed(T, m), m)
    BY Untouched
<1>6. QED BY <1>4, <1>5 DEF Outcome

-----------------------------------------------------------------------------
(* Everything in the opposite order *)

\* A sequence backwards.
LEMMA BackIs ==
    ASSUME NEW A, NEW x \in Seq(A)
    PROVE  /\ Backwards(x) \in Seq(A) /\ Len(Backwards(x)) = Len(x)
           /\ \A i \in 1 .. Len(x) : Backwards(x)[i] = x[Len(x) + 1 - i]
<1> PICK n \in Nat : n = Len(x) /\ DOMAIN x = 1 .. n
    BY LenProperties
<1> PICK y : y = Backwards(x)
    OBVIOUS
<1>1. y = [i \in DOMAIN x |-> y[i]] /\ \A i \in 1 .. n : y[i] = x[n + 1 - i]
    BY DEF Backwards
<1>2. \A i \in 1 .. n : y[i] \in A
    <2> SUFFICES ASSUME NEW i \in 1 .. n PROVE y[i] \in A
        OBVIOUS
    <2>1. n + 1 - i \in 1 .. n
        OBVIOUS
    <2>2. x[n + 1 - i] \in A
        BY <2>1, ElementOfSeq
    <2>3. QED BY <1>1, <2>2
<1>3. y \in Seq(A) /\ Len(y) = Len(x)
    BY <1>1, <1>2, MappedSeq
<1>4. QED BY <1>1, <1>3

\* At most one element stays where it is.
LEMMA BackShort ==
    ASSUME NEW A, NEW x \in Seq(A), Len(x) <= 1
    PROVE  Backwards(x) = x
<1> PICK n \in {0, 1} : n = Len(x) /\ DOMAIN x = 1 .. n
    <2>1. Len(x) \in Nat /\ DOMAIN x = 1 .. Len(x)
        BY LenProperties
    <2>2. QED BY <2>1
<1>1. \A i \in 1 .. n : x[n + 1 - i] = x[i]
    <2> SUFFICES ASSUME NEW i \in 1 .. n PROVE x[n + 1 - i] = x[i]
        OBVIOUS
    <2>1. n + 1 - i = i
        OBVIOUS
    <2>2. QED BY <2>1
<1>2. x = [i \in 1 .. n |-> x[i]]
    OBVIOUS
<1>3. Backwards(x) = [i \in 1 .. n |-> x[n + 1 - i]]
    BY DEF Backwards
<1>4. QED BY <1>1, <1>2, <1>3

\* Of two sequences the second comes first.
LEMMA BackConcat ==
    ASSUME NEW A, NEW x \in Seq(A), NEW y \in Seq(A)
    PROVE  Backwards(x \o y) = Backwards(y) \o Backwards(x)
<1>n. PICK n \in Nat : n = Len(x)
    BY LenProperties
<1>m. PICK m \in Nat : m = Len(y)
    BY LenProperties
<1>z. PICK z \in Seq(A) : z = x \o y
    BY ConcatProperties
<1>1. Len(z) = n + m /\ (\A i \in 1 .. n : z[i] = x[i]) /\ \A i \in 1 .. m : z[n + i] = y[i]
    BY <1>n, <1>m, <1>z, ConcatProperties
<1>a. PICK a \in Seq(A) : a = Backwards(x)
    BY BackIs
<1>b. PICK b \in Seq(A) : b = Backwards(y)
    BY BackIs
<1>c. PICK c \in Seq(A) : c = Backwards(z)
    BY BackIs
<1>d. PICK d \in Seq(A) : d = b \o a
    BY ConcatProperties
<1>2. Len(a) = n /\ \A i \in 1 .. n : a[i] = x[n + 1 - i]
    BY <1>n, <1>a, BackIs
<1>3. Len(b) = m /\ \A i \in 1 .. m : b[i] = y[m + 1 - i]
    BY <1>m, <1>b, BackIs
<1>4. Len(c) = n + m /\ \A i \in 1 .. n + m : c[i] = z[n + m + 1 - i]
    <2>1. Len(c) = Len(z) /\ \A i \in 1 .. Len(z) : c[i] = z[Len(z) + 1 - i]
        BY <1>z, <1>c, BackIs
    <2>2. QED BY <1>1, <2>1
<1>5. Len(d) = n + m /\ (\A i \in 1 .. m : d[i] = b[i]) /\ \A i \in 1 .. n : d[m + i] = a[i]
    <2>1. Len(d) = Len(b) + Len(a)
        BY <1>a, <1>b, <1>d, ConcatProperties
    <2>2. \A i \in 1 .. Len(b) : d[i] = b[i]
        BY <1>a, <1>b, <1>d, ConcatProperties
    <2>3. \A i \in 1 .. Len(a) : d[Len(b) + i] = a[i]
        BY <1>a, <1>b, <1>d, ConcatProperties
    <2>4. QED BY <1>2, <1>3, <2>1, <2>2, <2>3
<1>6. ASSUME NEW i \in 1 .. m PROVE c[i] = d[i]
    <2>1. i \in 1 .. n + m /\ m + 1 - i \in 1 .. m /\ n + m + 1 - i = n + (m + 1 - i)
        OBVIOUS
    <2>2. c[i] = y[m + 1 - i]
        BY <1>1, <1>4, <2>1
    <2>3. QED BY <1>3, <1>5, <2>2
<1>7. ASSUME NEW i \in 1 .. n PROVE c[m + i] = d[m + i]
    <2>1. m + i \in 1 .. n + m /\ n + 1 - i \in 1 .. n /\ n + m + 1 - (m + i) = n + 1 - i
        OBVIOUS
    <2>2. c[m + i] = x[n + 1 - i]
        BY <1>1, <1>4, <2>1
    <2>3. QED BY <1>2, <1>5, <2>2
<1>8. ASSUME NEW i \in 1 .. n + m PROVE c[i] = d[i]
    <2>1. CASE i <= m
        <3>1. i \in 1 .. m
            BY <2>1
        <3>2. QED BY <1>6, <3>1
    <2>2. CASE ~(i <= m)
        <3>j. PICK j \in 1 .. n : m + j = i
            <4>1. i - m \in 1 .. n /\ m + (i - m) = i
                BY <2>2
            <4>2. QED BY <4>1
        <3>1. c[m + j] = d[m + j]
            BY <1>7
        <3>2. QED BY <3>j, <3>1
    <2>3. QED BY <2>1, <2>2
<1>9. c = d
    BY <1>c, <1>d, <1>4, <1>5, <1>8, SeqEqual
<1>10. QED BY <1>9, <1>a, <1>b, <1>c, <1>d, <1>z

\* The first part and the others.
LEMMA JointFirst ==
    ASSUME NEW A, NEW s, NEW n \in Nat, Parts(s, n, A), NEW k \in Nat, k < n,
           NEW t, \A i \in 1 .. k : t[i] = s[i + 1]
    PROVE  JointTo(s, k + 1) = s[1] \o JointTo(t, k)
<1> DEFINE Sofar(j) == j <= k => JointTo(s, j + 1) = s[1] \o JointTo(t, j)
           D == {j \in Nat : Sofar(j)}
<1>1. s[1] \in Seq(A)
    <2>1. 1 \in 1 .. n
        OBVIOUS
    <2>2. QED BY <2>1 DEF Parts
<1>2. Parts(t, k, A)
    <2> SUFFICES ASSUME NEW i \in 1 .. k PROVE t[i] \in Seq(A)
        BY Zenon DEF Parts
    <2>1. i + 1 \in 1 .. n
        OBVIOUS
    <2>2. s[i + 1] \in Seq(A)
        BY <2>1 DEF Parts
    <2>3. QED BY <2>2
<1>3. Sofar(0)
    <2>1. JointTo(s, 0 + 1) = JointTo(s, 0) \o s[0 + 1] /\ 0 + 1 = 1
        BY JointNext
    <2>2. JointTo(s, 0) = << >> /\ JointTo(t, 0) = << >>
        BY JointNone
    <2>y. PICK y \in Seq(A) : y = s[1]
        BY <1>1
    <2>3. << >> \o y = y /\ y \o << >> = y
        BY ConcatEmptySeq
    <2>4. QED BY <2>1, <2>2, <2>y, <2>3
<1>4. ASSUME NEW j \in Nat, Sofar(j) PROVE Sofar(j + 1)
    <2> SUFFICES ASSUME j + 1 <= k PROVE JointTo(s, (j + 1) + 1) = s[1] \o JointTo(t, j + 1)
        OBVIOUS
    <2>1. JointTo(s, j + 1) = s[1] \o JointTo(t, j)
        BY <1>4
    <2>2. JointTo(s, (j + 1) + 1) = JointTo(s, j + 1) \o s[(j + 1) + 1]
        <3>l. PICK l \in Nat : l = j + 1
            OBVIOUS
        <3>1. JointTo(s, l + 1) = JointTo(s, l) \o s[l + 1]
            BY JointNext
        <3>2. QED BY <3>l, <3>1
    <2>3. JointTo(t, j + 1) = JointTo(t, j) \o t[j + 1]
        BY JointNext
    <2>4. t[j + 1] = s[(j + 1) + 1] /\ t[j + 1] \in Seq(A)
        <3>1. j + 1 \in 1 .. k
            OBVIOUS
        <3>2. QED BY <1>2, <3>1 DEF Parts
    <2>5. JointTo(t, j) \in Seq(A)
        <3>1. Parts(t, j, A)
            BY <1>2 DEF Parts
        <3>2. QED BY <3>1, JointType
    <2>6. Regroup(s[1], JointTo(t, j), t[j + 1])
        BY <1>1, <2>4, <2>5, Regrouped
    <2>7. QED BY <2>1, <2>2, <2>3, <2>4, <2>6 DEF Regroup
<1> HIDE DEF Sofar
<1>5. Nat \subseteq D
    <2>1. 0 \in D
        BY <1>3
    <2>2. \A j \in Nat : j \in D => j + 1 \in D
        BY <1>4
    <2> HIDE DEF D
    <2>3. QED BY <2>1, <2>2, Induct
<1>6. Sofar(k)
    BY <1>5
<1>7. QED BY <1>6 DEF Sofar

\* The parts, each backwards, from the last to the first.
Flipped(p, q, n) == \A i \in 1 .. n : p[i] = Backwards(q[n + 1 - i])

\* Parts put together and turned are the turned parts, from the last to the
\* first.
LEMMA BackJoint ==
    ASSUME NEW A, NEW n \in Nat, NEW q, Parts(q, n, A), NEW p, Flipped(p, q, n)
    PROVE  Backwards(JointTo(q, n)) = JointTo(p, n)
<1> DEFINE Sofar(k) == k <= n => \A t : Flipped(t, q, k) => Backwards(JointTo(q, k)) = JointTo(t, k)
           D == {k \in Nat : Sofar(k)}
<1>1. Sofar(0)
    <2>1. \A t : JointTo(t, 0) = << >>
        BY JointNone
    <2>2. Backwards(<< >>) = << >>
        <3>1. << >> \in Seq({}) /\ Len(<< >>) <= 1
            OBVIOUS
        <3>2. QED BY <3>1, BackShort
    <2>3. JointTo(q, 0) = << >>
        BY <2>1
    <2>4. QED BY <2>1, <2>2, <2>3
<1>2. ASSUME NEW k \in Nat, Sofar(k) PROVE Sofar(k + 1)
    <2> SUFFICES ASSUME k + 1 <= n, NEW t, Flipped(t, q, k + 1)
                 PROVE  Backwards(JointTo(q, k + 1)) = JointTo(t, k + 1)
        BY Zenon
    <2> PICK j \in Seq(A) : j = JointTo(q, k)
        <3>1. Parts(q, k, A)
            BY DEF Parts
        <3>2. QED BY <3>1, JointType
    <2> PICK x \in Seq(A) : x = q[k + 1]
        BY DEF Parts
    <2> PICK s : s = [i \in 1 .. k |-> t[1 + i]]
        OBVIOUS
    <2>1. JointTo(q, k + 1) = j \o x
        BY JointNext
    <2>2. Backwards(j \o x) = Backwards(x) \o Backwards(j)
        BY BackConcat
    <2>3. Flipped(s, q, k)
        <3> SUFFICES ASSUME NEW i \in 1 .. k PROVE s[i] = Backwards(q[k + 1 - i])
            BY Zenon DEF Flipped
        <3>1. 1 + i \in 1 .. k + 1 /\ k + 1 + 1 - (1 + i) = k + 1 - i
            OBVIOUS
        <3>2. t[1 + i] = Backwards(q[k + 1 - i])
            BY <3>1 DEF Flipped
        <3>3. QED BY <3>2
    <2>4. Backwards(j) = JointTo(s, k)
        BY <1>2, <2>3
    <2>5. t[1] = Backwards(x)
        <3>1. 1 \in 1 .. k + 1 /\ k + 1 + 1 - 1 = k + 1
            OBVIOUS
        <3>2. t[1] = Backwards(q[k + 1 + 1 - 1])
            BY <3>1 DEF Flipped
        <3>3. QED BY <3>1, <3>2
    <2>6. Parts(t, k + 1, A)
        <3> SUFFICES ASSUME NEW i \in 1 .. k + 1 PROVE t[i] \in Seq(A)
            BY Zenon DEF Parts
        <3>1. k + 1 + 1 - i \in 1 .. n
            OBVIOUS
        <3>2. t[i] = Backwards(q[k + 1 + 1 - i])
            BY <3>1 DEF Flipped
        <3>3. q[k + 1 + 1 - i] \in Seq(A)
            BY <3>1 DEF Parts
        <3>4. QED BY <3>2, <3>3, BackIs
    <2>7. JointTo(t, k + 1) = t[1] \o JointTo(s, k)
        <3>j. PICK l \in Nat : l = k + 1
            OBVIOUS
        <3>1. Parts(t, l, A) /\ k < l
            BY <2>6, <3>j
        <3>2. \A i \in 1 .. k : s[i] = t[i + 1]
            OBVIOUS
        <3>3. QED BY <3>1, <3>2, JointFirst, ZenonT(60)
    <2>8. QED BY <2>1, <2>2, <2>4, <2>5, <2>7
<1> HIDE DEF Sofar
<1>3. Nat \subseteq D
    <2>1. 0 \in D
        BY <1>1
    <2>2. \A k \in Nat : k \in D => k + 1 \in D
        BY <1>2
    <2> HIDE DEF D
    <2>3. QED BY <2>1, <2>2, Induct
<1>4. Sofar(n)
    BY <1>3
<1>5. QED BY <1>4 DEF Sofar
\* The elements stay the same.
LEMMA BackElems ==
    ASSUME NEW B, NEW v \in Seq(B)
    PROVE  Elems(Backwards(v)) = Elems(v)
<1>n. PICK n \in Nat : n = Len(v) /\ DOMAIN v = 1 .. n
    BY LenProperties
<1>u. PICK u \in Seq(B) : u = Backwards(v)
    BY BackIs
<1>1. Len(u) = n /\ \A i \in 1 .. n : u[i] = v[n + 1 - i]
    BY <1>n, <1>u, BackIs
<1>2. DOMAIN u = 1 .. n
    BY <1>1, LenProperties
<1>3. \A i \in 1 .. n : n + 1 - i \in 1 .. n /\ n + 1 - (n + 1 - i) = i
    OBVIOUS
<1>4. Elems(u) \subseteq Elems(v)
    BY <1>n, <1>1, <1>2, <1>3, SMTT(30) DEF Elems
<1>5. Elems(v) \subseteq Elems(u)
    <2> SUFFICES ASSUME NEW i \in 1 .. n PROVE v[i] \in Elems(u)
        BY <1>n DEF Elems
    <2>1. u[n + 1 - i] = v[i]
        BY <1>1, <1>3
    <2>2. QED BY <1>2, <1>3, <2>1 DEF Elems
<1>6. QED BY <1>u, <1>4, <1>5

\* What is written of each of them, too.
LEMMA BackMapped ==
    ASSUME NEW B, NEW v \in Seq(B), NEW g
    PROVE  Backwards(Mapped(g, v)) = Mapped(g, Backwards(v))
<1>n. PICK n \in Nat : n = Len(v) /\ DOMAIN v = 1 .. n
    BY LenProperties
<1>u. PICK u \in Seq(B) : u = Backwards(v)
    BY BackIs
<1>1. Len(u) = n /\ \A i \in 1 .. n : u[i] = v[n + 1 - i]
    BY <1>n, <1>u, BackIs
<1>2. DOMAIN u = 1 .. n
    BY <1>1, LenProperties
<1>w. PICK w : w = [i \in 1 .. n |-> g[v[i]]]
    OBVIOUS
<1>3. Len(w) = n /\ DOMAIN w = 1 .. n
    BY <1>w
<1>4. \A i \in 1 .. n : w[n + 1 - i] = g[u[i]]
    <2> SUFFICES ASSUME NEW i \in 1 .. n PROVE w[n + 1 - i] = g[u[i]]
        OBVIOUS
    <2>1. n + 1 - i \in 1 .. n
        OBVIOUS
    <2>2. w[n + 1 - i] = g[v[n + 1 - i]]
        BY <1>w, <2>1
    <2>3. QED BY <1>1, <2>2
<1>5. Backwards(w) = [i \in 1 .. n |-> w[n + 1 - i]]
    BY <1>3 DEF Backwards
<1>6. Mapped(g, u) = [i \in 1 .. n |-> g[u[i]]]
    BY <1>2 DEF Mapped
<1>7. Backwards(w) = Mapped(g, u)
    BY <1>4, <1>5, <1>6
<1>8. w = Mapped(g, v)
    BY <1>n, <1>w DEF Mapped
<1>9. QED BY <1>u, <1>7, <1>8

\* A list comes out of its tokens in the order in which they come.
RowTurned(row) ==
    \A v \in Values(row.type) :
        /\ Turned(row.type, v) \in Values(row.type)
        /\ WriteField(row, Turned(row.type, v)) = Backwards(WriteField(row, v))
        /\ FineValue(row.type, Turned(row.type, v)) <=> FineValue(row.type, v)

\* One token at most: there is nothing to turn.
LEMMA NotTurned ==
    ASSUME NEW row, row.type \in FieldTypes \/ IsMessage(row.type), NEW v \in Values(row.type),
           ~row.type.repeated \/ row.type = Rep(U64)
    PROVE  Turned(row.type, v) = v /\ Backwards(WriteField(row, v)) = WriteField(row, v)
<1>1. Turned(row.type, v) = v
    BY DEF Turned
<1>w. PICK w \in Seq(RowTokens(row)) : w = WriteField(row, v)
    BY WrittenTokens
<1>2. Len(w) <= 1
    <2>1. CASE IsMessage(row.type)
        <3>1. ~row.type.repeated
            <4>1. Rep(U64) \in FieldTypes
                BY DEF FieldTypes
            <4>2. row.type # Rep(U64)
                BY <2>1, <4>1, KindIs
            <4>3. QED BY <4>2
        <3>2. v \in Seq(PlainMessages(row.type.of)) /\ Len(v) <= 1
            BY <2>1, <3>1 DEF Values
        <3>3. DOMAIN w = DOMAIN v
            BY <1>w, <2>1 DEF WriteField
        <3>4. Len(w) = Len(v)
            BY <3>2, <3>3, LenProperties
        <3>5. QED BY <3>2, <3>4
    <2>2. CASE ~IsMessage(row.type)
        <3>1. w = WritePlain(row, v)
            BY <1>w, <2>2 DEF WriteField
        <3>2. w = << >> \/ \E t : w = <<t>>
            BY <3>1 DEF WritePlain
        <3>3. CASE w = << >>
            <4>1. Len(<< >>) = 0
                OBVIOUS
            <4>2. QED BY <3>3, <4>1
        <3>4. CASE \E t : w = <<t>>
            <4>t. PICK t : w = <<t>>
                BY <3>4
            <4>1. Len(<<t>>) = 1
                OBVIOUS
            <4>2. QED BY <4>t, <4>1
        <3>5. QED BY <3>2, <3>3, <3>4
    <2>3. QED BY <2>1, <2>2
<1>3. Backwards(w) = w
    BY <1>2, BackShort
<1>4. QED BY <1>1, <1>3, <1>w
\* A list that is written element by element.
LEMMA ListTurned ==
    ASSUME NEW row, row.type.repeated, row.type # Rep(U64), NEW B, Values(row.type) = Seq(B),
           NEW g, \A s \in Seq(B) : WriteField(row, s) = Mapped(g, s),
           NEW G, \A s \in Seq(B) : FineValue(row.type, s) <=> Elems(s) \subseteq G
    PROVE  RowTurned(row)
<1> SUFFICES ASSUME NEW v \in Values(row.type)
             PROVE  /\ Turned(row.type, v) \in Values(row.type)
                    /\ WriteField(row, Turned(row.type, v)) = Backwards(WriteField(row, v))
                    /\ FineValue(row.type, Turned(row.type, v)) <=> FineValue(row.type, v)
    BY Zenon DEF RowTurned
<1>1. v \in Seq(B)
    OBVIOUS
<1>u. PICK u \in Seq(B) : u = Backwards(v)
    BY <1>1, BackIs
<1>2. Turned(row.type, v) = u
    BY <1>u DEF Turned
<1>3. WriteField(row, u) = Backwards(WriteField(row, v))
    <2>1. WriteField(row, u) = Mapped(g, u) /\ WriteField(row, v) = Mapped(g, v)
        BY <1>1, <1>u
    <2>2. Backwards(Mapped(g, v)) = Mapped(g, Backwards(v))
        BY <1>1, BackMapped
    <2>3. QED BY <1>u, <2>1, <2>2
<1>4. FineValue(row.type, u) <=> FineValue(row.type, v)
    <2>1. Elems(u) = Elems(v)
        BY <1>1, <1>u, BackElems
    <2>2. (FineValue(row.type, u) <=> Elems(u) \subseteq G)
          /\ (FineValue(row.type, v) <=> Elems(v) \subseteq G)
        BY <1>1, <1>u
    <2>3. QED BY <2>1, <2>2
<1>5. QED BY <1>2, <1>3, <1>4, <1>u

\* Every field is read from its tokens turned, a list in the order it then
\* has.
LEMMA EveryRowTurned ==
    ASSUME NEW T \in MessageTypes, NEW i \in Rows(T), NEW row, row = Row(T, i)
    PROVE  RowTurned(row)
<1>k. PICK k : k = row.type
    OBVIOUS
<1>1. \/ k \in FieldTypes /\ ~IsMessage(k)
      \/ IsMessage(k) /\ k \in {Msg(k.of), Rep(Msg(k.of))}
    BY <1>k, RowKind
<1>2. CASE ~k.repeated \/ k = Rep(U64)
    <2>1. \A v \in Values(k) :
            Turned(k, v) = v /\ Backwards(WriteField(row, v)) = WriteField(row, v)
        BY <1>1, <1>2, <1>k, NotTurned
    <2>2. QED BY <1>k, <2>1 DEF RowTurned
<1>3. CASE k.repeated /\ k # Rep(U64) /\ k \in FieldTypes /\ ~IsMessage(k)
    <2>B. PICK B : B = Scalars(k)
        OBVIOUS
    <2>g. PICK g : g = [b \in B |-> Written1(row, b)]
        OBVIOUS
    <2>G. PICK G : G = {b \in B : k.kind = "string" => b.utf8}
        OBVIOUS
    <2>1. Values(k) = Seq(B)
        BY <1>3, <2>B DEF Values, PlainValues
    <2>2. ASSUME NEW s \in Seq(B)
          PROVE  /\ WriteField(row, s) = Mapped(g, s)
                 /\ FineValue(k, s) <=> Elems(s) \subseteq G
        <3>n. PICK n \in Nat : DOMAIN s = 1 .. n /\ \A j \in 1 .. n : s[j] \in B
            <4>1. Len(s) \in Nat /\ DOMAIN s = 1 .. Len(s) /\ \A j \in 1 .. Len(s) : s[j] \in B
                BY LenProperties, ElementOfSeq
            <4>2. QED BY <4>1
        <3>1. Mapped(g, s) = [j \in DOMAIN s |-> Written1(row, s[j])]
            BY <2>g, <3>n DEF Mapped
        <3>2. WriteField(row, s) = WritePlain(row, s)
            BY <1>3, <1>k DEF WriteField
        <3>3. Default(k) = << >>
            BY <1>3 DEF Default, IsSeq
        <3>4. WritePlain(row, s) = IF s = << >> THEN << >> ELSE Mapped(g, s)
            BY <1>3, <1>k, <3>1, <3>3 DEF WritePlain, Written1
        <3>5. s = << >> => Mapped(g, s) = << >>
            BY DEF Mapped
        <3>6. FineValue(k, s) <=> (k.kind = "string" => \A j \in DOMAIN s : s[j].utf8)
            BY <1>3 DEF FineValue, FinePlain
        <3>7. Elems(s) \subseteq G <=> \A j \in DOMAIN s : k.kind = "string" => s[j].utf8
            BY <2>G, <3>n DEF Elems
        <3>8. QED BY <3>2, <3>4, <3>5, <3>6, <3>7
    <2>3. QED BY <1>3, <1>k, <2>1, <2>2, ListTurned
<1>4. CASE k.repeated /\ k # Rep(U64) /\ IsMessage(k)
    <2>B. PICK B : B = PlainMessages(k.of)
        OBVIOUS
    <2>g. PICK g : g = [b \in B |-> Nested(row.num, SerializePlain(k.of, b))]
        OBVIOUS
    <2>G. PICK G : G = {b \in B : WellPlain(k.of, b)}
        OBVIOUS
    <2>1. Values(k) = Seq(B)
        BY <1>4, <2>B DEF Values
    <2>2. ASSUME NEW s \in Seq(B)
          PROVE  /\ WriteField(row, s) = Mapped(g, s)
                 /\ FineValue(k, s) <=> Elems(s) \subseteq G
        <3>n. PICK n \in Nat : DOMAIN s = 1 .. n /\ \A j \in 1 .. n : s[j] \in B
            <4>1. Len(s) \in Nat /\ DOMAIN s = 1 .. Len(s) /\ \A j \in 1 .. Len(s) : s[j] \in B
                BY LenProperties, ElementOfSeq
            <4>2. QED BY <4>1
        <3>1. Mapped(g, s) = [j \in DOMAIN s |-> Nested(row.num, SerializePlain(k.of, s[j]))]
            BY <2>g, <3>n DEF Mapped
        <3>2. WriteField(row, s) = Mapped(g, s)
            BY <1>4, <1>k, <3>1 DEF WriteField
        <3>3. FineValue(k, s) <=> \A j \in DOMAIN s : WellPlain(k.of, s[j])
            BY <1>4 DEF FineValue
        <3>4. Elems(s) \subseteq G <=> \A j \in DOMAIN s : WellPlain(k.of, s[j])
            BY <2>G, <3>n DEF Elems
        <3>5. QED BY <3>2, <3>3, <3>4
    <2>3. QED BY <1>4, <1>k, <2>1, <2>2, ListTurned
<1>5. QED BY <1>1, <1>2, <1>3, <1>4
\* The object with its lists turned is one, too.
LEMMA TurnedIs ==
    ASSUME NEW T \in MessageTypes, NEW m, IsMsg(T, m), m.unknown = << >>,
           NEW c, c = ReadAs(T, m, "reversed")
    PROVE  /\ IsMsg(T, c) /\ c.unknown = << >> /\ (WellFormed(T, c) <=> WellFormed(T, m))
           /\ \A i \in Rows(T) :
                 WriteField(Row(T, i), c[Row(T, i).field])
                     = Backwards(WriteField(Row(T, i), m[Row(T, i).field]))
<1>1. /\ IsObject(T, c) /\ c.unknown = << >>
      /\ \A f \in FieldNames(T) : c[f] = Turned(FieldType(T, f), m[f])
    <2>1. /\ IsObject(T, c)
          /\ c.unknown = IF "reversed" = "unknown" THEN Strays ELSE m.unknown
          /\ \A f \in FieldNames(T) :
                c[f] = IF "reversed" = "reversed" THEN Turned(FieldType(T, f), m[f]) ELSE m[f]
        BY ReadAsIs
    <2>2. "reversed" # "unknown"
        OBVIOUS
    <2>3. QED BY <2>1, <2>2
<1>2. ASSUME NEW i \in Rows(T), NEW row, row = Row(T, i), NEW f, f = row.field
      PROVE  /\ c[f] \in Values(row.type)
             /\ WriteField(row, c[f]) = Backwards(WriteField(row, m[f]))
             /\ FineValue(row.type, c[f]) <=> FineValue(row.type, m[f])
    <2>1. f \in FieldNames(T) /\ row.type = FieldType(T, f)
        BY <1>2, RowIs
    <2>2. m[f] \in Values(row.type)
        BY <2>1 DEF IsMsg
    <2>3. RowTurned(row)
        BY <1>2, EveryRowTurned
    <2>4. c[f] = Turned(row.type, m[f])
        BY <1>1, <2>1
    <2>5. QED BY <2>2, <2>3, <2>4 DEF RowTurned
<1>3. ASSUME NEW f \in FieldNames(T)
      PROVE  /\ c[f] \in Values(FieldType(T, f))
             /\ FineValue(FieldType(T, f), c[f]) <=> FineValue(FieldType(T, f), m[f])
    <2>i. PICK i \in Rows(T) : Row(T, i).field = f
        BY RowIs
    <2>1. Row(T, i).type = FieldType(T, f)
        BY <2>i, RowIs
    <2>2. /\ c[f] \in Values(Row(T, i).type)
          /\ FineValue(Row(T, i).type, c[f]) <=> FineValue(Row(T, i).type, m[f])
        BY <1>2, <2>i
    <2>3. QED BY <2>1, <2>2
<1>4. c.unknown \in Seq(StrayTokens)
    <2>1. << >> \in Seq(StrayTokens)
        OBVIOUS
    <2>2. QED BY <1>1, <2>1
<1>5. IsMsg(T, c)
    BY <1>1, <1>3, <1>4 DEF IsMsg
<1>6. WellFormed(T, c) <=> WellFormed(T, m)
    BY <1>3 DEF WellFormed
<1>7. QED BY <1>1, <1>2, <1>5, <1>6

\* Pieces may be put in the opposite order as well.
Mirror(p, q, n) == \A i \in 1 .. n : p[i] = q[n + 1 - i]
MirrorSet(H, G, n) == \A i \in 1 .. n : i \in H <=> (n + 1 - i) \in G

\* Pieces in the opposite order are pieces, since each has a field of its
\* own.
LEMMA PiecesMirror ==
    ASSUME NEW T, NEW a, NEW c, NEW q, NEW F, NEW G, NEW n \in Nat, Pieces(T, a, c, q, F, G, n),
           NEW p, Mirror(p, q, n), NEW E, Mirror(E, F, n), NEW H, MirrorSet(H, G, n)
    PROVE  Pieces(T, a, c, p, E, H, n)
<1>1. \A i \in 1 .. n : n + 1 - i \in 1 .. n /\ n + 1 - (n + 1 - i) = i
    OBVIOUS
<1>2. \A i \in 1 .. n :
          E[i] = F[n + 1 - i] /\ p[i] = q[n + 1 - i] /\ (i \in H <=> (n + 1 - i) \in G)
    BY DEF Mirror, MirrorSet
<1>3. /\ \A i \in 1 .. n : F[i] \in Fields(T) /\ \A j \in 1 .. n : i # j => F[i] # F[j]
      /\ \A f \in Fields(T) : (\A i \in 1 .. n : F[i] # f) => c[f] = a[f]
    BY Zenon DEF Pieces
<1>4. ASSUME NEW i \in 1 .. n PROVE E[i] \in Fields(T) /\ \A j \in 1 .. n : i # j => E[i] # E[j]
    <2>1. \A j \in 1 .. n : i # j => n + 1 - i # n + 1 - j
        OBVIOUS
    <2>2. QED BY <1>1, <1>2, <1>3, <2>1
<1>5. ASSUME NEW f \in Fields(T), \A i \in 1 .. n : E[i] # f PROVE c[f] = a[f]
    <2>1. \A i \in 1 .. n : F[i] # f
        <3> SUFFICES ASSUME NEW i \in 1 .. n PROVE F[i] # f
            OBVIOUS
        <3>1. E[n + 1 - i] = F[i] /\ E[n + 1 - i] # f
            BY <1>1, <1>2, <1>5
        <3>2. QED BY <3>1
    <2>2. QED BY <1>3, <2>1
<1>6. ASSUME NEW i \in 1 .. n, NEW x, IsObject(T, x), x[E[i]] = a[E[i]]
      PROVE  Outcome(Loop(T, Reading(x), p[i]), i \in H, Put(x, E[i], c[E[i]]))
    <2>j. PICK j \in 1 .. n : j = n + 1 - i
        BY <1>1
    <2>1. E[i] = F[j] /\ p[i] = q[j] /\ (i \in H <=> j \in G)
        BY <1>2, <2>j
    <2>2. x[F[j]] = a[F[j]]
        BY <1>6, <2>1
    <2>3. Outcome(Loop(T, Reading(x), q[j]), j \in G, Put(x, F[j], c[F[j]]))
        BY <1>6, <2>2, Zenon DEF Pieces
    <2>4. QED BY <2>1, <2>3 DEF Outcome
<1>7. QED BY <1>4, <1>5, <1>6, Zenon DEF Pieces
\* What an object is written as, and what of it is fine, row by row.
LEMMA FreshPieces ==
    ASSUME NEW T \in MessageTypes, NEW c, IsMsg(T, c), c.unknown = << >>,
           NEW w, w = Schema[T].write, NEW n \in Nat, n = Len(w),
           NEW q, q = [i \in DOMAIN w |-> WriteField(w[i], c[w[i].field])]
    PROVE  \E F, G : /\ Pieces(T, Cleared(T), c, q, F, G, n)
                     /\ (\A i \in 1 .. n : i \in G) <=> WellFormed(T, c)
<1>a. PICK a : a = Cleared(T)
    OBVIOUS
<1>F. PICK F : F = [i \in DOMAIN w |-> w[i].field]
    OBVIOUS
<1>G. PICK G : G = {i \in DOMAIN w : FineValue(w[i].type, c[w[i].field])}
    OBVIOUS
<1>1. IsMsg(T, a) /\ a.unknown = << >>
    BY <1>a, ClearedIs
<1>2. MergeFrom(T, a, c) = c
    BY <1>a, ObjectFresh
<1>3. Known(a, c) = c
    <2>1. IsObject(T, c) /\ "unknown" \in Fields(T)
        BY DEF IsMsg, Fields
    <2>2. Put(c, "unknown", c["unknown"]) = c
        BY <2>1, PutSame
    <2>3. QED BY <1>1, <2>2 DEF Known
<1>4. Pieces(T, a, Known(a, MergeFrom(T, a, c)), q, F, G, Len(w))
    BY <1>1, <1>F, <1>G, AllRowsRead, RowsPieces
<1>5. Pieces(T, a, c, q, F, G, n)
    BY <1>2, <1>3, <1>4
<1>6. DOMAIN w = 1 .. n
    BY RowIs DEF Rows
<1>7. (\A i \in 1 .. n : i \in G) <=> WellFormed(T, c)
    <2>1. \A i \in 1 .. n : w[i].field \in FieldNames(T) /\ w[i].type = FieldType(T, w[i].field)
        BY <1>6, RowIs DEF Rows, Row
    <2>2. \A f \in FieldNames(T) : \E i \in 1 .. n : w[i].field = f
        BY <1>6, RowIs DEF Rows, Row
    <2>3. \A i \in 1 .. n : i \in G <=> FineValue(w[i].type, c[w[i].field])
        BY <1>6, <1>G
    <2>4. QED BY <2>1, <2>2, <2>3 DEF WellFormed
<1>8. QED BY <1>a, <1>5, <1>7

\* A peer that writes everything in the opposite order is understood; lists
\* that come element by element are read in that order.
LEMMA ReversedSent ==
    ASSUME NEW T \in MessageTypes, NEW m, IsMsg(T, m), m.unknown = << >>,
           NEW c, c = ReadAs(T, m, "reversed")
    PROVE  /\ IsMsg(T, c) /\ c.unknown = << >> /\ (WellFormed(T, c) <=> WellFormed(T, m))
           /\ Outcome(Result(T, Backwards(Serialize(T, m))), WellFormed(T, m), c)
           /\ ByteSizeLong(T, c) = WireSize(Backwards(Serialize(T, m)))
<1>a. PICK a : a = Cleared(T)
    OBVIOUS
<1>A. PICK A : A = Tokens(T)
    OBVIOUS
<1>w. PICK w : w = Schema[T].write
    OBVIOUS
<1>n. PICK n \in Nat : n = Len(w) /\ DOMAIN w = 1 .. n
    BY <1>w, RowIs DEF Rows
<1>q. PICK q : q = [i \in DOMAIN w |-> WriteField(w[i], m[w[i].field])]
    OBVIOUS
<1>r. PICK r : r = [i \in DOMAIN w |-> WriteField(w[i], c[w[i].field])]
    OBVIOUS
<1>p. PICK p : p = [i \in 1 .. n |-> r[n + 1 - i]]
    OBVIOUS
<1>1. IsMsg(T, c) /\ c.unknown = << >> /\ (WellFormed(T, c) <=> WellFormed(T, m))
    BY TurnedIs
<1>2. \A i \in 1 .. n : r[i] = Backwards(q[i])
    <2>1. \A i \in Rows(T) :
              WriteField(Row(T, i), c[Row(T, i).field])
                  = Backwards(WriteField(Row(T, i), m[Row(T, i).field]))
        BY TurnedIs
    <2>2. QED BY <1>w, <1>n, <1>q, <1>r, <2>1 DEF Rows, Row
<1>3. Parts(q, n, A) /\ Serialize(T, m) = JointTo(q, n)
    <2>1. Parts(q, n, A) /\ Serialize(T, m) = JointTo(q, n) \o m.unknown
        BY <1>A, <1>w, <1>n, <1>q, WrittenParts
    <2>j. PICK j \in Seq(A) : j = JointTo(q, n)
        BY <2>1, JointType
    <2>2. j \o << >> = j
        BY ConcatEmptySeq
    <2>3. QED BY <2>1, <2>j, <2>2
<1>4. Parts(r, n, A) /\ Serialize(T, c) = JointTo(r, n)
    <2>1. Parts(r, n, A) /\ Serialize(T, c) = JointTo(r, n) \o c.unknown
        BY <1>A, <1>w, <1>n, <1>r, <1>1, WrittenParts
    <2>j. PICK j \in Seq(A) : j = JointTo(r, n)
        BY <2>1, JointType
    <2>2. j \o << >> = j
        BY ConcatEmptySeq
    <2>3. QED BY <1>1, <2>1, <2>j, <2>2
<1>5. \A i \in 1 .. n : n + 1 - i \in 1 .. n
    OBVIOUS
<1>6. Flipped(p, q, n) /\ Mirror(p, r, n) /\ Parts(p, n, A)
    <2>1. \A i \in 1 .. n : p[i] = r[n + 1 - i]
        BY <1>p
    <2>2. \A i \in 1 .. n : p[i] = Backwards(q[n + 1 - i])
        BY <1>2, <1>5, <2>1
    <2>3. \A i \in 1 .. n : p[i] \in Seq(A)
        BY <1>4, <1>5, <2>1 DEF Parts
    <2>4. QED BY <2>1, <2>2, <2>3 DEF Flipped, Mirror, Parts
<1>7. Backwards(Serialize(T, m)) = JointTo(p, n)
    BY <1>3, <1>6, BackJoint
<1>8. Outcome(Loop(T, Reading(a), JointTo(p, n)), WellFormed(T, c), c)
    <2>F. PICK F, G : /\ Pieces(T, a, c, r, F, G, n)
                      /\ (\A i \in 1 .. n : i \in G) <=> WellFormed(T, c)
        BY <1>1, <1>a, <1>w, <1>n, <1>r, FreshPieces, ZenonT(60)
    <2>E. PICK E : E = [i \in 1 .. n |-> F[n + 1 - i]]
        OBVIOUS
    <2>H. PICK H : H = {i \in 1 .. n : (n + 1 - i) \in G}
        OBVIOUS
    <2>1. Mirror(E, F, n) /\ MirrorSet(H, G, n)
        BY <2>E, <2>H DEF Mirror, MirrorSet
    <2>2. Pieces(T, a, c, p, E, H, n)
        BY <1>6, <2>F, <2>1, PiecesMirror, ZenonT(30)
    <2>3. IsObject(T, a) /\ IsObject(T, c)
        BY <1>1, <1>a, ClearedIs DEF IsMsg
    <2>4. Outcome(Loop(T, Reading(a), JointTo(p, n)), \A i \in 1 .. n : i \in H, c)
        BY <1>6, <2>2, <2>3, PiecesRead, ZenonT(30)
    <2>5. (\A i \in 1 .. n : i \in H) <=> (\A i \in 1 .. n : i \in G)
        <3>1. \A i \in 1 .. n : n + 1 - (n + 1 - i) = i
            OBVIOUS
        <3>2. QED BY <1>5, <2>H, <3>1
    <2>6. QED BY <2>F, <2>4, <2>5 DEF Outcome
<1>9. WireSize(JointTo(p, n)) = WireSize(JointTo(r, n))
    <2>1. \A t \in A : TokenSize(t) \in Nat
        BY <1>A, AllSized DEF TokensSized
    <2>z. PICK z : z = [i \in 1 .. n |-> WireSize(r[i])]
        OBVIOUS
    <2>y. PICK y : y = [i \in 1 .. n |-> WireSize(p[i])]
        OBVIOUS
    <2>2. Pieced(z, r, n) /\ Pieced(y, p, n)
        BY <2>z, <2>y DEF Pieced
    <2>3. WireSize(JointTo(r, n)) = SumTo(z, n) /\ \A i \in 1 .. n : z[i] \in Nat
        BY <1>4, <2>1, <2>2, WireJoint
    <2>4. WireSize(JointTo(p, n)) = SumTo(y, n)
        BY <1>6, <2>1, <2>2, WireJoint
    <2>5. Mirrored(z, y, n)
        <3>1. \A i \in 1 .. n : y[i] = z[n + 1 - i]
            BY <1>5, <1>6, <2>y, <2>z DEF Mirror
        <3>2. QED BY <2>3, <3>1 DEF Mirrored
    <2>6. SumTo(y, n) = SumTo(z, n)
        BY <2>5, SumBackwards
    <2>7. QED BY <2>3, <2>4, <2>6
<1>10. WireSize(Serialize(T, c)) = ByteSizeLong(T, c)
    BY <1>1, ObjectSized
<1>11. Outcome(Result(T, Backwards(Serialize(T, m))), WellFormed(T, m), c)
    BY <1>a, <1>1, <1>7, <1>8 DEF Result, Outcome
<1>12. ByteSizeLong(T, c) = WireSize(Backwards(Serialize(T, m)))
    BY <1>4, <1>7, <1>9, <1>10
<1>13. QED BY <1>1, <1>11, <1>12

-----------------------------------------------------------------------------
(* What the accessors are called with *)

\* What a setter is called with is a value of the field.
LEMMA SampleIs ==
    ASSUME NEW k \in FieldTypes
    PROVE  Sample(k) \in Scalars(k) /\ (k.kind = "string" => BadText \in Scalars(k))
<1>1. /\ k.kind \in {"u64", "u32", "i32", "enum", "bool", "string", "bytes"}
      /\ IsText(k) <=> k.kind \in {"string", "bytes"}
    BY KindIs
<1>2. BadText \in Texts
    BY DEF BadText, Texts
<1>3. CASE IsText(k)
    <2>1. Sample(k) = [len |-> 130, utf8 |-> k.kind = "string"]
        BY <1>1, <1>3 DEF Sample
    <2>2. (k.kind = "string") \in BOOLEAN
        OBVIOUS
    <2>3. Sample(k) \in Texts
        BY <2>1, <2>2 DEF Texts
    <2>4. QED BY <1>2, <1>3, <2>3 DEF Scalars
<1>4. CASE ~IsText(k)
    <2>1. k.kind # "string" /\ k.kind # "bytes"
        BY <1>1, <1>4
    <2>2. CASE k.kind = "u64"
        <3>1. W64 - 1 \in 0 .. W64 - 1
            <4>1. W64 \in Nat /\ 1 <= W64
                BY SMT DEF W64
            <4>2. QED BY <4>1, SMT
        <3>2. QED BY <1>4, <2>2, <3>1 DEF Sample, Scalars
    <2>3. CASE k.kind = "u32"
        <3>1. W32 - 1 \in 0 .. W32 - 1
            BY SMT DEF W32
        <3>2. QED BY <1>4, <2>3, <3>1 DEF Sample, Scalars
    <2>4. CASE k.kind = "i32"
        <3>1. -1 \in {n \in Int : -8192 <= n /\ n < 8192}
            OBVIOUS
        <3>2. QED BY <1>4, <2>4, <3>1 DEF Sample, Scalars
    <2>5. CASE k.kind = "enum"
        BY <1>4, <2>5 DEF Sample, Scalars
    <2>6. CASE k.kind = "bool"
        BY <1>4, <2>6 DEF Sample, Scalars
    <2>7. QED BY <1>1, <2>1, <2>2, <2>3, <2>4, <2>5, <2>6
<1>5. QED BY <1>3, <1>4

\* A message with every field set is a plain message.
LEMMA FilledIs ==
    ASSUME NEW S \in MessageTypes, Plain(S), NEW b \in BOOLEAN
    PROVE  Filled(S, b) \in PlainMessages(S)
<1>m. PICK m : m = Filled(S, b)
    OBVIOUS
<1>1. "unknown" \in Fields(S) /\ \A f \in FieldNames(S) : f \in Fields(S) /\ f # "unknown"
    BY FieldIs DEF Fields
<1>2. IsObject(S, m) /\ m.unknown = << >>
    BY <1>m, <1>1 DEF Filled, IsObject, Fields
<1>3. ASSUME NEW f \in FieldNames(S) PROVE m[f] \in Values(FieldType(S, f))
    <2>k. PICK k \in FieldTypes : k = FieldType(S, f) /\ ~IsMessage(k)
        BY FieldIs DEF Plain
    <2>1. m[f] = IF IsSeq(k) THEN << >>
                 ELSE IF b /\ k.kind = "string" THEN BadText ELSE Sample(k)
        BY <1>m, <1>1, <2>k DEF Filled, Fields
    <2>2. Values(k) = IF k.repeated THEN Seq(Scalars(k)) ELSE Scalars(k)
        BY <2>k DEF Values, PlainValues
    <2>3. IsSeq(k) <=> k.repeated
        BY <2>k DEF IsSeq
    <2>4. << >> \in Seq(Scalars(k))
        OBVIOUS
    <2>5. m[f] \in Values(k)
        BY <2>1, <2>2, <2>3, <2>4, SampleIs
    <2>6. QED BY <2>k, <2>5
<1>4. IsMsg(S, m)
    <2>1. << >> \in Seq(StrayTokens)
        OBVIOUS
    <2>2. QED BY <1>2, <1>3, <2>1 DEF IsMsg
<1>5. QED BY <1>m, <1>2, <1>4, PlainMessageIs

\* What a field's accessors take: a message, a number or a text.
Takes(k) == IF IsMessage(k) THEN PlainMessages(k.of) ELSE Scalars(k)

\* What ProtoCodec sets fields to is some of it.
LEMMA SamplesAre ==
    ASSUME NEW T \in MessageTypes, NEW f \in FieldNames(T), NEW k, k = FieldType(T, f),
           NEW v \in Samples(k)
    PROVE  v \in Takes(k)
<1> USE DEF Takes
<1>1. \/ k \in FieldTypes /\ ~IsMessage(k)
      \/ IsMessage(k) /\ k.of \in MessageTypes /\ Plain(k.of)
    BY FieldIs
<1>2. CASE k \in FieldTypes /\ ~IsMessage(k)
    <2>1. v = Sample(k) \/ (k.kind = "string" /\ v = BadText)
        BY <1>2 DEF Samples
    <2>2. QED BY <1>2, <2>1, SampleIs
<1>3. CASE IsMessage(k) /\ k.of \in MessageTypes /\ Plain(k.of)
    <2>1. v \in {Cleared(k.of), Filled(k.of, FALSE), Filled(k.of, TRUE)}
        BY <1>3 DEF Samples
    <2>2. Cleared(k.of) \in PlainMessages(k.of)
        <3>1. IsMsg(k.of, Cleared(k.of)) /\ Cleared(k.of).unknown = << >>
            BY <1>3, ClearedIs
        <3>2. QED BY <1>3, <3>1, PlainMessageIs
    <2>3. Filled(k.of, FALSE) \in PlainMessages(k.of) /\ Filled(k.of, TRUE) \in PlainMessages(k.of)
        BY <1>3, FilledIs
    <2>4. QED BY <1>3, <2>1, <2>2, <2>3
<1>4. QED BY <1>1, <1>2, <1>3

\* Setting a field leaves an object that has no unknown ones.
LEMMA SetIs ==
    ASSUME NEW T \in MessageTypes, NEW m, IsMsg(T, m), m.unknown = << >>,
           NEW f \in FieldNames(T), NEW k, k = FieldType(T, f), NEW v \in Takes(k),
           NEW c, c = Put(m, f, IF k.repeated THEN Append(m[f], v)
                                ELSE IF IsMessage(k) THEN << v >> ELSE v)
    PROVE  IsMsg(T, c) /\ c.unknown = << >>
<1>1. v \in IF IsMessage(k) THEN PlainMessages(k.of) ELSE Scalars(k)
    BY DEF Takes
<1>u. PICK u : u = IF k.repeated THEN Append(m[f], v) ELSE IF IsMessage(k) THEN << v >> ELSE v
    OBVIOUS
<1>2. m[f] \in Values(k)
    BY DEF IsMsg
<1>3. u \in Values(k)
    <2>1. CASE IsMessage(k)
        <3>B. PICK B : B = PlainMessages(k.of)
            OBVIOUS
        <3>1. m[f] \in Seq(B) /\ v \in B
            BY <1>1, <1>2, <2>1, <3>B DEF Values
        <3>2. Append(m[f], v) \in Seq(B) /\ << v >> \in Seq(B) /\ Len(<< v >>) = 1
            BY <3>1
        <3>3. QED BY <1>u, <2>1, <3>B, <3>2 DEF Values
    <2>2. CASE ~IsMessage(k)
        <3>1. v \in Scalars(k) /\ (k.repeated => m[f] \in Seq(Scalars(k)))
            BY <1>1, <1>2, <2>2 DEF Values, PlainValues
        <3>2. k.repeated => Append(m[f], v) \in Seq(Scalars(k))
            BY <3>1
        <3>3. QED BY <1>u, <2>2, <3>1, <3>2 DEF Values, PlainValues
    <2>3. QED BY <2>1, <2>2
<1>4. f \in Fields(T) /\ f # "unknown" /\ "unknown" \in Fields(T)
    BY FieldIs DEF Fields
<1>5. IsPut(T, m, f, u, c)
    BY <1>u, <1>4, PutIs DEF IsMsg
<1>6. IsObject(T, c) /\ c.unknown = << >>
    BY <1>4, <1>5 DEF IsPut
<1>7. ASSUME NEW h \in FieldNames(T) PROVE c[h] \in Values(FieldType(T, h))
    <2>1. CASE h = f
        BY <1>3, <1>5, <2>1 DEF IsPut
    <2>2. CASE h # f
        <3>1. h \in Fields(T)
            BY DEF Fields
        <3>2. c[h] = m[h]
            BY <1>5, <2>2, <3>1 DEF IsPut
        <3>3. QED BY <3>2 DEF IsMsg
    <2>3. QED BY <2>1, <2>2
<1>8. << >> \in Seq(StrayTokens)
    OBVIOUS
<1>9. QED BY <1>6, <1>7, <1>8 DEF IsMsg

-----------------------------------------------------------------------------
(* One encoding, whatever the peer did to it *)

\* The objects an accessor can build: no field is unknown.
HeldBy(T) == {<< >>} \cup UNION {Values(FieldType(T, f)) : f \in FieldNames(T)}
Objects(T) == {m \in [Fields(T) -> HeldBy(T)] : IsMsg(T, m) /\ m.unknown = << >>}

\* The objects an accessor can build are those without unknown fields.
LEMMA ObjectsAre ==
    ASSUME NEW T \in MessageTypes, NEW m
    PROVE  m \in Objects(T) <=> IsMsg(T, m) /\ m.unknown = << >>
<1>1. m \in Objects(T) => IsMsg(T, m) /\ m.unknown = << >>
    BY DEF Objects
<1>2. ASSUME IsMsg(T, m), m.unknown = << >> PROVE m \in Objects(T)
    <2>1. m = [f \in Fields(T) |-> m[f]]
        BY <1>2 DEF IsMsg, IsObject
    <2>2. \A f \in FieldNames(T) : m[f] \in Values(FieldType(T, f))
        BY <1>2 DEF IsMsg
    <2>3. \A f \in Fields(T) : m[f] \in HeldBy(T)
        BY <1>2, <2>2 DEF HeldBy, Fields
    <2>4. m \in [Fields(T) -> HeldBy(T)]
        BY <2>1, <2>3
    <2>5. QED BY <1>2, <2>4 DEF Objects
<1>3. QED BY <1>1, <1>2

\* What the bytes that are skipped come to.
Skips(T, m, n, w) ==
    LET skipped == ByteSizeLong(T, m)
        came == WireSize(w)
    IN  /\ skipped < came => n \in {"wide", "defaults", "unpacked"}
        /\ skipped > came =>
              \/ n = "unpacked"
              \/ n = "wide" /\ \E f \in FieldNames(T) : FieldType(T, f) = I32 /\ m[f] < 0

\* One object m, sent by a peer that rewrites it as n says, arrives as c.
Heard(T, m, n, w, c) ==
    /\ IsMsg(T, c) /\ (WellFormed(T, c) <=> WellFormed(T, m))
    /\ Outcome(Result(T, w), WellFormed(T, m) /\ n # "next", c)
    /\ n # "next" => Skips(T, c, n, w)

\* As many bytes are skipped as came if ByteSizeLong says so.
LEMMA SkipsSame ==
    ASSUME NEW T, NEW m, NEW n, NEW w, ByteSizeLong(T, m) = WireSize(w), WireSize(w) \in Nat
    PROVE  Skips(T, m, n, w)
<1>s. PICK s \in Nat : s = WireSize(w)
    OBVIOUS
<1>1. ~(s < s) /\ ~(s > s)
    OBVIOUS
<1>2. ~(ByteSizeLong(T, m) < WireSize(w)) /\ ~(ByteSizeLong(T, m) > WireSize(w))
    BY <1>s, <1>1
<1>3. QED BY <1>2 DEF Skips

\* Fewer may be, when the peer writes defaults or wider integers.
LEMMA SkipsLess ==
    ASSUME NEW T, NEW m, NEW n, NEW w, ByteSizeLong(T, m) <= WireSize(w), WireSize(w) \in Nat,
           ByteSizeLong(T, m) \in Nat, n \in {"wide", "defaults", "unpacked"}
    PROVE  Skips(T, m, n, w)
<1>1. \A x, y \in Nat : x <= y => ~(x > y)
    OBVIOUS
<1>2. ~(ByteSizeLong(T, m) > WireSize(w))
    BY <1>1
<1>3. QED BY <1>2 DEF Skips

\* Fields are read as they were set, unless lists are turned.
LEMMA ReadAsSame ==
    ASSUME NEW T \in MessageTypes, NEW m \in Objects(T), NEW n, n # "reversed", n # "unknown"
    PROVE  ReadAs(T, m, n) = m
<1>1. IsMsg(T, m)
    BY ObjectsAre
<1>c. PICK c : c = ReadAs(T, m, n)
    OBVIOUS
<1>2. /\ IsObject(T, c) /\ c.unknown = m.unknown
      /\ \A f \in FieldNames(T) : c[f] = m[f]
    <2>1. /\ IsObject(T, c)
          /\ c.unknown = IF n = "unknown" THEN Strays ELSE m.unknown
          /\ \A f \in FieldNames(T) :
                c[f] = IF n = "reversed" THEN Turned(FieldType(T, f), m[f]) ELSE m[f]
        BY <1>1, <1>c, ReadAsIs
    <2>2. QED BY <2>1
<1>3. IsObject(T, m) /\ \A f \in Fields(T) : c[f] = m[f]
    BY <1>1, <1>2 DEF IsMsg, Fields
<1>4. c = m
    BY <1>2, <1>3, SameObject
<1>5. QED BY <1>c, <1>4

\* What arrives of an object whose lists are not turned and which gets no
\* unknown fields.
LEMMA HeardPlain ==
    ASSUME NEW T \in MessageTypes, NEW m \in Objects(T), NEW n, n # "reversed", n # "unknown",
           NEW w, Outcome(Result(T, w), WellFormed(T, m) /\ n # "next", m),
           n # "next" => Skips(T, m, n, w)
    PROVE  Heard(T, m, n, w, ReadAs(T, m, n))
<1>1. ReadAs(T, m, n) = m /\ IsMsg(T, m)
    BY ReadAsSame, ObjectsAre
<1>2. QED BY <1>1 DEF Heard
\* An object serialized, and rewritten unless n is "none".
Sent(T, m, n) == IF n = "none" THEN Serialize(T, m) ELSE Rewritten(T, Serialize(T, m), n)

\* An encoding arrives as it was sent.
LEMMA NoneHeard ==
    ASSUME NEW T \in MessageTypes, NEW m \in Objects(T)
    PROVE  Heard(T, m, "none", Serialize(T, m), ReadAs(T, m, "none"))
<1>1. IsMsg(T, m)
    BY ObjectsAre
<1>w. PICK w : w = Serialize(T, m)
    OBVIOUS
<1>2. Outcome(Result(T, w), WellFormed(T, m) /\ "none" # "next", m)
    <2>1. Outcome(Result(T, w), WellFormed(T, m), m)
        BY <1>1, <1>w, Untouched
    <2>2. QED BY <2>1 DEF Outcome
<1>3. Skips(T, m, "none", w)
    <2>1. WireSize(w) = ByteSizeLong(T, m) /\ ByteSizeLong(T, m) \in Nat
        BY <1>1, <1>w, ObjectSized
    <2>2. QED BY <2>1, SkipsSame
<1>4. QED BY <1>w, <1>2, <1>3, HeardPlain

\* With fields this schema has not, which are kept.
LEMMA UnknownHeard ==
    ASSUME NEW T \in MessageTypes, NEW m \in Objects(T)
    PROVE  Heard(T, m, "unknown", Strays \o Serialize(T, m), ReadAs(T, m, "unknown"))
<1>1. IsMsg(T, m) /\ m.unknown = << >>
    BY ObjectsAre
<1>w. PICK w : w = Strays \o Serialize(T, m)
    OBVIOUS
<1>c. PICK c : c = ReadAs(T, m, "unknown")
    OBVIOUS
<1>2. /\ Outcome(Result(T, w), WellFormed(T, m), c)
      /\ IsMsg(T, c) /\ (WellFormed(T, c) <=> WellFormed(T, m))
      /\ ByteSizeLong(T, c) = WireSize(w)
    BY <1>1, <1>w, <1>c, StraysSent
<1>3. Skips(T, c, "unknown", w)
    <2>1. WireSize(w) \in Nat
        BY <1>2, ObjectSized
    <2>2. QED BY <1>2, <2>1, SkipsSame
<1>4. Heard(T, m, "unknown", w, c)
    BY <1>2, <1>3 DEF Heard, Outcome
<1>5. QED BY <1>w, <1>c, <1>4

\* With all tokens in the opposite order.
LEMMA ReversedHeard ==
    ASSUME NEW T \in MessageTypes, NEW m \in Objects(T)
    PROVE  Heard(T, m, "reversed", Backwards(Serialize(T, m)), ReadAs(T, m, "reversed"))
<1>1. IsMsg(T, m) /\ m.unknown = << >>
    BY ObjectsAre
<1>w. PICK w : w = Backwards(Serialize(T, m))
    OBVIOUS
<1>c. PICK c : c = ReadAs(T, m, "reversed")
    OBVIOUS
<1>2. /\ Outcome(Result(T, w), WellFormed(T, m), c)
      /\ IsMsg(T, c) /\ (WellFormed(T, c) <=> WellFormed(T, m))
      /\ ByteSizeLong(T, c) = WireSize(w)
    BY <1>1, <1>w, <1>c, ReversedSent
<1>3. Skips(T, c, "reversed", w)
    <2>1. WireSize(w) \in Nat
        BY <1>2, ObjectSized
    <2>2. QED BY <1>2, <2>1, SkipsSame
<1>4. Heard(T, m, "reversed", w, c)
    BY <1>2, <1>3 DEF Heard, Outcome
<1>5. QED BY <1>w, <1>c, <1>4

\* With integers of 64 bits.
LEMMA WideHeard ==
    ASSUME NEW T \in MessageTypes, NEW m \in Objects(T)
    PROVE  Heard(T, m, "wide", Wide(T, Serialize(T, m)), ReadAs(T, m, "wide"))
<1>1. IsMsg(T, m) /\ m.unknown = << >>
    BY ObjectsAre
<1>w. PICK w : w = Wide(T, Serialize(T, m))
    OBVIOUS
<1>2. Outcome(Result(T, w), WellFormed(T, m) /\ "wide" # "next", m)
    <2>1. Outcome(Result(T, w), WellFormed(T, m), m)
        BY <1>1, <1>w, WideSent
    <2>2. QED BY <2>1 DEF Outcome
<1>3. Skips(T, m, "wide", w)
    <2>1. CASE NoneNegative(T, m)
        <3>1. WireSize(w) \in Nat /\ ByteSizeLong(T, m) <= WireSize(w)
            BY <1>1, <1>w, <2>1, WideSize
        <3>2. ByteSizeLong(T, m) \in Nat
            BY <1>1, ObjectSized
        <3>3. QED BY <3>1, <3>2, SkipsLess
    <2>2. CASE ~NoneNegative(T, m)
        <3>f. PICK f \in FieldNames(T) : FieldType(T, f) = I32 /\ ~(0 <= m[f])
            BY <2>2 DEF NoneNegative
        <3>1. m[f] \in Values(I32)
            BY <1>1, <3>f DEF IsMsg
        <3>2. I32 \in FieldTypes /\ ~I32.repeated /\ I32.kind = "i32"
            BY DEF FieldTypes, I32, Kind
        <3>3. ~IsText(I32) /\ ~IsMessage(I32)
            BY <3>2, KindIs
        <3>4. m[f] \in Scalars(I32)
            BY <3>1, <3>2, <3>3 DEF Values, PlainValues
        <3>5. m[f] \in Int
            BY <3>2, <3>3, <3>4, ScalarsAre
        <3>6. m[f] < 0
            BY <3>f, <3>5
        <3>7. QED BY <3>f, <3>6 DEF Skips
    <2>3. QED BY <2>1, <2>2
<1>4. QED BY <1>w, <1>2, <1>3, HeardPlain

\* With lists that are not packed.
LEMMA UnpackedHeard ==
    ASSUME NEW T \in MessageTypes, NEW m \in Objects(T)
    PROVE  Heard(T, m, "unpacked", Joint(Loose(Serialize(T, m))), ReadAs(T, m, "unpacked"))
<1>1. IsMsg(T, m) /\ m.unknown = << >>
    BY ObjectsAre
<1>w. PICK w : w = Joint(Loose(Serialize(T, m)))
    OBVIOUS
<1>2. Outcome(Result(T, w), WellFormed(T, m) /\ "unpacked" # "next", m)
    <2>1. Outcome(Result(T, w), WellFormed(T, m), m)
        BY <1>1, <1>w, UnpackedSent
    <2>2. QED BY <2>1 DEF Outcome
<1>3. Skips(T, m, "unpacked", w)
    BY DEF Skips
<1>4. QED BY <1>w, <1>2, <1>3, HeardPlain

\* What a peer that writes every default puts in front.
AllDefaults(T) ==
    LET rows == Schema[T].write IN Joint([i \in DOMAIN rows |-> ExplicitDefault(rows[i])])

\* With defaults written out.
LEMMA DefaultsHeard ==
    ASSUME NEW T \in MessageTypes, NEW m \in Objects(T)
    PROVE  Heard(T, m, "defaults", AllDefaults(T) \o Serialize(T, m), ReadAs(T, m, "defaults"))
<1>1. IsMsg(T, m) /\ m.unknown = << >>
    BY ObjectsAre
<1>r. PICK r : r = Schema[T].write
    OBVIOUS
<1>p. PICK p : p = [i \in DOMAIN r |-> ExplicitDefault(r[i])]
    OBVIOUS
<1>u. PICK u : u = Joint(p)
    OBVIOUS
<1>w. PICK w : w = u \o Serialize(T, m)
    OBVIOUS
<1>2. /\ Outcome(Result(T, w), WellFormed(T, m), m)
      /\ WireSize(w) \in Nat /\ ByteSizeLong(T, m) <= WireSize(w)
    BY <1>1, <1>r, <1>p, <1>u, <1>w, DefaultsSent
<1>3. Outcome(Result(T, w), WellFormed(T, m) /\ "defaults" # "next", m)
    BY <1>2 DEF Outcome
<1>4. Skips(T, m, "defaults", w)
    <2>1. ByteSizeLong(T, m) \in Nat
        BY <1>1, ObjectSized
    <2>2. QED BY <1>2, <2>1, SkipsLess
<1>5. Heard(T, m, "defaults", w, ReadAs(T, m, "defaults"))
    BY <1>3, <1>4, HeardPlain
<1>6. u = AllDefaults(T)
    BY <1>r, <1>p, <1>u DEF AllDefaults
<1>7. QED BY <1>w, <1>5, <1>6

\* With the first byte of the next packet, it is refused.
LEMMA NextHeard ==
    ASSUME NEW T \in MessageTypes, NEW m \in Objects(T)
    PROVE  Heard(T, m, "next", Append(Serialize(T, m), Bare(0, 0)), ReadAs(T, m, "next"))
<1>1. IsMsg(T, m)
    BY ObjectsAre
<1>w. PICK w : w = Append(Serialize(T, m), Bare(0, 0))
    OBVIOUS
<1>2. Result(T, w).status # "reading"
    BY <1>1, <1>w, NextSent
<1>3. Outcome(Result(T, w), WellFormed(T, m) /\ "next" # "next", m)
    BY <1>2 DEF Outcome
<1>4. QED BY <1>w, <1>3, HeardPlain

\* So it is whatever the peer did.
LEMMA AllHeard ==
    ASSUME NEW T \in MessageTypes, NEW m \in Objects(T), NEW n \in {"none"} \cup NoiseKinds
    PROVE  Heard(T, m, n, Sent(T, m, n), ReadAs(T, m, n))
<1>s. PICK s : s = Serialize(T, m)
    OBVIOUS
<1>1. n \in {"none", "unknown", "reversed", "wide", "unpacked", "defaults", "next"}
    BY DEF NoiseKinds
<1>2. Sent(T, m, n) = IF n = "none" THEN s ELSE Rewritten(T, s, n)
    BY <1>s DEF Sent
<1>3. CASE n = "none"
    BY <1>2, <1>3, <1>s, NoneHeard
<1>4. CASE n = "unknown"
    <2>1. Sent(T, m, n) = Strays \o s
        BY <1>2, <1>4 DEF Rewritten
    <2>2. QED BY <1>4, <1>s, <2>1, UnknownHeard
<1>5. CASE n = "reversed"
    <2>1. Sent(T, m, n) = Backwards(s)
        BY <1>2, <1>5 DEF Rewritten
    <2>2. QED BY <1>5, <1>s, <2>1, ReversedHeard
<1>6. CASE n = "wide"
    <2>1. Sent(T, m, n) = Wide(T, s)
        BY <1>2, <1>6 DEF Rewritten, Wide
    <2>2. QED BY <1>6, <1>s, <2>1, WideHeard
<1>7. CASE n = "unpacked"
    <2>1. Sent(T, m, n) = Joint(Loose(s))
        BY <1>2, <1>7 DEF Rewritten, Loose
    <2>2. QED BY <1>7, <1>s, <2>1, UnpackedHeard
<1>8. CASE n = "defaults"
    <2>1. Sent(T, m, n) = AllDefaults(T) \o s
        BY <1>2, <1>8 DEF Rewritten, AllDefaults
    <2>2. QED BY <1>8, <1>s, <2>1, DefaultsHeard
<1>9. CASE n = "next"
    <2>1. Sent(T, m, n) = Append(s, Bare(0, 0))
        BY <1>2, <1>9 DEF Rewritten
    <2>2. QED BY <1>9, <1>s, <2>1, NextHeard
<1>10. QED BY <1>1, <1>3, <1>4, <1>5, <1>6, <1>7, <1>8, <1>9

-----------------------------------------------------------------------------
(* Several encodings one after the other *)

\* The first k objects of ps, encoded as w, are read as the object c, if all
\* their strings are UTF-8, and c takes no more bytes than w.
FineUpto(T, ps, k) == \A i \in 1 .. k : WellFormed(T, ps[i])
Taken(T, ps, k, w, c) ==
    /\ IsMsg(T, c)
    /\ Outcome(Result(T, w), FineUpto(T, ps, k), c)
    /\ FineUpto(T, ps, k) => WellFormed(T, c)
    /\ ByteSizeLong(T, c) \in Nat /\ WireSize(w) \in Nat /\ ByteSizeLong(T, c) <= WireSize(w)

\* The first of several encodings is read as its object.
LEMMA TakenFirst ==
    ASSUME NEW T \in MessageTypes, NEW ps, ps[1] \in Objects(T)
    PROVE  Taken(T, ps, 1, Serialize(T, ps[1]), ps[1])
<1>m. PICK m : m = ps[1]
    OBVIOUS
<1>1. IsMsg(T, m)
    BY <1>m, ObjectsAre
<1>2. FineUpto(T, ps, 1) <=> WellFormed(T, m)
    <2>1. 1 .. 1 = {1}
        OBVIOUS
    <2>2. QED BY <1>m, <2>1 DEF FineUpto
<1>3. Outcome(Result(T, Serialize(T, m)), WellFormed(T, m), m)
    BY <1>1, Untouched
<1>4. WireSize(Serialize(T, m)) = ByteSizeLong(T, m) /\ ByteSizeLong(T, m) \in Nat
    BY <1>1, ObjectSized
<1>5. ByteSizeLong(T, m) <= WireSize(Serialize(T, m))
    BY <1>4
<1>6. Taken(T, ps, 1, Serialize(T, m), m)
    BY <1>1, <1>2, <1>3, <1>4, <1>5 DEF Taken, Outcome
<1>7. QED BY <1>m, <1>6

\* Each further one is merged into what was read.
LEMMA TakenNext ==
    ASSUME NEW T \in MessageTypes, NEW ps, NEW k \in Nat, NEW m \in Objects(T), ps[k + 1] = m,
           NEW w \in Seq(Tokens(T)), NEW c, Taken(T, ps, k, w, c)
    PROVE  Taken(T, ps, k + 1, w \o Serialize(T, m), MergeFrom(T, c, m))
<1>A. PICK A : A = Tokens(T)
    OBVIOUS
<1>d. PICK d : d = MergeFrom(T, c, m)
    OBVIOUS
<1>1. IsMsg(T, m) /\ IsMsg(T, c)
    BY ObjectsAre DEF Taken
<1>s. PICK s \in Seq(A) : s = Serialize(T, m)
    BY <1>1, <1>A, WrittenParts
<1>2. FineUpto(T, ps, k + 1) <=> FineUpto(T, ps, k) /\ WellFormed(T, m)
    <2>1. \A i : i \in 1 .. k + 1 <=> i \in 1 .. k \/ i = k + 1
        OBVIOUS
    <2>2. QED BY <2>1 DEF FineUpto
<1>3. IsMsg(T, d) /\ (WellFormed(T, c) /\ WellFormed(T, m) => WellFormed(T, d))
    BY <1>1, <1>d, ObjectKeeps
<1>4. Result(T, w \o s) = Loop(T, Result(T, w), s)
    BY <1>A, <1>s, LoopConcat DEF Result
<1>5. Outcome(Result(T, w \o s), FineUpto(T, ps, k) /\ WellFormed(T, m), d)
    <2>1. CASE FineUpto(T, ps, k)
        <3>1. Result(T, w) = Reading(c)
            BY <2>1 DEF Taken, Outcome
        <3>2. Accepted(T, c, m)
            BY <1>1, ObjectRead
        <3>3. Outcome(Loop(T, Reading(c), s), WellFormed(T, m), d)
            BY <1>d, <1>s, <3>2 DEF Accepted, Outcome
        <3>4. QED BY <1>4, <2>1, <3>1, <3>3 DEF Outcome
    <2>2. CASE ~FineUpto(T, ps, k)
        <3>1. Result(T, w).status # "reading"
            BY <2>2 DEF Taken, Outcome
        <3>2. Loop(T, Result(T, w), s) = Result(T, w)
            <4>1. Len(s) \in Nat
                BY <1>s, LenProperties
            <4>2. QED BY <3>1, <4>1, LoopStopped DEF Loop
        <3>3. QED BY <1>4, <2>2, <3>1, <3>2 DEF Outcome
    <2>3. QED BY <2>1, <2>2
<1>6. /\ ByteSizeLong(T, d) \in Nat /\ WireSize(w \o s) \in Nat
      /\ ByteSizeLong(T, d) <= WireSize(w \o s)
    <2>1. \A t \in A : TokenSize(t) \in Nat
        BY <1>A, AllSized DEF TokensSized
    <2>2. WireSize(w \o s) = WireSize(w) + WireSize(s)
        BY <1>A, <1>s, <2>1, WireConcat
    <2>3. WireSize(s) = ByteSizeLong(T, m) /\ ByteSizeLong(T, m) \in Nat
        BY <1>1, <1>s, ObjectSized
    <2>4. ByteSizeLong(T, d) <= ByteSizeLong(T, c) + ByteSizeLong(T, m)
        BY <1>1, <1>d, ObjectSmall
    <2>5. ByteSizeLong(T, d) \in Nat
        BY <1>3, ObjectSized
    <2>6. ByteSizeLong(T, c) \in Nat /\ WireSize(w) \in Nat /\ ByteSizeLong(T, c) <= WireSize(w)
        BY DEF Taken
    <2>7. \A x, y, z, p \in Nat : z <= x + y /\ x <= p => z <= p + y /\ p + y \in Nat
        OBVIOUS
    <2>8. QED BY <2>2, <2>3, <2>4, <2>5, <2>6, <2>7
<1>7. Taken(T, ps, k + 1, w \o s, d)
    BY <1>2, <1>3, <1>5, <1>6 DEF Taken, Outcome
<1>8. QED BY <1>d, <1>s, <1>7

Encoded(T, ps) == [i \in DOMAIN ps |-> Serialize(T, ps[i])]

\* However many objects were sent, what is read of them is one.
LEMMA ManyTaken ==
    ASSUME NEW T \in MessageTypes, NEW ps \in Seq(Objects(T)), NEW k \in Nat, 1 <= k, k <= Len(ps)
    PROVE  /\ JointTo(Encoded(T, ps), k) \in Seq(Tokens(T))
           /\ \E c : Taken(T, ps, k, JointTo(Encoded(T, ps), k), c)
           /\ k = 1 => JointTo(Encoded(T, ps), k) = Serialize(T, ps[1])
           /\ k = 2 => Taken(T, ps, k, JointTo(Encoded(T, ps), k), MergeFrom(T, ps[1], ps[2]))
<1>n. PICK n \in Nat : n = Len(ps) /\ DOMAIN ps = 1 .. n
    BY LenProperties
<1>q. PICK q : q = Encoded(T, ps)
    OBVIOUS
<1>A. PICK A : A = Tokens(T)
    OBVIOUS
<1>1. \A i \in 1 .. n : ps[i] \in Objects(T) /\ q[i] = Serialize(T, ps[i])
    BY <1>n, <1>q, ElementOfSeq DEF Encoded
<1>2. Parts(q, n, A)
    <2> SUFFICES ASSUME NEW i \in 1 .. n PROVE q[i] \in Seq(A)
        BY Zenon DEF Parts
    <2>1. IsMsg(T, ps[i])
        BY <1>1, ObjectsAre
    <2>2. Serialize(T, ps[i]) \in Seq(A)
        BY <1>A, <2>1, WrittenParts
    <2>3. QED BY <1>1, <2>2
<1>3. \A j \in 0 .. n : JointTo(q, j) \in Seq(A)
    <2> SUFFICES ASSUME NEW j \in 0 .. n PROVE JointTo(q, j) \in Seq(A)
        OBVIOUS
    <2>1. Parts(q, j, A) /\ j \in Nat
        BY <1>2 DEF Parts
    <2>2. QED BY <2>1, JointType
<1>4. 1 <= n => JointTo(q, 1) = Serialize(T, ps[1])
    <2> SUFFICES ASSUME 1 <= n PROVE JointTo(q, 1) = Serialize(T, ps[1])
        OBVIOUS
    <2>1. JointTo(q, 0 + 1) = JointTo(q, 0) \o q[0 + 1] /\ 0 + 1 = 1
        BY JointNext
    <2>2. JointTo(q, 0) = << >>
        BY JointNone
    <2>3. 1 \in 1 .. n
        OBVIOUS
    <2>y. PICK y \in Seq(A) : y = q[1]
        BY <1>2, <2>3 DEF Parts
    <2>4. << >> \o y = y
        BY ConcatEmptySeq
    <2>5. q[1] = Serialize(T, ps[1])
        BY <1>1, <2>3
    <2>6. QED BY <2>1, <2>2, <2>y, <2>4, <2>5
<1>5. 1 <= n => Taken(T, ps, 1, JointTo(q, 1), ps[1])
    <2> SUFFICES ASSUME 1 <= n PROVE Taken(T, ps, 1, JointTo(q, 1), ps[1])
        OBVIOUS
    <2>1. ps[1] \in Objects(T)
        BY <1>1
    <2>2. QED BY <1>4, <2>1, TakenFirst
<1>6. ASSUME NEW j \in Nat, 1 <= j, j + 1 <= n, NEW c, Taken(T, ps, j, JointTo(q, j), c)
      PROVE  Taken(T, ps, j + 1, JointTo(q, j + 1), MergeFrom(T, c, ps[j + 1]))
    <2>m. PICK m \in Objects(T) : m = ps[j + 1] /\ q[j + 1] = Serialize(T, m)
        <3>1. j + 1 \in 1 .. n
            BY <1>6
        <3>2. QED BY <1>1, <3>1
    <2>w. PICK w \in Seq(Tokens(T)) : w = JointTo(q, j)
        <3>1. j \in 0 .. n
            BY <1>6
        <3>2. QED BY <1>A, <1>3, <3>1
    <2>1. JointTo(q, j + 1) = w \o Serialize(T, m)
        BY <2>m, <2>w, JointNext
    <2>2. Taken(T, ps, j, w, c)
        BY <1>6, <2>w
    <2>3. Taken(T, ps, j + 1, w \o Serialize(T, m), MergeFrom(T, c, m))
        BY <2>m, <2>2, TakenNext
    <2>4. QED BY <2>m, <2>1, <2>3
<1> DEFINE Sofar(j) == 1 <= j /\ j <= n => \E c : Taken(T, ps, j, JointTo(q, j), c)
           D == {j \in Nat : Sofar(j)}
<1>7. Sofar(0)
    OBVIOUS
<1>8. ASSUME NEW j \in Nat, Sofar(j) PROVE Sofar(j + 1)
    <2> SUFFICES ASSUME j + 1 <= n PROVE \E c : Taken(T, ps, j + 1, JointTo(q, j + 1), c)
        OBVIOUS
    <2>1. CASE j = 0
        <3>1. j + 1 = 1 /\ 1 <= n
            BY <2>1
        <3>2. Taken(T, ps, 1, JointTo(q, 1), ps[1])
            BY <1>5, <3>1
        <3>3. QED BY <3>1, <3>2
    <2>2. CASE 1 <= j
        <3>c. PICK c : Taken(T, ps, j, JointTo(q, j), c)
            BY <1>8, <2>2
        <3>1. Taken(T, ps, j + 1, JointTo(q, j + 1), MergeFrom(T, c, ps[j + 1]))
            BY <1>6, <2>2, <3>c
        <3>2. QED BY <3>1
    <2>3. QED BY <2>1, <2>2
<1> HIDE DEF Sofar
<1>9. Nat \subseteq D
    <2>1. 0 \in D
        BY <1>7
    <2>2. \A j \in Nat : j \in D => j + 1 \in D
        BY <1>8
    <2> HIDE DEF D
    <2>3. QED BY <2>1, <2>2, Induct
<1>10. Sofar(k)
    BY <1>9
<1>11. \E c : Taken(T, ps, k, JointTo(q, k), c)
    BY <1>n, <1>10 DEF Sofar
<1>12. JointTo(q, k) \in Seq(A)
    BY <1>n, <1>3
<1>13. k = 2 => Taken(T, ps, k, JointTo(q, k), MergeFrom(T, ps[1], ps[2]))
    <2> SUFFICES ASSUME k = 2 PROVE Taken(T, ps, 2, JointTo(q, 2), MergeFrom(T, ps[1], ps[2]))
        OBVIOUS
    <2>1. 1 \in Nat /\ 1 + 1 = 2 /\ 1 + 1 <= n /\ 1 <= n
        BY <1>n
    <2>2. Taken(T, ps, 1, JointTo(q, 1), ps[1])
        BY <1>5, <2>1
    <2>3. Taken(T, ps, 1 + 1, JointTo(q, 1 + 1), MergeFrom(T, ps[1], ps[1 + 1]))
        BY <1>6, <2>1, <2>2
    <2>4. QED BY <2>1, <2>3
<1>14. k = 1 => JointTo(q, k) = Serialize(T, ps[1])
    BY <1>n, <1>4
<1>15. QED BY <1>q, <1>A, <1>11, <1>12, <1>13, <1>14

-----------------------------------------------------------------------------
(* The packet on its way *)

Packet(T, ps, n) ==
    IF n = "none" THEN Joint(Encoded(T, ps)) ELSE Rewritten(T, Joint(Encoded(T, ps)), n)

\* The packet is what was serialized, in order, and perhaps rewritten once;
\* what was received is what ParseFromArray makes of it.
CodecInv ==
    /\ msgType \in MessageTypes
    /\ object \in Objects(msgType)
    /\ parts \in Seq(Objects(msgType))
    /\ noise \in {"none"} \cup NoiseKinds
    /\ noise # "none" => Len(parts) = 1
    /\ wire = Packet(msgType, parts, noise)
    /\ delivered => /\ parts # << >>
                    /\ received = ParseFromArray(msgType, Cleared(msgType), wire)

\* ProtoCodec with every value an accessor takes.
AccessorNext ==
    /\ ~delivered
    /\ \/ \E f \in FieldNames(msgType) : \E v \in Takes(FieldType(msgType, f)) : SetField(f, v)
       \/ Emit
       \/ \E n \in NoiseKinds : Rewrite(n)
       \/ Receive
AccessorSpec == CodecInit /\ [][AccessorNext]_codecVars

\* After Clear an object can be built again.
LEMMA ClearedObject ==
    ASSUME NEW T \in MessageTypes
    PROVE  Cleared(T) \in Objects(T)
BY ClearedIs, ObjectsAre

\* At the start nothing is on its way.
LEMMA CodecStart ==
    CodecInit => CodecInv
<1> SUFFICES ASSUME CodecInit PROVE CodecInv
    OBVIOUS
<1>1. /\ msgType \in MessageTypes /\ object = Cleared(msgType) /\ parts = << >> /\ wire = << >>
      /\ noise = "none" /\ delivered = FALSE
    BY DEF CodecInit
<1>2. object \in Objects(msgType)
    BY <1>1, ClearedObject
<1>3. parts \in Seq(Objects(msgType))
    <2>1. << >> \in Seq(Objects(msgType))
        OBVIOUS
    <2>2. QED BY <1>1, <2>1
<1>4. wire = Packet(msgType, parts, noise)
    <2>q. PICK q : q = Encoded(msgType, << >>)
        OBVIOUS
    <2>1. Len(q) = 0
        BY <2>q DEF Encoded
    <2>2. Joint(q) = << >>
        BY <2>1, JointNone DEF Joint
    <2>3. QED BY <1>1, <2>q, <2>2 DEF Packet
<1>5. QED BY <1>1, <1>2, <1>3, <1>4 DEF CodecInv

\* A setter keeps an object an object.
LEMMA SetFieldKeeps ==
    ASSUME CodecInv, NEW f \in FieldNames(msgType), NEW v \in Takes(FieldType(msgType, f)),
           SetField(f, v), ~delivered
    PROVE  CodecInv'
<1>k. PICK k : k = FieldType(msgType, f)
    OBVIOUS
<1>1. /\ object' = Put(object, f, IF k.repeated THEN Append(object[f], v)
                                  ELSE IF IsMessage(k) THEN << v >> ELSE v)
      /\ UNCHANGED <<msgType, parts, wire, noise, delivered, received>>
    <2>1. object' = [object EXCEPT ![f] = IF k.repeated THEN Append(object[f], v)
                                          ELSE IF IsMessage(k) THEN << v >> ELSE v]
        BY <1>k DEF SetField
    <2>2. UNCHANGED <<msgType, parts, wire, noise, delivered, received>>
        BY DEF SetField
    <2>3. QED BY <2>1, <2>2 DEF Put
<1>2. msgType \in MessageTypes /\ IsMsg(msgType, object) /\ object.unknown = << >>
    BY ObjectsAre DEF CodecInv
<1>3. IsMsg(msgType, object') /\ object'.unknown = << >>
    BY <1>k, <1>1, <1>2, SetIs
<1>4. object' \in Objects(msgType)
    BY <1>2, <1>3, ObjectsAre
<1>5. QED BY <1>1, <1>4 DEF CodecInv

\* Another object's encoding follows those there are.
LEMMA EmitKeeps ==
    ASSUME CodecInv, Emit, ~delivered
    PROVE  CodecInv'
<1>T. PICK T \in MessageTypes : T = msgType
    BY DEF CodecInv
<1>O. PICK O : O = Objects(T)
    OBVIOUS
<1>1. /\ noise = "none" /\ parts' = Append(parts, object) /\ object' = Cleared(msgType)
      /\ wire' = wire \o Serialize(msgType, object)
      /\ UNCHANGED <<msgType, noise, delivered, received>>
    BY DEF Emit
<1>2. object' \in Objects(T)
    BY <1>T, <1>1, ClearedObject
<1>3. parts \in Seq(O) /\ object \in O
    BY <1>T, <1>O DEF CodecInv
<1>n. PICK n \in Nat : n = Len(parts) /\ DOMAIN parts = 1 .. n
    BY <1>3, LenProperties
<1>s. PICK s \in Seq(O) : s = parts
    BY <1>3
<1>o. PICK o \in O : o = object
    BY <1>3
<1>a. Append(s, o) \in Seq(O)
    BY AppendProperties
<1>p. PICK p \in Seq(O) : p = Append(s, o)
    BY <1>a
<1>0. p = parts'
    BY <1>1, <1>s, <1>o, <1>p
<1>4. Len(p) = n + 1 /\ p[n + 1] = object /\ \A i \in 1 .. n : p[i] = parts[i]
    <2>1. Len(p) = Len(s) + 1 /\ p[Len(s) + 1] = o /\ \A i \in 1 .. Len(s) : p[i] = s[i]
        BY <1>p
    <2>2. QED BY <1>n, <1>s, <1>o, <2>1
<1>5. DOMAIN p = 1 .. n + 1
    BY <1>4, <1>p, LenProperties
<1>q. PICK q : q = Encoded(T, parts)
    OBVIOUS
<1>r. PICK r : r = Encoded(T, p)
    OBVIOUS
<1>6. Len(q) = n /\ \A i \in 1 .. n : q[i] = Serialize(T, parts[i])
    BY <1>n, <1>q DEF Encoded
<1>7. Len(r) = n + 1 /\ \A i \in 1 .. n + 1 : r[i] = Serialize(T, p[i])
    BY <1>5, <1>r DEF Encoded
<1>8. JointTo(q, n) = JointTo(r, n)
    <2>1. \A i \in 1 .. n : q[i] = r[i]
        <3>1. \A i \in 1 .. n : i \in 1 .. n + 1
            OBVIOUS
        <3>2. QED BY <1>4, <1>6, <1>7, <3>1
    <2>2. QED BY <2>1, JointAgree
<1>9. wire = JointTo(q, n)
    BY <1>1, <1>6, <1>T, <1>q DEF CodecInv, Packet, Joint
<1>10. JointTo(r, n + 1) = JointTo(r, n) \o Serialize(T, object)
    <2>1. JointTo(r, n + 1) = JointTo(r, n) \o r[n + 1]
        BY JointNext
    <2>2. r[n + 1] = Serialize(T, object)
        <3>1. n + 1 \in 1 .. n + 1
            OBVIOUS
        <3>2. QED BY <1>4, <1>7, <3>1
    <2>3. QED BY <2>1, <2>2
<1>11. wire' = JointTo(r, n + 1)
    BY <1>1, <1>T, <1>8, <1>9, <1>10
<1>12. wire' = Packet(msgType, p, noise)
    BY <1>1, <1>T, <1>r, <1>7, <1>11 DEF Packet, Joint
<1>13. QED BY <1>0, <1>1, <1>2, <1>T, <1>O, <1>12 DEF CodecInv

\* A peer rewrites a single encoding, once.
LEMMA RewriteKeeps ==
    ASSUME CodecInv, NEW n \in NoiseKinds, Rewrite(n), ~delivered
    PROVE  CodecInv'
<1>1. /\ Len(parts) = 1 /\ noise = "none" /\ noise' = n /\ wire' = Rewritten(msgType, wire, n)
      /\ UNCHANGED <<msgType, object, parts, delivered, received>>
    BY DEF Rewrite
<1>2. n # "none"
    BY DEF NoiseKinds
<1>3. wire = Joint(Encoded(msgType, parts))
    BY <1>1 DEF CodecInv, Packet
<1>4. wire' = Packet(msgType, parts, n)
    BY <1>1, <1>2, <1>3 DEF Packet
<1>5. QED BY <1>1, <1>4 DEF CodecInv

\* What is received does not depend on what the object held before.
LEMMA ReceiveKeeps ==
    ASSUME CodecInv, Receive, ~delivered
    PROVE  CodecInv'
<1>1. /\ parts # << >> /\ received' = ParseFromArray(msgType, received.msg, wire)
      /\ UNCHANGED <<msgType, object, parts, wire, noise>>
    BY DEF Receive
<1>2. ParseFromArray(msgType, received.msg, wire) = ParseFromArray(msgType, Cleared(msgType), wire)
    BY DEF ParseFromArray, Returned
<1>3. QED BY <1>1, <1>2 DEF CodecInv

\* The invariant holds throughout: the packet on its way is made of the encodings
\* of what was set, at most rewritten once.
THEOREM PacketAlwaysIs == AccessorSpec => []CodecInv
<1>1. CodecInit => CodecInv
    BY CodecStart
<1>2. CodecInv /\ [AccessorNext]_codecVars => CodecInv'
    <2> SUFFICES ASSUME CodecInv, [AccessorNext]_codecVars PROVE CodecInv'
        OBVIOUS
    <2>1. CASE UNCHANGED codecVars
        BY <2>1 DEF codecVars, CodecInv
    <2>2. CASE AccessorNext
        <3>1. ~delivered
            BY <2>2 DEF AccessorNext
        <3>2. ASSUME NEW f \in FieldNames(msgType), NEW v \in Takes(FieldType(msgType, f)),
                     SetField(f, v)
              PROVE  CodecInv'
            BY <3>1, <3>2, SetFieldKeeps
        <3>3. CASE Emit
            BY <3>1, <3>3, EmitKeeps
        <3>4. ASSUME NEW n \in NoiseKinds, Rewrite(n) PROVE CodecInv'
            BY <3>1, <3>4, RewriteKeeps
        <3>5. CASE Receive
            BY <3>1, <3>5, ReceiveKeeps
        <3>6. QED BY <2>2, <3>2, <3>3, <3>4, <3>5 DEF AccessorNext
    <2>3. QED BY <2>1, <2>2
<1>3. QED BY <1>1, <1>2, PTL DEF AccessorSpec

\* The type of the message stays what it is, and all samples are values that an
\* accessor takes: what is so for every value is so in every run of ProtoCodec.
THEOREM SamplesAreTaken == CodecSpec => AccessorSpec
<1> DEFINE K == msgType \in MessageTypes
<1>1. CodecInit => K
    BY DEF CodecInit
<1>2. K /\ [CodecNext]_codecVars => K'
    <2> SUFFICES ASSUME K, [CodecNext]_codecVars PROVE msgType' = msgType
        OBVIOUS
    <2>1. CASE CodecNext
        BY <2>1 DEF CodecNext, SetField, Emit, Rewrite, Receive
    <2>2. CASE UNCHANGED codecVars
        BY <2>2 DEF codecVars
    <2>3. QED BY <2>1, <2>2
<1>3. K /\ [CodecNext]_codecVars => [AccessorNext]_codecVars
    <2> SUFFICES ASSUME K, CodecNext PROVE AccessorNext
        OBVIOUS
    <2>1. ~delivered
        BY DEF CodecNext
    <2>2. ASSUME NEW f \in FieldNames(msgType), NEW v \in Samples(FieldType(msgType, f)),
                 SetField(f, v)
          PROVE  AccessorNext
        <3>1. v \in Takes(FieldType(msgType, f))
            BY SamplesAre
        <3>2. QED BY <2>1, <2>2, <3>1 DEF AccessorNext
    <2>3. CASE Emit
        BY <2>1, <2>3 DEF AccessorNext
    <2>4. ASSUME NEW n \in NoiseKinds, Rewrite(n) PROVE AccessorNext
        BY <2>1, <2>4 DEF AccessorNext
    <2>5. CASE Receive
        BY <2>1, <2>5 DEF AccessorNext
    <2>6. QED BY <2>2, <2>3, <2>4, <2>5 DEF CodecNext
<1>4. QED BY <1>1, <1>2, <1>3, PTL DEF CodecSpec, AccessorSpec

-----------------------------------------------------------------------------
(* What the receiver is entitled to *)

\* What was received, in terms of the parser's loop.
LEMMA ReceivedIs ==
    ASSUME CodecInv, delivered, NEW r, r = Result(msgType, wire)
    PROVE  /\ received = [ok |-> r.status = "reading", msg |-> r.msg]
           /\ \A m : ParseFromArray(msgType, m, wire) = received
<1>1. ASSUME NEW m
      PROVE  ParseFromArray(msgType, m, wire) = [ok |-> r.status = "reading", msg |-> r.msg]
    BY DEF ParseFromArray, ParseInto, Result, Reading, Returned
<1>2. received = ParseFromArray(msgType, Cleared(msgType), wire)
    BY DEF CodecInv
<1>3. QED BY <1>1, <1>2

\* An outcome in terms of what ParseFromArray returns.
LEMMA OutcomeReceived ==
    ASSUME CodecInv, delivered, NEW G, NEW c, Outcome(Result(msgType, wire), 0 \in G, c)
    PROVE  /\ received.ok \in BOOLEAN /\ (received.ok <=> 0 \in G)
           /\ received.ok => received.msg = c
<1>r. PICK r : r = Result(msgType, wire)
    OBVIOUS
<1>1. received = [ok |-> r.status = "reading", msg |-> r.msg]
    BY <1>r, ReceivedIs
<1>2. received.ok = (r.status = "reading") /\ received.msg = r.msg
    BY <1>1
<1>3. CASE 0 \in G
    <2>1. r = Reading(c)
        BY <1>r, <1>3 DEF Outcome
    <2>2. r.status = "reading" /\ r.msg = c
        BY <2>1 DEF Reading, State
    <2>3. QED BY <1>2, <1>3, <2>2
<1>4. CASE 0 \notin G
    <2>1. r.status # "reading"
        BY <1>r, <1>4 DEF Outcome
    <2>2. QED BY <1>2, <1>4, <2>1
<1>5. QED BY <1>3, <1>4

\* One object was sent.
LEMMA OneSent ==
    ASSUME CodecInv, Len(parts) = 1
    PROVE  /\ parts[1] \in Objects(msgType)
           /\ Heard(msgType, parts[1], noise, wire, ReadAs(msgType, parts[1], noise))
<1>T. PICK T \in MessageTypes : T = msgType
    BY DEF CodecInv
<1>p. PICK p \in Seq(Objects(T)) : p = parts
    BY <1>T DEF CodecInv
<1>l. Len(p) = 1
    BY <1>p
<1>1. p[1] \in Objects(T)
    <2>O. PICK O : O = Objects(T)
        OBVIOUS
    <2>1. \A i \in 1 .. Len(p) : p[i] \in O
        BY <1>p, <2>O, ElementOfSeq
    <2>2. 1 \in 1 .. 1
        OBVIOUS
    <2>3. QED BY <1>l, <2>O, <2>1, <2>2
<1>2. Joint(Encoded(T, p)) = Serialize(T, p[1])
    <2>1. Len(p) = 1 /\ 1 \in Nat /\ 1 <= 1 /\ 1 <= Len(p)
        BY <1>l
    <2>2. JointTo(Encoded(T, p), 1) = Serialize(T, p[1])
        BY <2>1, ManyTaken
    <2>3. Len(Encoded(T, p)) = 1
        <3>1. DOMAIN p = 1 .. 1
            BY <2>1, LenProperties
        <3>2. QED BY <3>1 DEF Encoded
    <2>4. QED BY <2>2, <2>3 DEF Joint
<1>3. wire = Sent(T, p[1], noise)
    BY <1>T, <1>p, <1>2 DEF CodecInv, Packet, Sent
<1>4. noise \in {"none"} \cup NoiseKinds
    BY DEF CodecInv
<1>5. Heard(T, p[1], noise, wire, ReadAs(T, p[1], noise))
    BY <1>1, <1>3, <1>4, AllHeard
<1>6. QED BY <1>T, <1>p, <1>1, <1>5

\* One or more were, as they are.
LEMMA ManySent ==
    ASSUME CodecInv, noise = "none", NEW k, k = Len(parts), parts # << >>
    PROVE  /\ k \in Nat /\ \E c : Taken(msgType, parts, k, wire, c)
           /\ k = 2 => Taken(msgType, parts, k, wire, MergeFrom(msgType, parts[1], parts[2]))
<1>T. PICK T \in MessageTypes : T = msgType
    BY DEF CodecInv
<1>p. PICK p \in Seq(Objects(T)) : p = parts
    BY <1>T DEF CodecInv
<1>n. PICK n \in Nat : n = Len(p) /\ DOMAIN p = 1 .. n
    BY LenProperties
<1>1. 1 <= n
    <2>1. n # 0
        BY <1>n, <1>p, EmptySeq
    <2>2. QED BY <2>1
<1>2. wire = JointTo(Encoded(T, p), n)
    <2>1. Len(Encoded(T, p)) = n
        BY <1>n DEF Encoded
    <2>2. QED BY <1>T, <1>p, <2>1 DEF CodecInv, Packet, Joint
<1>3. n <= Len(p)
    BY <1>n
<1>4. /\ \E c : Taken(T, p, n, JointTo(Encoded(T, p), n), c)
      /\ n = 2 => Taken(T, p, n, JointTo(Encoded(T, p), n), MergeFrom(T, p[1], p[2]))
    BY <1>1, <1>3, ManyTaken
<1>5. k = n
    BY <1>n, <1>p
<1>6. QED BY <1>T, <1>p, <1>2, <1>4, <1>5

\* Whatever was received in full is an object whose strings are UTF-8.
LEMMA ReceivedObject ==
    ASSUME CodecInv, delivered, received.ok
    PROVE  /\ IsMsg(msgType, received.msg) /\ WellFormed(msgType, received.msg)
           /\ received.ok = TRUE
<1>1. parts # << >> /\ msgType \in MessageTypes
    BY DEF CodecInv
<1>2. CASE noise = "none"
    <2>k. PICK k : k = Len(parts)
        OBVIOUS
    <2>c. PICK c : Taken(msgType, parts, k, wire, c)
        BY <1>1, <1>2, <2>k, ManySent
    <2>G. PICK G : G = {x \in {0} : FineUpto(msgType, parts, k)}
        OBVIOUS
    <2>1. Outcome(Result(msgType, wire), 0 \in G, c)
        BY <2>c, <2>G DEF Taken, Outcome
    <2>2. /\ received.ok \in BOOLEAN /\ (received.ok <=> 0 \in G)
          /\ received.ok => received.msg = c
        BY <2>1, OutcomeReceived
    <2>3. received.msg = c /\ FineUpto(msgType, parts, k) /\ received.ok = TRUE
        BY <2>2, <2>G
    <2>4. QED BY <2>c, <2>3 DEF Taken
<1>3. CASE noise # "none"
    <2>0. Len(parts) = 1
        BY <1>3 DEF CodecInv
    <2>m. PICK m : m = parts[1]
        OBVIOUS
    <2>c. PICK c : c = ReadAs(msgType, m, noise)
        OBVIOUS
    <2>1. Heard(msgType, m, noise, wire, c)
        BY <2>0, <2>m, <2>c, OneSent
    <2>G. PICK G : G = {x \in {0} : WellFormed(msgType, m) /\ noise # "next"}
        OBVIOUS
    <2>2. Outcome(Result(msgType, wire), 0 \in G, c)
        BY <2>1, <2>G DEF Heard, Outcome
    <2>3. /\ received.ok \in BOOLEAN /\ (received.ok <=> 0 \in G)
          /\ received.ok => received.msg = c
        BY <2>2, OutcomeReceived
    <2>4. received.msg = c /\ WellFormed(msgType, m) /\ received.ok = TRUE
        BY <2>3, <2>G
    <2>5. QED BY <2>1, <2>4 DEF Heard
<1>4. QED BY <1>2, <1>3

-----------------------------------------------------------------------------
(* The properties *)

\* A prefix of two objects, or of one, and what is well formed of it.
LEMMA FineTwo ==
    ASSUME NEW T, NEW ps
    PROVE  FineUpto(T, ps, 2) <=> \A i \in 1 .. 2 : WellFormed(T, ps[i])
BY DEF FineUpto

\* Once one encoding was parsed, RoundTrip holds.
LEMMA OneRoundTrip ==
    CodecInv => RoundTrip
<1> SUFFICES ASSUME CodecInv, delivered, Len(parts) = 1
             PROVE  /\ received.ok <=> WellFormed(msgType, parts[1]) /\ noise # "next"
                    /\ received.ok => received.msg = Expected
    BY DEF RoundTrip
<1>m. PICK m : m = parts[1]
    OBVIOUS
<1>c. PICK c : c = ReadAs(msgType, m, noise)
    OBVIOUS
<1>1. Heard(msgType, m, noise, wire, c)
    BY <1>m, <1>c, OneSent
<1>G. PICK G : G = {x \in {0} : WellFormed(msgType, m) /\ noise # "next"}
    OBVIOUS
<1>2. Outcome(Result(msgType, wire), 0 \in G, c)
    BY <1>1, <1>G DEF Heard, Outcome
<1>3. /\ received.ok \in BOOLEAN /\ (received.ok <=> 0 \in G)
      /\ received.ok => received.msg = c
    BY <1>2, OutcomeReceived
<1>4. Expected = c
    <2>1. ~(1 = 2)
        OBVIOUS
    <2>2. Len(parts) # 2
        BY <2>1
    <2>3. QED BY <1>m, <1>c, <2>2 DEF Expected
<1>5. 0 \in G <=> WellFormed(msgType, m) /\ noise # "next"
    BY <1>G
<1>6. QED BY <1>m, <1>3, <1>4, <1>5

\* Once two were parsed, ConcatMerges does.
LEMMA TwoMerged ==
    CodecInv => ConcatMerges
<1> SUFFICES ASSUME CodecInv, delivered, Len(parts) = 2
             PROVE  /\ received.ok <=> \A i \in 1 .. 2 : WellFormed(msgType, parts[i])
                    /\ received.ok => received.msg = Expected
    BY DEF ConcatMerges
<1>1. noise = "none" /\ parts # << >>
    <2>1. ~(2 = 1)
        OBVIOUS
    <2>2. QED BY <2>1 DEF CodecInv
<1>c. PICK c : c = MergeFrom(msgType, parts[1], parts[2])
    OBVIOUS
<1>2. Taken(msgType, parts, 2, wire, c)
    <2>k. PICK k : k = Len(parts)
        OBVIOUS
    <2>1. k = 2
        BY <2>k
    <2>2. Taken(msgType, parts, k, wire, MergeFrom(msgType, parts[1], parts[2]))
        BY <1>1, <2>k, <2>1, ManySent
    <2>3. QED BY <1>c, <2>1, <2>2
<1>G. PICK G : G = {x \in {0} : FineUpto(msgType, parts, 2)}
    OBVIOUS
<1>3. Outcome(Result(msgType, wire), 0 \in G, c)
    BY <1>2, <1>G DEF Taken, Outcome
<1>4. /\ received.ok \in BOOLEAN /\ (received.ok <=> 0 \in G)
      /\ received.ok => received.msg = c
    BY <1>3, OutcomeReceived
<1>5. Expected = c
    BY <1>c DEF Expected
<1>6. 0 \in G <=> \A i \in 1 .. 2 : WellFormed(msgType, parts[i])
    BY <1>G, FineTwo
<1>7. QED BY <1>4, <1>5, <1>6

\* The bytes that are skipped, for one encoding.
LEMMA OneSkip ==
    ASSUME CodecInv, delivered, received.ok, Len(parts) = 1
    PROVE  Skips(msgType, received.msg, noise, wire)
<1>m. PICK m : m = parts[1]
    OBVIOUS
<1>c. PICK c : c = ReadAs(msgType, m, noise)
    OBVIOUS
<1>1. Heard(msgType, m, noise, wire, c)
    BY <1>m, <1>c, OneSent
<1>G. PICK G : G = {x \in {0} : WellFormed(msgType, m) /\ noise # "next"}
    OBVIOUS
<1>2. Outcome(Result(msgType, wire), 0 \in G, c)
    BY <1>1, <1>G DEF Heard, Outcome
<1>3. /\ received.ok \in BOOLEAN /\ (received.ok <=> 0 \in G)
      /\ received.ok => received.msg = c
    BY <1>2, OutcomeReceived
<1>4. received.msg = c /\ noise # "next"
    BY <1>3, <1>G
<1>5. QED BY <1>1, <1>4 DEF Heard

\* The bytes that are skipped, for several.
LEMMA ManySkip ==
    ASSUME CodecInv, delivered, received.ok, noise = "none"
    PROVE  ~(ByteSizeLong(msgType, received.msg) > WireSize(wire))
<1>1. parts # << >>
    BY DEF CodecInv
<1>k. PICK k : k = Len(parts)
    OBVIOUS
<1>c. PICK c : Taken(msgType, parts, k, wire, c)
    BY <1>1, <1>k, ManySent
<1>G. PICK G : G = {x \in {0} : FineUpto(msgType, parts, k)}
    OBVIOUS
<1>2. Outcome(Result(msgType, wire), 0 \in G, c)
    BY <1>c, <1>G DEF Taken, Outcome
<1>3. received.ok => received.msg = c
    BY <1>2, OutcomeReceived
<1>s. PICK x \in Nat : x = ByteSizeLong(msgType, c)
    BY <1>c DEF Taken
<1>t. PICK y \in Nat : y = WireSize(wire)
    BY <1>c DEF Taken
<1>4. x <= y
    BY <1>c, <1>s, <1>t DEF Taken
<1>5. ~(x > y)
    BY <1>4
<1>6. QED BY <1>3, <1>s, <1>t, <1>5

\* So what is skipped is as SkipInside says.
LEMMA SkipsAreInside ==
    CodecInv => SkipInside
<1> SUFFICES ASSUME CodecInv, delivered, received.ok PROVE SkipInside
    BY DEF SkipInside
<1>1. CASE Len(parts) = 1
    <2>1. Skips(msgType, received.msg, noise, wire)
        BY <1>1, OneSkip
    <2>2. QED BY <2>1 DEF SkipInside, Skips
<1>2. CASE Len(parts) # 1
    <2>1. noise = "none"
        BY <1>2 DEF CodecInv
    <2>2. ~(ByteSizeLong(msgType, received.msg) > WireSize(wire))
        BY <2>1, ManySkip
    <2>3. Len(parts) > 1
        <3>T. PICK O : O = Objects(msgType)
            OBVIOUS
        <3>p. PICK p \in Seq(O) : p = parts
            BY <3>T DEF CodecInv
        <3>n. PICK n \in Nat : n = Len(p)
            BY LenProperties
        <3>1. n # 0
            <4>1. p # << >>
                BY <3>p DEF CodecInv
            <4>2. QED BY <3>n, <4>1, EmptySeq
        <3>2. n # 1
            BY <1>2, <3>p, <3>n
        <3>3. n > 1
            BY <3>1, <3>2
        <3>4. QED BY <3>p, <3>n, <3>3
    <2>4. QED BY <2>2, <2>3 DEF SkipInside
<1>3. QED BY <1>1, <1>2

\* Whatever was received can be sent on.
LEMMA ReceivedRelayed ==
    CodecInv => RelayStable
<1> SUFFICES ASSUME CodecInv, delivered, received.ok PROVE RelayStable
    BY DEF RelayStable
<1>T. PICK T \in MessageTypes : T = msgType
    BY DEF CodecInv
<1>m. PICK m : m = received.msg
    OBVIOUS
<1>w. PICK w : w = Serialize(T, m)
    OBVIOUS
<1>1. IsMsg(T, m) /\ WellFormed(T, m) /\ received.ok = TRUE
    BY <1>T, <1>m, ReceivedObject
<1>2. WireSize(w) = ByteSizeLong(T, m)
    BY <1>1, <1>w, ObjectSized
<1>3. Outcome(Result(T, w), WellFormed(T, m), m)
    BY <1>1, <1>w, Untouched
<1>4. Result(T, w) = Reading(m)
    BY <1>1, <1>3 DEF Outcome
<1>5. ParseFromArray(T, m, w) = [ok |-> TRUE, msg |-> m]
    <2>1. ParseInto(T, Cleared(T), w) = Reading(m)
        BY <1>4 DEF ParseInto, Result, Reading
    <2>2. Reading(m).status = "reading" /\ Reading(m).msg = m
        BY DEF Reading, State
    <2>3. QED BY <2>1, <2>2 DEF ParseFromArray, Returned
<1>6. received = [ok |-> TRUE, msg |-> m]
    <2>r. PICK r : r = Result(msgType, wire)
        OBVIOUS
    <2>1. received = [ok |-> r.status = "reading", msg |-> r.msg]
        BY <2>r, ReceivedIs
    <2>b. PICK b : b = (r.status = "reading")
        OBVIOUS
    <2>2. received = [ok |-> b, msg |-> r.msg]
        BY <2>1, <2>b
    <2>3. received.ok = b /\ received.msg = r.msg
        BY <2>2
    <2>4. QED BY <1>1, <1>m, <2>2, <2>3
<1>7. QED BY <1>T, <1>m, <1>w, <1>2, <1>5, <1>6 DEF RelayStable

\* However the peer encodes an object and whatever the receiver's one held, one
\* encoding is parsed exactly when its strings are UTF-8 and nothing follows,
\* and then as it was set.
THEOREM AlwaysRoundTrip == AccessorSpec => []RoundTrip
BY PacketAlwaysIs, OneRoundTrip, PTL

\* Two encodings in one packet are read as MergeFrom merges the objects.
THEOREM AlwaysMerges == AccessorSpec => []ConcatMerges
BY PacketAlwaysIs, TwoMerged, PTL

\* The bytes PARSE_PB_AND_CHECK skips are those that came, but for the
\* encodings SkipInside names.
THEOREM AlwaysSkipsInside == AccessorSpec => []SkipInside
BY PacketAlwaysIs, SkipsAreInside, PTL

\* What was received, unknown fields included, can be sent on and arrives as it is.
THEOREM AlwaysRelayed == AccessorSpec => []RelayStable
BY PacketAlwaysIs, ReceivedRelayed, PTL
==============================================================================
