---------------------------- MODULE HelperProofs ----------------------------
(***************************************************************************)
(* Theorems about the helpers that compute rather than wait.               *)
(*                                                                         *)
(* FileUtil: CreateDirectory makes the directories of its path, for every  *)
(* path.  After each turn of its loop, ParsePathComponents has found the   *)
(* places on the way to where it stands (OnWay), or has passed the end.    *)
(*                                                                         *)
(* ChatTime: what the label of a message says is true, for every minute of *)
(* the calendar and however often the list is looked at.                   *)
(*                                                                         *)
(* What is recursive is a recursive function: what is said of all its      *)
(* values is proved by induction over the set of the numbers of which it   *)
(* is true.                                                                *)
(***************************************************************************)
EXTENDS FileUtil, ChatTime, SequenceTheorems, TLAPS, WellFoundedInduction

-----------------------------------------------------------------------------
(* Induction *)

\* A set of numbers that is not empty has a least one.
LEMMA Least ==
    ASSUME NEW T \in SUBSET Nat, T # {}
    PROVE  \E x \in T : \A y \in T : x <= y
<1> DEFINE R == {ss \in Nat \X Nat : ss[1] < ss[2]}
<1>1. IsWellFoundedOn(R, Nat)
    BY NatLessThanWellFounded DEF OpToRel
<1> HIDE DEF R
<1>2. \E x \in T : \A y \in T : ~ (<<y, x>> \in R)
    BY <1>1, WFMin
<1>3. PICK x \in T : \A y \in T : <<y, x>> \notin R
    BY <1>2
<1>4. ASSUME NEW y \in T PROVE x <= y
    <2>1. <<y, x>> \in Nat \X Nat /\ <<y, x>> \notin R
        BY <1>3
    <2>2. ~(<<y, x>>[1] < <<y, x>>[2])
        BY <2>1 DEF R
    <2>3. QED BY <2>1, <2>2
<1>5. QED BY <1>4

\* A set with 0, and with the successor of each of its numbers, has them all.
LEMMA Induct ==
    ASSUME NEW S, 0 \in S, \A n \in Nat : n \in S => n + 1 \in S
    PROVE  Nat \subseteq S
<1> SUFFICES ASSUME NEW T, T = Nat \ S, T # {} PROVE FALSE
    OBVIOUS
<1>1. PICK x \in T : \A y \in T : x <= y
    BY Least
<1>2. x # 0 /\ x - 1 \in Nat
    OBVIOUS
<1>3. x - 1 \notin T
    BY <1>1, <1>2
<1>4. (x - 1) + 1 = x
    OBVIOUS
<1>5. QED BY <1>2, <1>3, <1>4


-----------------------------------------------------------------------------
(* Files: the parts of a path *)

\* What the recursion of Joined says of a function.
IsJoin(c, cs, n) ==
    c = [b \in 0 .. n |-> IF b = 0 THEN << >> ELSE c[b - 1] \o cs[b]]

\* A function that satisfies it exists, for every length.
LEMMA JoinExists ==
    ASSUME NEW cs, NEW n \in Nat
    PROVE  \E c : IsJoin(c, cs, n)
<1> DEFINE S == {k \in Nat : \E c : IsJoin(c, cs, k)}
<1>1. 0 \in S
    <2> DEFINE c == [b \in 0 .. 0 |-> << >>]
    <2>1. c = [b \in 0 .. 0 |-> IF b = 0 THEN << >> ELSE c[b - 1] \o cs[b]]
        OBVIOUS
    <2>2. QED BY <2>1 DEF IsJoin
<1>2. ASSUME NEW k \in Nat, k \in S PROVE k + 1 \in S
    <2>1. PICK c : IsJoin(c, cs, k)
        BY <1>2
    <2> DEFINE d == [b \in 0 .. k + 1 |-> IF b <= k THEN c[b]
                                          ELSE c[k] \o cs[k + 1]]
    <2>2. ASSUME NEW b \in 0 .. k + 1
          PROVE  d[b] = IF b = 0 THEN << >> ELSE d[b - 1] \o cs[b]
        <3>1. CASE b = 0
            <4>1. d[b] = c[0] /\ 0 \in 0 .. k
                BY <3>1
            <4>2. c[0] = << >>
                BY <2>1, <4>1 DEF IsJoin
            <4>3. QED BY <3>1, <4>1, <4>2
        <3>2. CASE b \in 1 .. k
            <4>1. d[b] = c[b] /\ d[b - 1] = c[b - 1]
                BY <3>2
            <4>2. b \in 0 .. k /\ b # 0
                BY <3>2
            <4>3. c[b] = c[b - 1] \o cs[b]
                BY <2>1, <4>2 DEF IsJoin
            <4>4. QED BY <4>1, <4>2, <4>3
        <3>3. CASE b = k + 1
            <4>1. d[b] = c[k] \o cs[k + 1] /\ d[b - 1] = c[k] /\ b # 0
                BY <3>3
            <4>2. QED BY <3>3, <4>1
        <3>4. QED BY <3>1, <3>2, <3>3
    <2>3. d = [b \in 0 .. k + 1 |-> IF b = 0 THEN << >> ELSE d[b - 1] \o cs[b]]
        <3>1. d = [b \in 0 .. k + 1 |-> d[b]]
            OBVIOUS
        <3> HIDE DEF d
        <3>2. QED BY <2>2, <3>1
    <2>4. k + 1 \in Nat
        OBVIOUS
    <2> HIDE DEF d
    <2>5. QED BY <2>3, <2>4 DEF IsJoin
<1> HIDE DEF S
<1>3. Nat \subseteq S
    BY <1>1, <1>2, Induct
<1>4. QED BY <1>3 DEF S

\* Two of them agree as far as both go.
LEMMA JoinUnique ==
    ASSUME NEW cs, NEW n \in Nat, NEW m \in Nat, n <= m,
           NEW c, IsJoin(c, cs, n), NEW d, IsJoin(d, cs, m)
    PROVE  \A k \in 0 .. n : c[k] = d[k]
<1> DEFINE S == {k \in Nat : k <= n => c[k] = d[k]}
<1>1. 0 \in S
    BY DEF IsJoin
<1>2. ASSUME NEW k \in Nat, k \in S PROVE k + 1 \in S
    <2>1. SUFFICES ASSUME k + 1 <= n PROVE c[k + 1] = d[k + 1]
        OBVIOUS
    <2>2. k + 1 \in 0 .. n /\ k + 1 \in 0 .. m /\ k + 1 # 0 /\ (k + 1) - 1 = k
        BY <2>1
    <2>3. c[k + 1] = c[k] \o cs[k + 1]
        BY <2>2 DEF IsJoin
    <2>4. d[k + 1] = d[k] \o cs[k + 1]
        BY <2>2 DEF IsJoin
    <2>5. c[k] = d[k]
        BY <1>2, <2>1
    <2>6. QED BY <2>3, <2>4, <2>5
<1> HIDE DEF S
<1>3. Nat \subseteq S
    BY <1>1, <1>2, Induct
<1>4. QED BY <1>3 DEF S

\* Joined adds one component after another.
LEMMA JoinStep ==
    ASSUME NEW cs
    PROVE  /\ Joined(cs, 0) = << >>
           /\ \A n \in Nat : Joined(cs, n + 1)
                                = Joined(cs, n) \o cs[n + 1]
<1> DEFINE C(n) == CHOOSE c : IsJoin(c, cs, n)
<1>1. ASSUME NEW n \in Nat PROVE Joined(cs, n) = C(n)[n] /\ IsJoin(C(n), cs, n)
    <2>1. Joined(cs, n) = C(n)[n]
        BY DEF Joined, IsJoin
    <2>2. \E c : IsJoin(c, cs, n)
        BY JoinExists
    <2>3. QED BY <2>1, <2>2
<1> HIDE DEF C
<1>2. Joined(cs, 0) = << >>
    <2>1. IsJoin(C(0), cs, 0) /\ 0 \in 0 .. 0
        BY <1>1
    <2> PICK c : c = C(0)
        OBVIOUS
    <2>2. c[0] = << >>
        BY <2>1 DEF IsJoin
    <2>3. QED BY <1>1, <2>2
<1>3. ASSUME NEW n \in Nat
      PROVE  Joined(cs, n + 1) = Joined(cs, n) \o cs[n + 1]
    <2>1. n + 1 \in Nat /\ n <= n + 1 /\ n + 1 \in 0 .. n + 1 /\ n + 1 # 0 /\ (n + 1) - 1 = n
          /\ n \in 0 .. n
        OBVIOUS
    <2>2. C(n + 1)[n + 1] = C(n + 1)[n] \o cs[n + 1]
        BY <1>1, <2>1 DEF IsJoin
    <2>3. C(n)[n] = C(n + 1)[n]
        BY <1>1, <2>1, JoinUnique
    <2>4. QED BY <1>1, <2>1, <2>2, <2>3
<1>4. QED BY <1>2, <1>3


\* What the recursion of Passed says of a function.
IsPassed(c, p, n) ==
    c = [b \in 0 .. n |-> IF b = 0 THEN << >> ELSE Further(c[b - 1], p, b)]

\* A function that satisfies it exists, for every length.
LEMMA PassedExists ==
    ASSUME NEW p, NEW n \in Nat
    PROVE  \E c : IsPassed(c, p, n)
<1> DEFINE S == {k \in Nat : \E c : IsPassed(c, p, k)}
<1>1. 0 \in S
    <2> DEFINE c == [b \in 0 .. 0 |-> << >>]
    <2>1. c = [b \in 0 .. 0 |-> IF b = 0 THEN << >> ELSE Further(c[b - 1], p, b)]
        OBVIOUS
    <2>2. QED BY <2>1 DEF IsPassed
<1>2. ASSUME NEW k \in Nat, k \in S PROVE k + 1 \in S
    <2>1. PICK c : IsPassed(c, p, k)
        BY <1>2
    <2> DEFINE d == [b \in 0 .. k + 1 |-> IF b <= k THEN c[b]
                                          ELSE Further(c[k], p, k + 1)]
    <2>2. ASSUME NEW b \in 0 .. k + 1
          PROVE  d[b] = IF b = 0 THEN << >> ELSE Further(d[b - 1], p, b)
        <3>1. CASE b = 0
            <4>1. d[b] = c[0] /\ 0 \in 0 .. k
                BY <3>1
            <4>2. c[0] = << >>
                BY <2>1, <4>1 DEF IsPassed
            <4>3. QED BY <3>1, <4>1, <4>2
        <3>2. CASE b \in 1 .. k
            <4>1. d[b] = c[b] /\ d[b - 1] = c[b - 1]
                BY <3>2
            <4>2. b \in 0 .. k /\ b # 0
                BY <3>2
            <4>3. c[b] = Further(c[b - 1], p, b)
                BY <2>1, <4>2 DEF IsPassed
            <4>4. QED BY <4>1, <4>2, <4>3
        <3>3. CASE b = k + 1
            <4>1. d[b] = Further(c[k], p, k + 1) /\ d[b - 1] = c[k] /\ b # 0
                BY <3>3
            <4>2. QED BY <3>3, <4>1
        <3>4. QED BY <3>1, <3>2, <3>3
    <2>3. d = [b \in 0 .. k + 1 |-> IF b = 0 THEN << >> ELSE Further(d[b - 1], p, b)]
        <3>1. d = [b \in 0 .. k + 1 |-> d[b]]
            OBVIOUS
        <3> HIDE DEF d
        <3>2. QED BY <2>2, <3>1
    <2>4. k + 1 \in Nat
        OBVIOUS
    <2> HIDE DEF d
    <2>5. QED BY <2>3, <2>4 DEF IsPassed
<1> HIDE DEF S
<1>3. Nat \subseteq S
    BY <1>1, <1>2, Induct
<1>4. QED BY <1>3 DEF S

\* Two of them agree as far as both go.
LEMMA PassedUnique ==
    ASSUME NEW p, NEW n \in Nat, NEW m \in Nat, n <= m,
           NEW c, IsPassed(c, p, n), NEW d, IsPassed(d, p, m)
    PROVE  \A k \in 0 .. n : c[k] = d[k]
<1> DEFINE S == {k \in Nat : k <= n => c[k] = d[k]}
<1>1. 0 \in S
    BY DEF IsPassed
<1>2. ASSUME NEW k \in Nat, k \in S PROVE k + 1 \in S
    <2>1. SUFFICES ASSUME k + 1 <= n PROVE c[k + 1] = d[k + 1]
        OBVIOUS
    <2>2. k + 1 \in 0 .. n /\ k + 1 \in 0 .. m /\ k + 1 # 0 /\ (k + 1) - 1 = k
        BY <2>1
    <2>3. c[k + 1] = Further(c[k], p, k + 1)
        BY <2>2 DEF IsPassed
    <2>4. d[k + 1] = Further(d[k], p, k + 1)
        BY <2>2 DEF IsPassed
    <2>5. c[k] = d[k]
        BY <1>2, <2>1
    <2>6. QED BY <2>3, <2>4, <2>5
<1> HIDE DEF S
<1>3. Nat \subseteq S
    BY <1>1, <1>2, Induct
<1>4. QED BY <1>3 DEF S

\* Passed goes one character further after another.
LEMMA PassedStep ==
    ASSUME NEW p
    PROVE  /\ Passed(p, 0) = << >>
           /\ \A n \in Nat : Passed(p, n + 1)
                                = Further(Passed(p, n), p, n + 1)
<1> DEFINE C(n) == CHOOSE c : IsPassed(c, p, n)
<1>1. ASSUME NEW n \in Nat PROVE Passed(p, n) = C(n)[n] /\ IsPassed(C(n), p, n)
    <2>1. Passed(p, n) = C(n)[n]
        BY DEF Passed, IsPassed
    <2>2. \E c : IsPassed(c, p, n)
        BY PassedExists
    <2>3. QED BY <2>1, <2>2
<1> HIDE DEF C
<1>2. Passed(p, 0) = << >>
    <2>1. IsPassed(C(0), p, 0) /\ 0 \in 0 .. 0
        BY <1>1
    <2> PICK c : c = C(0)
        OBVIOUS
    <2>2. c[0] = << >>
        BY <2>1 DEF IsPassed
    <2>3. QED BY <1>1, <2>2
<1>3. ASSUME NEW n \in Nat
      PROVE  Passed(p, n + 1) = Further(Passed(p, n), p, n + 1)
    <2>1. n + 1 \in Nat /\ n <= n + 1 /\ n + 1 \in 0 .. n + 1 /\ n + 1 # 0 /\ (n + 1) - 1 = n
          /\ n \in 0 .. n
        OBVIOUS
    <2>2. C(n + 1)[n + 1] = Further(C(n + 1)[n], p, n + 1)
        BY <1>1, <2>1 DEF IsPassed
    <2>3. C(n)[n] = C(n + 1)[n]
        BY <1>1, <2>1, PassedUnique
    <2>4. QED BY <1>1, <2>1, <2>2, <2>3
<1>4. QED BY <1>2, <1>3


Begin == [next |-> 1, components |-> << >>]

\* What the recursion of Turns says of a function.
IsTurns(c, n) ==
    c = [b \in 0 .. n |-> IF b = 0 THEN Begin ELSE Turn(c[b - 1])]

\* A function that satisfies it exists, for every length.
LEMMA TurnsExists ==
    ASSUME NEW n \in Nat
    PROVE  \E c : IsTurns(c, n)
<1> DEFINE S == {k \in Nat : \E c : IsTurns(c, k)}
<1>1. 0 \in S
    <2> DEFINE c == [b \in 0 .. 0 |-> Begin]
    <2>1. c = [b \in 0 .. 0 |-> IF b = 0 THEN Begin ELSE Turn(c[b - 1])]
        OBVIOUS
    <2>2. QED BY <2>1 DEF IsTurns
<1>2. ASSUME NEW k \in Nat, k \in S PROVE k + 1 \in S
    <2>1. PICK c : IsTurns(c, k)
        BY <1>2
    <2> DEFINE d == [b \in 0 .. k + 1 |-> IF b <= k THEN c[b]
                                          ELSE Turn(c[k])]
    <2>2. ASSUME NEW b \in 0 .. k + 1
          PROVE  d[b] = IF b = 0 THEN Begin ELSE Turn(d[b - 1])
        <3>1. CASE b = 0
            <4>1. d[b] = c[0] /\ 0 \in 0 .. k
                BY <3>1
            <4>2. c[0] = Begin
                BY <2>1, <4>1 DEF IsTurns
            <4>3. QED BY <3>1, <4>1, <4>2
        <3>2. CASE b \in 1 .. k
            <4>1. d[b] = c[b] /\ d[b - 1] = c[b - 1]
                BY <3>2
            <4>2. b \in 0 .. k /\ b # 0
                BY <3>2
            <4>3. c[b] = Turn(c[b - 1])
                BY <2>1, <4>2 DEF IsTurns
            <4>4. QED BY <4>1, <4>2, <4>3
        <3>3. CASE b = k + 1
            <4>1. d[b] = Turn(c[k]) /\ d[b - 1] = c[k] /\ b # 0
                BY <3>3
            <4>2. QED BY <3>3, <4>1
        <3>4. QED BY <3>1, <3>2, <3>3
    <2>3. d = [b \in 0 .. k + 1 |-> IF b = 0 THEN Begin ELSE Turn(d[b - 1])]
        <3>1. d = [b \in 0 .. k + 1 |-> d[b]]
            OBVIOUS
        <3> HIDE DEF d
        <3>2. QED BY <2>2, <3>1
    <2>4. k + 1 \in Nat
        OBVIOUS
    <2> HIDE DEF d
    <2>5. QED BY <2>3, <2>4 DEF IsTurns
<1> HIDE DEF S
<1>3. Nat \subseteq S
    BY <1>1, <1>2, Induct
<1>4. QED BY <1>3 DEF S

\* Two of them agree as far as both go.
LEMMA TurnsUnique ==
    ASSUME NEW n \in Nat, NEW m \in Nat, n <= m,
           NEW c, IsTurns(c, n), NEW d, IsTurns(d, m)
    PROVE  \A k \in 0 .. n : c[k] = d[k]
<1> DEFINE S == {k \in Nat : k <= n => c[k] = d[k]}
<1>1. 0 \in S
    BY DEF IsTurns
<1>2. ASSUME NEW k \in Nat, k \in S PROVE k + 1 \in S
    <2>1. SUFFICES ASSUME k + 1 <= n PROVE c[k + 1] = d[k + 1]
        OBVIOUS
    <2>2. k + 1 \in 0 .. n /\ k + 1 \in 0 .. m /\ k + 1 # 0 /\ (k + 1) - 1 = k
        BY <2>1
    <2>3. c[k + 1] = Turn(c[k])
        BY <2>2 DEF IsTurns
    <2>4. d[k + 1] = Turn(d[k])
        BY <2>2 DEF IsTurns
    <2>5. c[k] = d[k]
        BY <1>2, <2>1
    <2>6. QED BY <2>3, <2>4, <2>5
<1> HIDE DEF S
<1>3. Nat \subseteq S
    BY <1>1, <1>2, Induct
<1>4. QED BY <1>3 DEF S

\* Turns makes one turn after another.
LEMMA TurnsStep ==
    /\ Turns(0) = Begin
    /\ \A n \in Nat : Turns(n + 1) = Turn(Turns(n))
<1> DEFINE C(n) == CHOOSE c : IsTurns(c, n)
<1>1. ASSUME NEW n \in Nat PROVE Turns(n) = C(n)[n] /\ IsTurns(C(n), n)
    <2>1. Turns(n) = C(n)[n]
        BY DEF Turns, IsTurns, Begin
    <2>2. \E c : IsTurns(c, n)
        BY TurnsExists
    <2>3. QED BY <2>1, <2>2
<1> HIDE DEF C
<1>2. Turns(0) = Begin
    <2>1. IsTurns(C(0), 0) /\ 0 \in 0 .. 0
        BY <1>1
    <2> PICK c : c = C(0)
        OBVIOUS
    <2>2. c[0] = Begin
        BY <2>1 DEF IsTurns
    <2>3. QED BY <1>1, <2>2
<1>3. ASSUME NEW n \in Nat
      PROVE  Turns(n + 1) = Turn(Turns(n))
    <2>1. n + 1 \in Nat /\ n <= n + 1 /\ n + 1 \in 0 .. n + 1 /\ n + 1 # 0 /\ (n + 1) - 1 = n
          /\ n \in 0 .. n
        OBVIOUS
    <2>2. C(n + 1)[n + 1] = Turn(C(n + 1)[n])
        BY <1>1, <2>1 DEF IsTurns
    <2>3. C(n)[n] = C(n + 1)[n]
        BY <1>1, <2>1, TurnsUnique
    <2>4. QED BY <1>1, <2>1, <2>2, <2>3
<1>4. QED BY <1>2, <1>3


-----------------------------------------------------------------------------
(* Files: the place a path names *)

Chars == Names \cup {Sep}
Strings == Seq(Chars)
Places == Seq(Strings)
Fresh(s) == s = << >> \/ s[Len(s)] = Sep

\* Where one has come after n characters depends on these only.
LEMMA PassedAgree ==
    ASSUME NEW p, NEW q, NEW n \in Nat, \A k \in 1 .. n : p[k] = q[k]
    PROVE  Passed(p, n) = Passed(q, n)
<1> DEFINE S == {k \in Nat : k <= n => Passed(p, k) = Passed(q, k)}
<1>1. 0 \in S
    BY PassedStep
<1>2. ASSUME NEW k \in Nat, k \in S PROVE k + 1 \in S
    <2>1. SUFFICES ASSUME k + 1 <= n PROVE Passed(p, k + 1) = Passed(q, k + 1)
        OBVIOUS
    <2>2. PICK l : l = Passed(p, k) /\ l = Passed(q, k)
        BY <1>2, <2>1
    <2>3. p[k + 1] = q[k + 1]
        BY <2>1
    <2>4. k + 1 = 1 \/ p[(k + 1) - 1] = q[(k + 1) - 1]
        BY <2>1
    <2>5. Further(l, p, k + 1) = Further(l, q, k + 1)
        BY <2>3, <2>4 DEF Further
    <2>6. QED BY <2>2, <2>5, PassedStep
<1> HIDE DEF S
<1>3. Nat \subseteq S
    BY <1>1, <1>2, Induct
<1>4. QED BY <1>3 DEF S

\* The place named by the first characters of a path.
LEMMA PassedIs ==
    ASSUME NEW p \in Strings, NEW n \in 0 .. Len(p)
    PROVE  Passed(p, n) = Location(SubSeq(p, 1, n))
<1>1. PICK q : q = SubSeq(p, 1, n)
    OBVIOUS
<1>2. Len(q) = n /\ \A k \in 1 .. n : p[k] = q[k]
    BY <1>1 DEF Strings
<1>3. Passed(p, n) = Passed(q, n)
    BY <1>2, PassedAgree
<1>4. QED BY <1>1, <1>2, <1>3 DEF Location

\* A place is a sequence of names, and only the empty path has none.
LEMMA PassedType ==
    ASSUME NEW p \in Strings, NEW n \in 0 .. Len(p)
    PROVE  Passed(p, n) \in Places /\ (n > 0 => Len(Passed(p, n)) > 0)
<1> DEFINE S == {k \in Nat : k <= Len(p) => Passed(p, k) \in Places
                                            /\ (k > 0 => Len(Passed(p, k)) > 0)}
<1>0. Len(p) \in Nat
    BY DEF Strings
<1>1. 0 \in S
    <2>1. << >> \in Places
        BY EmptySeq DEF Places
    <2>2. QED BY <2>1, PassedStep
<1>2. ASSUME NEW k \in Nat, k \in S PROVE k + 1 \in S
    <2>1. SUFFICES ASSUME k + 1 <= Len(p)
                   PROVE  Passed(p, k + 1) \in Places /\ Len(Passed(p, k + 1)) > 0
        OBVIOUS
    <2>2. PICK l \in Places : l = Passed(p, k) /\ (k > 0 => Len(l) > 0)
        BY <1>0, <1>2, <2>1
    <2>3. PICK c \in Chars : c = p[k + 1]
        BY <1>0, <2>1 DEF Strings
    <2>4. Further(l, p, k + 1) \in Places /\ Len(Further(l, p, k + 1)) > 0
        <3>1. CASE c = Sep
            <4>1. << <<Sep>> >> \in Places /\ Len(<< <<Sep>> >>) > 0
                BY DEF Places, Strings, Chars
            <4>2. k + 1 # 1 => Len(l) > 0
                BY <2>2
            <4>3. QED BY <2>3, <3>1, <4>1, <4>2 DEF Further
        <3>2. CASE c # Sep /\ (k + 1 = 1 \/ p[(k + 1) - 1] = Sep)
            <4>1. <<c>> \in Strings
                BY DEF Strings
            <4>2. Append(l, <<c>>) \in Places /\ Len(Append(l, <<c>>)) > 0
                BY <4>1 DEF Places
            <4>3. QED BY <2>3, <3>2, <4>2 DEF Further
        <3>3. CASE c # Sep /\ ~(k + 1 = 1 \/ p[(k + 1) - 1] = Sep)
            <4>1. Len(l) \in Nat /\ Len(l) > 0
                BY <2>2, <3>3 DEF Places
            <4>2. l[Len(l)] \in Strings
                BY <4>1 DEF Places
            <4>3. PICK w \in Strings : w = Append(l[Len(l)], c)
                BY <4>2, AppendProperties DEF Strings
            <4>4. Further(l, p, k + 1) = [l EXCEPT ![Len(l)] = w]
                BY <2>3, <3>3, <4>3 DEF Further
            <4>5. [l EXCEPT ![Len(l)] = w] \in Places /\ Len([l EXCEPT ![Len(l)] = w]) = Len(l)
                BY <4>1, ExceptSeq DEF Places
            <4>6. QED BY <4>1, <4>4, <4>5
        <3>4. QED BY <3>1, <3>2, <3>3
    <2>5. QED BY <2>2, <2>4, PassedStep
<1> HIDE DEF S
<1>3. Nat \subseteq S
    BY <1>1, <1>2, Induct
<1>4. QED BY <1>0, <1>3 DEF S

LEMMA LocationType ==
    ASSUME NEW p \in Strings
    PROVE  Location(p) \in Places /\ (p # << >> => Len(Location(p)) > 0)
<1>1. Len(p) \in 0 .. Len(p) /\ (p # << >> => Len(p) > 0)
    BY DEF Strings
<1>2. QED BY <1>1, PassedType DEF Location

\* One character more.
LEMMA LocationAppend ==
    ASSUME NEW p \in Strings, NEW c \in Chars
    PROVE  /\ p # << >> /\ c = Sep => Location(Append(p, c)) = Location(p)
           /\ p = << >> /\ c = Sep => Location(Append(p, c)) = << <<Sep>> >>
           /\ Fresh(p) /\ c # Sep => Location(Append(p, c)) = Append(Location(p), <<c>>)
           /\ ~Fresh(p) /\ c # Sep =>
                 Location(Append(p, c))
                    = [Location(p) EXCEPT ![Len(Location(p))] = Append(@, c)]
<1>1. PICK n \in Nat : n = Len(p)
    BY DEF Strings
<1>2. PICK q : q = Append(p, c)
    OBVIOUS
<1>3. Len(q) = n + 1 /\ q[n + 1] = c /\ \A k \in 1 .. n : q[k] = p[k]
    BY <1>1, <1>2 DEF Strings
<1>4. PICK l : l = Location(p)
    OBVIOUS
<1>5. Passed(q, n) = l
    BY <1>1, <1>3, <1>4, PassedAgree DEF Location
<1>6. Location(q) = Further(l, q, n + 1)
    BY <1>3, <1>5, PassedStep DEF Location
<1>7. (n + 1 = 1 <=> p = << >>) /\ (n + 1) - 1 = n
    BY <1>1 DEF Strings
<1>8. p # << >> => q[n] = p[n]
    BY <1>3, <1>7
<1>9. Fresh(p) <=> n + 1 = 1 \/ q[n] = Sep
    BY <1>1, <1>7, <1>8 DEF Fresh
<1>10. /\ p # << >> /\ c = Sep => Further(l, q, n + 1) = l
       /\ p = << >> /\ c = Sep => Further(l, q, n + 1) = << <<Sep>> >>
       /\ Fresh(p) /\ c # Sep => Further(l, q, n + 1) = Append(l, <<c>>)
       /\ ~Fresh(p) /\ c # Sep => Further(l, q, n + 1) = [l EXCEPT ![Len(l)] = Append(@, c)]
    BY <1>3, <1>7, <1>9 DEF Further
<1>11. QED BY <1>2, <1>4, <1>6, <1>10

\* A name behind a separator, or at the start.
LEMMA LocationName ==
    ASSUME NEW u \in Strings, Fresh(u), NEW w \in Seq(Names), w # << >>
    PROVE  Location(u \o w) = Append(Location(u), w)
<1> DEFINE part(k) == SubSeq(w, 1, k)
           S == {k \in Nat : k + 1 <= Len(w) =>
                    Location(u \o part(k + 1)) = Append(Location(u), part(k + 1))}
<1>0. Len(w) \in Nat /\ Len(w) > 0 /\ part(Len(w)) = w /\ Sep \notin Names
      /\ \A k \in Nat : k <= Len(w) => part(k) \in Seq(Names) /\ Len(part(k)) = k
    BY FileAssumption
<1>1. ASSUME NEW k \in Nat, k + 1 <= Len(w)
      PROVE  /\ part(k + 1) = Append(part(k), w[k + 1])
             /\ w[k + 1] \in Names /\ part(k) \in Seq(Names) /\ Len(part(k)) = k
    <2>1. k \in 0 .. Len(w) /\ k + 1 \in 1 .. Len(w)
        BY <1>0, <1>1
    <2>2. w[k + 1] \in Names /\ part(k) \in Seq(Names) /\ Len(part(k)) = k
        BY <1>0, <2>1
    <2>3. Len(part(k + 1)) = Len(Append(part(k), w[k + 1]))
          /\ \A j \in 1 .. k + 1 : part(k + 1)[j] = Append(part(k), w[k + 1])[j]
        BY <1>0, <2>1, <2>2
    <2>4. part(k + 1) \in Seq(Names) /\ Append(part(k), w[k + 1]) \in Seq(Names)
        BY <1>0, <2>1, <2>2
    <2>5. Len(part(k + 1)) = k + 1
        BY <1>0, <2>1
    <2> HIDE DEF part
    <2>6. QED BY <2>2, <2>3, <2>4, <2>5, SeqEqual
<1>2. ASSUME NEW k \in Nat, k + 1 <= Len(w)
      PROVE  /\ u \o part(k + 1) = Append(u \o part(k), w[k + 1])
             /\ u \o part(k) \in Strings /\ w[k + 1] \in Chars /\ w[k + 1] # Sep
             /\ k = 0 => u \o part(k) = u
             /\ k # 0 => ~Fresh(u \o part(k))
    <2>1. part(k) \in Strings /\ w[k + 1] \in Chars
        BY <1>1, <1>2 DEF Strings, Chars
    <2>2. w[k + 1] # Sep
        BY <1>0, <1>1, <1>2
    <2>3. u \o Append(part(k), w[k + 1]) = Append(u \o part(k), w[k + 1])
        BY <2>1, AppendProperties, ConcatAssociative DEF Strings
    <2>4. k = 0 => part(k) = << >>
        OBVIOUS
    <2>5. k = 0 => u \o part(k) = u
        BY <2>4 DEF Strings
    <2>6. ASSUME k # 0 PROVE ~Fresh(u \o part(k))
        <3>1. k \in 1 .. Len(w) /\ part(k)[k] = w[k] /\ w[k] \in Names
            BY <1>0, <1>2, <2>6
        <3>2. Len(u \o part(k)) = Len(u) + k /\ Len(u) \in Nat
            BY <1>1, <1>2, <2>1, ConcatProperties DEF Strings
        <3>3. (u \o part(k))[Len(u) + k] = part(k)[k]
            BY <1>1, <1>2, <2>1, <3>1, <3>2 DEF Strings
        <3>4. u \o part(k) # << >>
            BY <2>6, <3>2
        <3>5. QED BY <1>0, <3>1, <3>2, <3>3, <3>4 DEF Fresh
    <2>7. QED BY <1>1, <1>2, <2>1, <2>2, <2>3, <2>5, <2>6, ConcatProperties DEF Strings
<1> HIDE DEF part
<1>3. 0 \in S
    <2>1. 0 + 1 <= Len(w) /\ 0 \in Nat
        BY <1>0
    <2>2. PICK z \in Nat : z = 0
        OBVIOUS
    <2>3. /\ u \o part(z + 1) = Append(u, w[z + 1]) /\ w[z + 1] \in Chars /\ w[z + 1] # Sep
        BY <1>2, <2>1, <2>2
    <2>4. Location(u \o part(z + 1)) = Append(Location(u), <<w[z + 1]>>)
        BY <2>3, LocationAppend
    <2>5. part(z + 1) = <<w[z + 1]>>
        <3>1. part(z + 1) = Append(part(z), w[z + 1]) /\ part(z) \in Seq(Names) /\ Len(part(z)) = 0
            BY <1>1, <2>1, <2>2
        <3>2. part(z) = << >>
            BY <3>1, EmptySeq
        <3>3. QED BY <3>1, <3>2
    <2>6. QED BY <2>2, <2>4, <2>5
<1>4. ASSUME NEW k \in Nat, k \in S PROVE k + 1 \in S
    <2>1. SUFFICES ASSUME (k + 1) + 1 <= Len(w)
                   PROVE  Location(u \o part((k + 1) + 1))
                             = Append(Location(u), part((k + 1) + 1))
        OBVIOUS
    <2>2. PICK m \in Nat : m = k + 1
        OBVIOUS
    <2>3. m # 0 /\ m <= Len(w) /\ m + 1 <= Len(w)
        BY <1>0, <2>1, <2>2
    <2>4. PICK l \in Places : l = Location(u)
        BY LocationType
    <2>5. PICK v \in Strings : v = part(m)
        BY <1>1, <2>3 DEF Strings, Chars
    <2>6. Location(u \o part(m)) = Append(l, v)
        BY <1>4, <2>2, <2>3, <2>4, <2>5
    <2>7. Location(u \o part(m + 1))
             = [Append(l, v) EXCEPT ![Len(Append(l, v))] = Append(@, w[m + 1])]
        <3>1. /\ u \o part(m + 1) = Append(u \o part(m), w[m + 1])
              /\ u \o part(m) \in Strings /\ w[m + 1] \in Chars /\ w[m + 1] # Sep
              /\ ~Fresh(u \o part(m))
            BY <1>2, <2>3
        <3>2. PICK z \in Strings : z = u \o part(m)
            BY <3>1
        <3>3. Location(Append(z, w[m + 1]))
                 = [Location(z) EXCEPT ![Len(Location(z))] = Append(@, w[m + 1])]
            BY <3>1, <3>2, LocationAppend
        <3>4. QED BY <2>6, <3>1, <3>2, <3>3
    <2>8. PICK x \in Strings : x = Append(v, w[m + 1])
        BY <1>2, <2>3, AppendProperties DEF Strings
    <2>9. [Append(l, v) EXCEPT ![Len(Append(l, v))] = Append(@, w[m + 1])] = Append(l, x)
        <3>1. PICK n \in Nat : n = Len(l)
            BY DEF Places
        <3>2. PICK a \in Places : a = Append(l, v)
            BY AppendProperties DEF Places
        <3>3. Len(a) = n + 1 /\ a[n + 1] = v /\ \A j \in 1 .. n : a[j] = l[j]
            BY <3>1, <3>2 DEF Places
        <3>4. [a EXCEPT ![Len(a)] = Append(@, w[m + 1])] = [a EXCEPT ![n + 1] = x]
            BY <2>8, <3>3
        <3>5. PICK b : b = [a EXCEPT ![n + 1] = x]
            OBVIOUS
        <3>6. /\ b \in Places /\ Len(b) = n + 1
              /\ \A j \in 1 .. n + 1 : b[j] = IF j = n + 1 THEN x ELSE a[j]
            BY <3>3, <3>5, ExceptSeq DEF Places
        <3>7. PICK c \in Places : c = Append(l, x)
            BY AppendProperties DEF Places
        <3>8. Len(c) = n + 1 /\ c[n + 1] = x /\ \A j \in 1 .. n : c[j] = l[j]
            BY <3>1, <3>7 DEF Places
        <3>9. \A j \in 1 .. n + 1 : b[j] = c[j]
            BY <3>3, <3>6, <3>8
        <3>10. b = c
            BY <3>6, <3>8, <3>9, SeqEqual DEF Places
        <3>11. QED BY <3>2, <3>4, <3>5, <3>7, <3>10
    <2>10. part(m + 1) = x
        BY <1>1, <2>3, <2>5, <2>8
    <2>11. QED BY <2>2, <2>4, <2>7, <2>9, <2>10
<1> HIDE DEF S
<1>5. Nat \subseteq S
    BY <1>3, <1>4, Induct
<1>6. Len(w) - 1 \in S
    BY <1>0, <1>5
<1>7. (Len(w) - 1) + 1 = Len(w)
    BY <1>0
<1>8. Location(u \o part(Len(w))) = Append(Location(u), part(Len(w)))
    BY <1>0, <1>6, <1>7 DEF S
<1>9. QED BY <1>0, <1>8

\* Separators behind the first lead nowhere.
LEMMA PassedSeps ==
    ASSUME NEW p \in Strings, NEW a \in 1 .. Len(p), NEW b \in a .. Len(p),
           \A k \in a + 1 .. b : p[k] = Sep
    PROVE  Passed(p, b) = Passed(p, a)
<1> DEFINE S == {d \in Nat : a + d <= b => Passed(p, a + d) = Passed(p, a)}
<1>0. a \in Nat /\ b \in Nat /\ a >= 1 /\ a <= b
    BY DEF Strings
<1>1. 0 \in S
    BY <1>0
<1>2. ASSUME NEW d \in Nat, d \in S PROVE d + 1 \in S
    <2>1. SUFFICES ASSUME a + (d + 1) <= b PROVE Passed(p, a + (d + 1)) = Passed(p, a)
        OBVIOUS
    <2>2. PICK n \in Nat : n = a + d
        BY <1>0
    <2>3. n + 1 = a + (d + 1) /\ n + 1 # 1 /\ n + 1 \in a + 1 .. b
        BY <1>0, <2>1, <2>2
    <2>4. p[n + 1] = Sep
        BY <2>3
    <2>5. PICK l : l = Passed(p, n)
        OBVIOUS
    <2>6. Further(l, p, n + 1) = l
        BY <2>3, <2>4 DEF Further
    <2>7. Passed(p, n) = Passed(p, a)
        BY <1>0, <1>2, <2>1, <2>2
    <2>8. QED BY <2>3, <2>5, <2>6, <2>7, PassedStep
<1> HIDE DEF S
<1>3. Nat \subseteq S
    BY <1>1, <1>2, Induct
<1>4. b - a \in Nat /\ a + (b - a) = b
    BY <1>0
<1>5. b - a \in S
    BY <1>3, <1>4
<1>6. QED BY <1>0, <1>4, <1>5 DEF S

-----------------------------------------------------------------------------
(* Files: the loop of ParsePathComponents *)

Argument == path \in Strings /\ beyond \in Beyonds
Overread == path # << >> /\ path[Len(path)] # Sep /\ beyond[1] # Nul

\* The characters of the path, its NUL, and what follows.
LEMMA MemoryIs ==
    ASSUME Argument
    PROVE  /\ Len(path) \in Nat /\ Len(Memory) \in Nat /\ Len(path) + 2 <= Len(Memory)
           /\ \A i \in 1 .. Len(path) : CharAt(i) = path[i] /\ CharAt(i) \in Chars
           /\ CharAt(Len(path) + 1) = Nul /\ CharAt(Len(path) + 2) = beyond[1]
           /\ \A i \in Nat : i >= Len(Memory) => CharAt(i) = Nul
           /\ \A i \in 1 .. Len(Memory) : CharAt(i) = Memory[i] /\ Memory[i] \in Chars \cup {Nul}
           /\ Memory \in Seq(Chars \cup {Nul})
<1> DEFINE All == Chars \cup {Nul}
<1>1. PICK n \in Nat : n = Len(path)
    BY DEF Argument, Strings
<1>2. path \in Seq(All)
    BY DEF Argument, Strings
<1>3. PICK m \in 1 .. 2 : beyond \in Seq(All) /\ Len(beyond) = m /\ beyond[m] = Nul
    <2>1. CASE beyond = <<Nul>>
        <3>1. beyond \in Seq(All) /\ Len(beyond) = 1 /\ beyond[1] = Nul
            BY <2>1
        <3>2. QED BY <3>1
    <2>2. CASE \E c \in Chars : beyond = <<c, Nul>>
        <3>1. beyond \in Seq(All) /\ Len(beyond) = 2 /\ beyond[2] = Nul
            BY <2>2
        <3>2. QED BY <3>1
    <2>3. QED BY <2>1, <2>2 DEF Argument, Beyonds, Chars
<1>4. <<Nul>> \in Seq(All) /\ Len(<<Nul>>) = 1 /\ <<Nul>>[1] = Nul
    OBVIOUS
<1> HIDE DEF All
<1>5. PICK a : a = path \o <<Nul>>
    OBVIOUS
<1>6. /\ a \in Seq(All) /\ Len(a) = n + 1 /\ a[n + 1] = Nul
      /\ \A i \in 1 .. n : a[i] = path[i]
    BY <1>1, <1>2, <1>4, <1>5, ConcatProperties
<1>7. PICK s : s = a \o beyond
    OBVIOUS
<1>8. s = Memory
    BY <1>5, <1>7 DEF Memory
<1>9. /\ s \in Seq(All) /\ Len(s) = n + 1 + m
      /\ \A i \in 1 .. n + 1 + m : s[i] = IF i <= n + 1 THEN a[i] ELSE beyond[i - (n + 1)]
    BY <1>3, <1>6, <1>7, ConcatProperties
<1>10. \A i \in Nat : CharAt(i) = IF i <= n + 1 + m THEN s[i] ELSE Nul
    BY <1>8, <1>9 DEF CharAt
<1>11. ASSUME NEW i \in 1 .. n PROVE CharAt(i) = path[i] /\ path[i] \in Chars
    <2>1. i <= n + 1 /\ i <= n + 1 + m /\ i \in 1 .. n + 1 + m /\ i \in Nat
        BY <1>3
    <2>2. CharAt(i) = path[i]
        BY <1>6, <1>9, <1>10, <2>1
    <2>3. QED BY <1>1, <2>2 DEF Argument, Strings
<1>12. CharAt(n + 1) = Nul
    <2>1. n + 1 <= n + 1 + m /\ n + 1 \in 1 .. n + 1 + m /\ n + 1 \in Nat
        BY <1>3
    <2>2. QED BY <1>6, <1>9, <1>10, <2>1
<1>13. CharAt(n + 2) = beyond[1]
    <2>1. /\ n + 2 <= n + 1 + m /\ n + 2 \in 1 .. n + 1 + m /\ n + 2 \in Nat
          /\ ~(n + 2 <= n + 1) /\ (n + 2) - (n + 1) = 1
        BY <1>3
    <2>2. QED BY <1>9, <1>10, <2>1
<1>14. ASSUME NEW i \in Nat, i >= n + 1 + m PROVE CharAt(i) = Nul
    <2>1. CASE i = n + 1 + m
        <3>1. /\ i <= n + 1 + m /\ i \in 1 .. n + 1 + m
              /\ ~(i <= n + 1) /\ i - (n + 1) = m
            BY <1>3, <2>1
        <3>2. QED BY <1>3, <1>9, <1>10, <3>1
    <2>2. CASE i > n + 1 + m
        <3>1. ~(i <= n + 1 + m)
            BY <1>3, <2>2
        <3>2. QED BY <1>10, <3>1
    <2>3. QED BY <1>3, <1>14, <2>1, <2>2
<1>15. \A i \in 1 .. Len(s) : CharAt(i) = s[i] /\ s[i] \in All
    BY <1>3, <1>9, <1>10
<1>16. n + 2 <= Len(s) /\ Len(s) \in Nat
    BY <1>3, <1>9
<1>17. QED BY <1>1, <1>8, <1>9, <1>11, <1>12, <1>13, <1>14, <1>15, <1>16 DEF All

\* FirstFrom finds the first.
LEMMA FirstFromIs ==
    ASSUME Argument, NEW i \in Positions, NEW stop, NEW j \in Positions, i <= j, stop[j]
    PROVE  /\ FirstFrom(i, stop) \in i .. j
           /\ stop[FirstFrom(i, stop)]
           /\ \A k \in i .. FirstFrom(i, stop) - 1 : ~stop[k]
<1>1. PICK n \in Nat : n = Len(Memory) + 2
    BY MemoryIs
<1>2. Positions = 1 .. n
    BY <1>1 DEF Positions
<1> DEFINE S == {x \in i .. n : stop[x]}
<1>3. S \in SUBSET Nat /\ j \in S
    BY <1>2
<1>4. PICK x \in S : \A y \in S : x <= y
    BY <1>3, Least
<1>5. ASSUME NEW k \in i .. x - 1 PROVE ~stop[k]
    BY <1>2, <1>4
<1>6. x \in i .. n /\ stop[x]
    BY <1>4
<1> DEFINE F(f) == f \in i .. n /\ stop[f] /\ \A k \in i .. f - 1 : ~stop[k]
<1>7. FirstFrom(i, stop) = CHOOSE f : F(f)
    BY <1>1 DEF FirstFrom
<1>8. F(x)
    BY <1>5, <1>6
<1>9. F(CHOOSE f : F(f))
    BY <1>8
<1>10. PICK f : f = FirstFrom(i, stop)
    OBVIOUS
<1>11. F(f)
    BY <1>7, <1>9, <1>10
<1>12. f <= j
    BY <1>2, <1>3, <1>11
<1>13. QED BY <1>2, <1>10, <1>11, <1>12

\* What one turn of the loop finds: a name from next to e, and separators from
\* there to the next one.
LEMMA TurnIs ==
    ASSUME Argument, NEW t, t.next \in 1 .. Len(Memory), CharAt(t.next) # Nul
    PROVE  \E e \in t.next .. Len(Memory), j \in 2 .. Len(Memory) + 1, name \in Seq(Names) :
              /\ CharAt(e) = Sep \/ CharAt(e) = Nul
              /\ \A k \in t.next .. e - 1 : CharAt(k) \in Names
              /\ name = SubSeq(Memory, t.next, e - 1)
              /\ e < j /\ CharAt(j) # Sep
              /\ \A k \in e + 1 .. j - 1 : CharAt(k) = Sep
              /\ Turn(t) = [next |-> j,
                            components |-> Append(t.components,
                                IF CharAt(e) = Sep THEN Append(name, Sep) ELSE name)]
<1>1. PICK i \in 1 .. Len(Memory) : i = t.next
    OBVIOUS
<1>2. PICK n \in Nat : n = Len(Memory)
    BY MemoryIs
<1>3. Positions = 1 .. n + 2 /\ Sep # Nul
    BY <1>2 DEF Positions, Sep, Nul
<1>4. PICK e : e = FirstFrom(i, Stops)
    OBVIOUS
<1>5. CharAt(n) = Nul /\ CharAt(n + 1) = Nul
    BY <1>2, MemoryIs
<1>6. /\ \A k \in Positions : Stops[k] <=> CharAt(k) = Sep \/ CharAt(k) = Nul
      /\ \A k \in Positions : Others[k] <=> CharAt(k) # Sep
    BY DEF Stops, Others
<1>7. i \in Positions /\ n \in Positions /\ n + 1 \in Positions /\ i <= n
    BY <1>1, <1>2, <1>3
<1>8. e \in i .. n /\ Stops[e] /\ \A k \in i .. e - 1 : ~Stops[k]
    BY <1>4, <1>5, <1>6, <1>7, FirstFromIs
<1>9. PICK j : j = FirstFrom(e + 1, Others)
    OBVIOUS
<1>10. e + 1 \in Positions /\ e + 1 <= n + 1
    BY <1>3, <1>7, <1>8
<1>11. j \in e + 1 .. n + 1 /\ Others[j] /\ \A k \in e + 1 .. j - 1 : ~Others[k]
    BY <1>3, <1>5, <1>6, <1>7, <1>9, <1>10, FirstFromIs
<1>12. CharAt(e) = Sep \/ CharAt(e) = Nul
    BY <1>3, <1>6, <1>7, <1>8
<1>13. ASSUME NEW k \in i .. e - 1 PROVE CharAt(k) \in Names /\ Memory[k] = CharAt(k)
    <2>1. k \in Positions /\ k \in 1 .. n
        BY <1>3, <1>7, <1>8
    <2>2. ~Stops[k]
        BY <1>8
    <2>3. CharAt(k) # Sep /\ CharAt(k) # Nul
        BY <1>6, <2>1, <2>2
    <2>4. CharAt(k) \in Chars \cup {Nul} /\ Memory[k] = CharAt(k)
        BY <1>2, <2>1, MemoryIs
    <2>5. QED BY <2>3, <2>4 DEF Chars
<1>14. ASSUME NEW k \in e + 1 .. j - 1 PROVE CharAt(k) = Sep
    <2>1. k \in Positions
        BY <1>3, <1>8, <1>11, <1>7
    <2>2. QED BY <1>6, <1>11, <2>1
<1>15. CharAt(j) # Sep
    <2>1. j \in Positions
        BY <1>3, <1>8, <1>11, <1>7
    <2>2. QED BY <1>6, <1>11, <2>1
<1>16. PICK name : name = SubSeq(Memory, i, e - 1)
    OBVIOUS
<1>17. name \in Seq(Names)
    <2>1. /\ i \in Nat /\ e \in Nat /\ i >= 1 /\ i <= e /\ e <= n
        BY <1>7, <1>8, <1>2, <1>1
    <2>2. PICK m \in Nat : m = e - i
        BY <2>1
    <2>3. name = [x \in 1 .. m |-> Memory[i + x - 1]]
        <3>1. (e - 1) - i + 1 = m
            BY <2>1, <2>2
        <3>2. QED BY <1>16, <2>1, <2>2, <3>1
    <2>4. ASSUME NEW x \in 1 .. m PROVE Memory[i + x - 1] \in Names
        <3>1. i + x - 1 \in i .. e - 1
            BY <2>1, <2>2
        <3>2. QED BY <1>13, <3>1
    <2>5. name \in [1 .. m -> Names]
        BY <2>3, <2>4
    <2>6. QED BY <2>5
<1>18. Turn(t) = [next |-> j, components |-> Append(t.components,
                      IF CharAt(e) = Sep THEN Append(name, Sep) ELSE name)]
    BY <1>1, <1>4, <1>9, <1>16 DEF Turn
<1>19. e < j /\ j \in 2 .. n + 1
    BY <1>7, <1>8, <1>11, <1>1, <1>2
<1>20. QED BY <1>1, <1>2, <1>8, <1>12, <1>13, <1>14, <1>15, <1>16, <1>17, <1>18, <1>19

\* Joining one component more.
LEMMA JoinedAppend ==
    ASSUME NEW cs \in Places, NEW c \in Strings
    PROVE  /\ \A k \in 0 .. Len(cs) : Joined(Append(cs, c), k) = Joined(cs, k)
           /\ Joined(Append(cs, c), Len(cs) + 1) = Joined(cs, Len(cs)) \o c
<1>1. PICK n \in Nat : n = Len(cs)
    BY DEF Places
<1>2. PICK a : a = Append(cs, c)
    OBVIOUS
<1>3. a[n + 1] = c /\ \A k \in 1 .. n : a[k] = cs[k]
    BY <1>1, <1>2, AppendProperties DEF Places
<1> DEFINE S == {k \in Nat : k <= n => Joined(a, k) = Joined(cs, k)}
<1>4. 0 \in S
    BY JoinStep
<1>5. ASSUME NEW k \in Nat, k \in S PROVE k + 1 \in S
    <2>1. SUFFICES ASSUME k + 1 <= n PROVE Joined(a, k + 1) = Joined(cs, k + 1)
        OBVIOUS
    <2>2. Joined(a, k) = Joined(cs, k) /\ a[k + 1] = cs[k + 1]
        BY <1>3, <1>5, <2>1
    <2>3. QED BY <2>2, JoinStep
<1> HIDE DEF S
<1>6. Nat \subseteq S
    BY <1>4, <1>5, Induct
<1>7. \A k \in 0 .. n : Joined(a, k) = Joined(cs, k)
    BY <1>6 DEF S
<1>8. Joined(a, n + 1) = Joined(cs, n) \o c
    <2>1. Joined(a, n) = Joined(cs, n)
        BY <1>7
    <2>2. Joined(a, n + 1) = Joined(a, n) \o a[n + 1]
        BY JoinStep
    <2>3. QED BY <1>3, <2>1, <2>2
<1>9. QED BY <1>1, <1>2, <1>7, <1>8

LEMMA JoinedType ==
    ASSUME NEW cs \in Places, NEW n \in 0 .. Len(cs)
    PROVE  Joined(cs, n) \in Strings
<1> DEFINE S == {k \in Nat : k <= Len(cs) => Joined(cs, k) \in Strings}
<1>0. Len(cs) \in Nat
    BY DEF Places
<1>1. 0 \in S
    <2>1. << >> \in Strings
        BY EmptySeq DEF Strings
    <2>2. QED BY <2>1, JoinStep
<1>2. ASSUME NEW k \in Nat, k \in S PROVE k + 1 \in S
    <2>1. SUFFICES ASSUME k + 1 <= Len(cs) PROVE Joined(cs, k + 1) \in Strings
        OBVIOUS
    <2>2. Joined(cs, k) \in Strings /\ cs[k + 1] \in Strings
        BY <1>0, <1>2, <2>1, ElementOfSeq DEF Places
    <2>3. Joined(cs, k) \o cs[k + 1] \in Strings
        BY <2>2, ConcatProperties DEF Strings
    <2>4. QED BY <2>3, JoinStep
<1> HIDE DEF S
<1>3. Nat \subseteq S
    BY <1>1, <1>2, Induct
<1>4. QED BY <1>0, <1>3 DEF S

\* The first prefixes of a path that are joined are the places on its way.
Known(cs, l) ==
    /\ Len(l) <= Len(cs)
    /\ \A k \in 1 .. Len(l) : Location(Joined(cs, k)) = SubSeq(l, 1, k)

\* The loop is on the path, behind a separator or at its start or end.
OnWay(t, n) ==
    /\ t.next \in 1 .. Len(path) + 1 /\ t.components \in Places
    /\ t.next > n \/ t.next = Len(path) + 1
    /\ t.next = 1 => t.components = << >>
    /\ t.next > 1 => /\ path[t.next - 1] = Sep /\ CharAt(t.next) # Sep
                     /\ Len(t.components) > 0
    /\ Fresh(Joined(t.components, Len(t.components)))
    /\ Known(t.components, Passed(path, t.next - 1))
    /\ Len(t.components) = Len(Passed(path, t.next - 1))

\* It has come to the path's NUL within a component, and stepped over it.
Past(t) ==
    /\ t.next \in 1 .. Len(Memory) + 1 /\ t.components \in Places
    /\ Len(t.components) > 0
    /\ Known(t.components, Location(path))
    /\ ~Overread => CharAt(t.next) = Nul /\ Len(t.components) = Len(Location(path))

\* A component more leaves the prefixes known.
LEMMA KnownKeeps ==
    ASSUME NEW cs \in Places, NEW c \in Strings, NEW l \in Places, Known(cs, l)
    PROVE  Known(Append(cs, c), l) /\ Append(cs, c) \in Places /\ Len(Append(cs, c)) = Len(cs) + 1
<1>1. Len(cs) \in Nat /\ Len(l) \in Nat /\ Len(l) <= Len(cs)
    BY DEF Known, Places
<1>2. Append(cs, c) \in Places /\ Len(Append(cs, c)) = Len(cs) + 1
    BY AppendProperties DEF Places
<1>3. ASSUME NEW k \in 1 .. Len(l) PROVE Location(Joined(Append(cs, c), k)) = SubSeq(l, 1, k)
    <2>1. k \in 0 .. Len(cs)
        BY <1>1
    <2>2. Joined(Append(cs, c), k) = Joined(cs, k)
        BY <2>1, JoinedAppend
    <2>3. QED BY <2>2 DEF Known
<1>4. QED BY <1>1, <1>2, <1>3 DEF Known

\* And may make one more known.
LEMMA KnownAppend ==
    ASSUME NEW cs \in Places, NEW c \in Strings, NEW l \in Places, NEW x \in Strings,
           Known(cs, l), Len(cs) = Len(l), Location(Joined(cs, Len(cs)) \o c) = Append(l, x)
    PROVE  Known(Append(cs, c), Append(l, x))
<1>1. PICK n \in Nat : n = Len(l) /\ n = Len(cs)
    BY DEF Places
<1>2. PICK b \in Places : b = Append(cs, c)
    BY AppendProperties DEF Places
<1>3. PICK m \in Places : m = Append(l, x)
    BY AppendProperties DEF Places
<1>4. Len(b) = n + 1 /\ Len(m) = n + 1 /\ \A k \in 1 .. n : m[k] = l[k]
    BY <1>1, <1>2, <1>3, AppendProperties DEF Places
<1>5. ASSUME NEW k \in 1 .. n PROVE Location(Joined(b, k)) = SubSeq(m, 1, k)
    <2>1. k \in 0 .. n
        OBVIOUS
    <2>2. Joined(b, k) = Joined(cs, k)
        BY <1>1, <1>2, <2>1, JoinedAppend
    <2>3. SubSeq(m, 1, k) = SubSeq(l, 1, k)
        <3>1. /\ SubSeq(m, 1, k) = [j \in 1 .. k |-> m[j]]
              /\ SubSeq(l, 1, k) = [j \in 1 .. k |-> l[j]]
            BY <1>1, <1>4 DEF Places
        <3>2. \A j \in 1 .. k : m[j] = l[j]
            BY <1>4
        <3>3. QED BY <3>1, <3>2
    <2>4. QED BY <1>1, <2>2, <2>3 DEF Known
<1>6. Location(Joined(b, n + 1)) = SubSeq(m, 1, n + 1)
    <2>1. Joined(b, n + 1) = Joined(cs, n) \o c
        <3>1. Joined(Append(cs, c), Len(cs) + 1) = Joined(cs, Len(cs)) \o c
            BY JoinedAppend
        <3>2. QED BY <1>1, <1>2, <3>1
    <2>2. SubSeq(m, 1, n + 1) = m
        BY <1>4, SubSeqFull DEF Places
    <2>3. QED BY <1>1, <1>3, <2>1, <2>2
<1>7. ASSUME NEW k \in 1 .. n + 1 PROVE Location(Joined(b, k)) = SubSeq(m, 1, k)
    <2>1. k \in 1 .. n \/ k = n + 1
        OBVIOUS
    <2>2. QED BY <1>5, <1>6, <2>1
<1>8. QED BY <1>2, <1>3, <1>4, <1>7 DEF Known

\* What a name adds to the place.
LEMMA PassedName ==
    ASSUME NEW p \in Strings, NEW i \in 1 .. Len(p), NEW m \in i .. Len(p),
           i = 1 \/ p[i - 1] = Sep,
           NEW name \in Seq(Names), name = SubSeq(p, i, m)
    PROVE  Passed(p, m) = Append(Passed(p, i - 1), name)
<1>1. PICK n \in Nat : n = Len(p)
    BY DEF Strings
<1>2. i \in Nat /\ m \in Nat /\ i >= 1 /\ i <= m /\ m <= n
    BY <1>1
<1>3. PICK u \in Strings : u = SubSeq(p, 1, i - 1)
    <2>1. SubSeq(p, 1, i - 1) \in Seq(Chars)
        BY <1>1, <1>2 DEF Strings
    <2>2. QED BY <2>1 DEF Strings
<1>4. Len(u) = i - 1 /\ \A k \in 1 .. i - 1 : u[k] = p[k]
    BY <1>1, <1>2, <1>3 DEF Strings
<1>5. Fresh(u)
    <2>1. CASE i = 1
        BY <1>4, <2>1, EmptySeq DEF Fresh, Strings
    <2>2. CASE i # 1 /\ p[i - 1] = Sep
        <3>1. i - 1 \in 1 .. i - 1
            BY <1>2, <2>2
        <3>2. u[Len(u)] = Sep
            BY <1>4, <2>2, <3>1
        <3>3. QED BY <3>2 DEF Fresh
    <2>3. QED BY <2>1, <2>2
<1>6. Passed(p, i - 1) = Location(u)
    <2>1. i - 1 \in 0 .. Len(p)
        BY <1>1, <1>2
    <2>2. QED BY <1>3, <2>1, PassedIs
<1>7. name # << >>
    <2>1. Len(name) = (m - i) + 1
        BY <1>1, <1>2 DEF Strings
    <2>2. Len(name) # 0
        BY <1>2, <2>1
    <2>3. QED BY <2>2, EmptySeq
<1>8. u \o name = SubSeq(p, 1, m)
    <2>1. /\ u \o name \in Strings /\ SubSeq(p, 1, m) \in Strings
          /\ Len(u \o name) = m /\ Len(SubSeq(p, 1, m)) = m
        <3>1. name \in Strings
            BY DEF Strings, Chars
        <3>2. Len(name) = (m - i) + 1
            BY <1>1, <1>2 DEF Strings
        <3>3. u \o name \in Strings /\ Len(u \o name) = Len(u) + Len(name)
            BY <3>1, ConcatProperties DEF Strings
        <3>4. SubSeq(p, 1, m) \in Strings /\ Len(SubSeq(p, 1, m)) = m
            BY <1>1, <1>2 DEF Strings
        <3>5. Len(u) + Len(name) = m
            BY <1>2, <1>4, <3>2
        <3>6. QED BY <3>3, <3>4, <3>5
    <2>2. ASSUME NEW k \in 1 .. m PROVE (u \o name)[k] = SubSeq(p, 1, m)[k]
        <3>1. SubSeq(p, 1, m)[k] = p[k]
            BY <1>1, <1>2 DEF Strings
        <3>2. name \in Strings
            BY DEF Strings, Chars
        <3>3. CASE k <= i - 1
            <4>1. k \in 1 .. i - 1
                BY <1>2, <3>3
            <4>2. k \in 1 .. Len(u)
                BY <1>4, <4>1
            <4>3. (u \o name)[k] = u[k]
                BY <3>2, <4>2 DEF Strings
            <4>4. QED BY <1>4, <3>1, <4>1, <4>3
        <3>4. CASE ~(k <= i - 1)
            <4>1. Len(name) = (m - i) + 1
                BY <1>1, <1>2 DEF Strings
            <4>2. PICK d \in Nat : d = i - 1
                BY <1>2
            <4>3. k - d \in 1 .. Len(name) /\ k \in Nat /\ d < k
                BY <1>2, <3>4, <4>1, <4>2
            <4>4. (u \o name)[k] = name[k - d]
                BY <1>4, <3>2, <4>2, <4>3, ConcatProperties DEF Strings
            <4>5. name[k - d] = p[i + (k - d) - 1]
                BY <1>1, <1>2, <4>1, <4>3 DEF Strings
            <4>6. i + (k - d) - 1 = k
                BY <1>2, <4>2, <4>3
            <4>7. QED BY <3>1, <4>4, <4>5, <4>6
        <3>5. QED BY <3>3, <3>4
    <2>3. QED BY <2>1, <2>2, SeqEqual DEF Strings
<1>9. Passed(p, m) = Location(u \o name)
    <2>1. m \in 0 .. Len(p)
        BY <1>1, <1>2
    <2>2. QED BY <1>8, <2>1, PassedIs
<1>10. QED BY <1>5, <1>6, <1>7, <1>9, LocationName

\* On the way, the joined components lead where the path has come.
LEMMA OnWayPlace ==
    ASSUME Argument, NEW t, NEW n \in Nat, OnWay(t, n),
           NEW cs, cs = t.components, NEW u, u = Joined(cs, Len(cs)),
           NEW l, l = Passed(path, t.next - 1)
    PROVE  /\ cs \in Places /\ u \in Strings /\ Fresh(u) /\ l \in Places
           /\ Len(cs) = Len(l) /\ Known(cs, l) /\ Location(u) = l
<1>1. cs \in Places /\ Len(cs) \in 0 .. Len(cs) /\ Len(cs) \in Nat
    BY DEF OnWay, Places
<1>2. u \in Strings /\ Fresh(u)
    BY <1>1, JoinedType DEF OnWay
<1>3. Len(cs) = Len(l) /\ Known(cs, l)
    BY DEF OnWay
<1>4. l \in Places
    <2>1. t.next - 1 \in 0 .. Len(path)
        BY MemoryIs DEF OnWay
    <2>2. path \in Strings
        BY DEF Argument
    <2>3. QED BY <2>1, <2>2, PassedType
<1>5. Location(u) = l
    <2>1. CASE Len(cs) = 0
        <3>1. l = << >>
            BY <1>3, <1>4, <2>1, EmptySeq DEF Places
        <3>2. u = << >>
            BY <2>1, JoinStep
        <3>3. Location(u) = Passed(u, 0)
            BY <3>2 DEF Location
        <3>4. QED BY <3>1, <3>3, PassedStep
    <2>2. CASE Len(cs) # 0
        <3>1. Len(cs) \in 1 .. Len(l)
            BY <1>1, <1>3, <2>2
        <3>2. Location(u) = SubSeq(l, 1, Len(cs))
            BY <1>3, <3>1 DEF Known
        <3>3. QED BY <1>3, <1>4, <3>2, SubSeqFull DEF Places
    <2>3. QED BY <2>1, <2>2
<1>6. QED BY <1>1, <1>2, <1>3, <1>4, <1>5

\* What TurnIs says.
Found(t, e, j, name) ==
    /\ e \in t.next .. Len(Memory) /\ j \in 2 .. Len(Memory) + 1 /\ name \in Seq(Names)
    /\ CharAt(e) = Sep \/ CharAt(e) = Nul
    /\ \A k \in t.next .. e - 1 : CharAt(k) \in Names
    /\ name = SubSeq(Memory, t.next, e - 1)
    /\ e < j /\ CharAt(j) # Sep
    /\ \A k \in e + 1 .. j - 1 : CharAt(k) = Sep

\* A name that is found is part of the path.
LEMMA NameIs ==
    ASSUME Argument, NEW t, NEW e, NEW j, NEW name, Found(t, e, j, name),
           t.next \in 1 .. Len(path)
    PROVE  /\ e <= Len(path) + 1
           /\ name = SubSeq(path, t.next, e - 1)
           /\ e <= Len(path) => CharAt(e) = Sep /\ path[e] = Sep
           /\ e = Len(path) + 1 => CharAt(e) = Nul
<1>1. PICK len \in Nat : len = Len(path)
    BY MemoryIs
<1>2. PICK i \in 1 .. len : i = t.next
    BY <1>1
<1>3. PICK m \in Nat : m = Len(Memory) /\ len + 2 <= m
    BY <1>1, MemoryIs
<1>4. e \in i .. m
    BY <1>2, <1>3 DEF Found
<1>5. e <= len + 1
    <2>1. SUFFICES ASSUME e > len + 1 PROVE FALSE
        BY <1>4, <1>2, <1>3
    <2>2. len + 1 \in i .. e - 1
        BY <1>2, <1>4, <2>1
    <2>3. CharAt(len + 1) \in Names
        BY <1>2, <2>2 DEF Found
    <2>4. QED BY <1>1, <2>3, MemoryIs, FileAssumption
<1>6. name = SubSeq(path, i, e - 1)
    <2>1. \A k \in i .. e - 1 : Memory[k] = path[k]
        <3>1. ASSUME NEW k \in i .. e - 1 PROVE Memory[k] = path[k]
            <4>1. k \in 1 .. len /\ k \in 1 .. m
                BY <1>2, <1>3, <1>4, <1>5
            <4>2. CharAt(k) = path[k] /\ CharAt(k) = Memory[k]
                BY <1>1, <1>3, <4>1, MemoryIs
            <4>3. QED BY <4>2
        <3>2. QED BY <3>1
    <2>2. PICK w \in Nat : w = e - i
        BY <1>2, <1>4
    <2>3. (e - 1) - i + 1 = w /\ i \in Nat /\ e \in Nat
        BY <1>2, <1>4, <2>2
    <2>4. name = [x \in 1 .. w |-> Memory[i + x - 1]]
        <3>1. name = SubSeq(Memory, i, e - 1)
            BY <1>2 DEF Found
        <3>2. QED BY <2>3, <3>1
    <2>5. SubSeq(path, i, e - 1) = [x \in 1 .. w |-> path[i + x - 1]]
        BY <2>3
    <2>6. \A x \in 1 .. w : i + x - 1 \in i .. e - 1
        BY <1>2, <1>4, <2>2
    <2>7. QED BY <2>1, <2>4, <2>5, <2>6
<1>7. ASSUME e <= len PROVE CharAt(e) = Sep /\ path[e] = Sep
    <2>1. e \in 1 .. len
        BY <1>2, <1>4, <1>7
    <2>2. CharAt(e) = path[e] /\ CharAt(e) \in Chars
        BY <1>1, <2>1, MemoryIs
    <2>3. Nul \notin Chars
        BY FileAssumption DEF Chars, Sep, Nul
    <2>4. CharAt(e) = Sep
        BY <2>2, <2>3 DEF Found
    <2>5. QED BY <2>2, <2>4
<1>8. e = len + 1 => CharAt(e) = Nul
    BY <1>1, MemoryIs
<1>9. QED BY <1>1, <1>2, <1>5, <1>6, <1>7, <1>8

\* The last name of the path, with no separator behind it.
LEMMA LastName ==
    ASSUME Argument, NEW t, NEW n \in Nat, OnWay(t, n), t.next <= Len(path),
           NEW e, NEW j, NEW name, Found(t, e, j, name), e = Len(path) + 1
    PROVE  Past([next |-> j, components |-> Append(t.components, name)])
<1>1. PICK len \in Nat : len = Len(path)
    BY MemoryIs
<1>2. PICK i \in 1 .. len : i = t.next
    BY <1>1 DEF OnWay
<1>3. PICK cs : cs = t.components
    OBVIOUS
<1>4. PICK u : u = Joined(cs, Len(cs))
    OBVIOUS
<1>5. PICK l : l = Passed(path, t.next - 1)
    OBVIOUS
<1>6. /\ cs \in Places /\ u \in Strings /\ Fresh(u) /\ l \in Places
      /\ Len(cs) = Len(l) /\ Known(cs, l) /\ Location(u) = l
    BY <1>3, <1>4, <1>5, OnWayPlace
<1>7. name \in Seq(Names) /\ name = SubSeq(path, i, len)
    <2>1. name = SubSeq(path, i, e - 1)
        BY <1>1, <1>2, NameIs
    <2>2. e - 1 = len
        BY <1>1
    <2>3. QED BY <2>1, <2>2 DEF Found
<1>8. path \in Strings /\ (i = 1 \/ path[i - 1] = Sep)
    BY <1>2 DEF Argument, OnWay
<1>9. Location(path) = Append(l, name)
    <2>1. i \in 1 .. Len(path) /\ len \in i .. Len(path)
        BY <1>1, <1>2
    <2>2. Passed(path, len) = Append(Passed(path, i - 1), name)
        BY <1>7, <1>8, <2>1, PassedName
    <2>3. QED BY <1>1, <1>2, <1>5, <2>2 DEF Location
<1>10. name # << >> /\ name \in Strings
    <2>1. Len(name) = (len - i) + 1
        BY <1>1, <1>2, <1>7, <1>8 DEF Strings
    <2>2. Len(name) # 0
        BY <1>2, <2>1
    <2>3. name \in Strings
        BY <1>7 DEF Strings, Chars
    <2>4. QED BY <2>2, <2>3, EmptySeq
<1>11. Location(u \o name) = Append(l, name)
    BY <1>6, <1>7, <1>10, LocationName
<1>12. Known(Append(cs, name), Append(l, name))
    BY <1>4, <1>6, <1>10, <1>11, KnownAppend
<1>13. /\ Append(cs, name) \in Places /\ Len(Append(cs, name)) = Len(cs) + 1
       /\ Len(Append(l, name)) = Len(cs) + 1 /\ Len(cs) \in Nat
    <2>1. Append(cs, name) \in Places /\ Len(Append(cs, name)) = Len(cs) + 1
        BY <1>6, <1>10, AppendProperties DEF Places
    <2>2. Len(Append(l, name)) = Len(l) + 1
        BY <1>6, <1>10, AppendProperties DEF Places
    <2>3. QED BY <1>6, <2>1, <2>2 DEF Places
<1>14. ASSUME ~Overread PROVE CharAt(j) = Nul
    <2>1. len \in i .. e - 1
        BY <1>1, <1>2
    <2>2. CharAt(len) \in Names
        BY <1>2, <2>1 DEF Found
    <2>3. path[len] \in Names
        <3>1. len \in 1 .. len
            BY <1>2
        <3>2. QED BY <1>1, <2>2, <3>1, MemoryIs
    <2>4. path # << >> /\ path[Len(path)] # Sep
        <3>1. Len(path) # 0
            BY <1>1, <1>2
        <3>2. QED BY <1>1, <2>3, <3>1, FileAssumption, EmptySeq
    <2>5. beyond[1] = Nul
        BY <1>14, <2>4 DEF Overread
    <2>6. CharAt(len + 2) = Nul
        BY <1>1, <2>5, MemoryIs
    <2>7. j \in Nat /\ j >= len + 2
        BY <1>1 DEF Found
    <2>8. j = len + 2
        <3>1. SUFFICES ASSUME j > len + 2 PROVE FALSE
            BY <2>7
        <3>2. len + 2 \in e + 1 .. j - 1
            BY <1>1, <2>7, <3>1
        <3>3. CharAt(len + 2) = Sep
            BY <3>2 DEF Found
        <3>4. QED BY <2>6, <3>3 DEF Sep, Nul
    <2>9. QED BY <2>6, <2>8
<1>15. j \in 1 .. Len(Memory) + 1
    BY MemoryIs DEF Found
<1>16. PICK z : z = [next |-> j, components |-> Append(cs, name)]
    OBVIOUS
<1>17. z.next = j /\ z.components = Append(cs, name)
    BY <1>16
<1>18. Len(z.components) > 0
    BY <1>13, <1>17
<1>19. Past(z)
    BY <1>9, <1>12, <1>13, <1>14, <1>15, <1>17, <1>18 DEF Past
<1>20. QED BY <1>3, <1>16, <1>19

\* The root, and a name with a separator behind it.
LEMMA NameOnWay ==
    ASSUME Argument, NEW t, NEW n \in Nat, OnWay(t, n), t.next <= Len(path),
           NEW e, NEW j, NEW name, Found(t, e, j, name), e <= Len(path)
    PROVE  OnWay([next |-> j, components |-> Append(t.components, Append(name, Sep))], n + 1)
<1>1. PICK len \in Nat : len = Len(path)
    BY MemoryIs
<1>2. PICK i \in 1 .. len : i = t.next
    BY <1>1 DEF OnWay
<1>3. PICK cs : cs = t.components
    OBVIOUS
<1>4. PICK u : u = Joined(cs, Len(cs))
    OBVIOUS
<1>5. PICK l : l = Passed(path, t.next - 1)
    OBVIOUS
<1>6. /\ cs \in Places /\ u \in Strings /\ Fresh(u) /\ l \in Places
      /\ Len(cs) = Len(l) /\ Known(cs, l) /\ Location(u) = l
    BY <1>3, <1>4, <1>5, OnWayPlace
<1>7. PICK c : c = Append(name, Sep)
    OBVIOUS
<1>8. name \in Strings /\ c \in Strings /\ Sep \in Chars
    <2>1. name \in Strings /\ Sep \in Chars
        BY DEF Found, Strings, Chars
    <2>2. QED BY <1>7, <2>1, AppendProperties DEF Strings
<1>9. u \o c = Append(u \o name, Sep) /\ u \o name \in Strings
    <2>1. u \o name \in Strings
        BY <1>6, <1>8, ConcatProperties DEF Strings
    <2>2. u \o Append(name, Sep) = Append(u \o name, Sep)
        BY <1>6, <1>8, AppendIsConcat, ConcatAssociative, ConcatProperties DEF Strings
    <2>3. QED BY <1>7, <2>1, <2>2
<1>10. Fresh(u \o c)
    <2>1. PICK v \in Strings : v = u \o name
        BY <1>9
    <2>2. PICK w : w = Append(v, Sep)
        OBVIOUS
    <2>3. Len(w) = Len(v) + 1 /\ w[Len(v) + 1] = Sep
        BY <1>8, <2>2, AppendProperties DEF Strings
    <2>4. QED BY <1>9, <2>1, <2>2, <2>3 DEF Fresh
<1>11. path \in Strings
    BY DEF Argument
<1>12. e \in i .. len /\ path[e] = Sep /\ name = SubSeq(path, i, e - 1)
    <2>1. t.next \in 1 .. Len(path)
        BY <1>1, <1>2
    <2>2. path[e] = Sep /\ name = SubSeq(path, t.next, e - 1)
        BY <2>1, NameIs
    <2>3. e \in t.next .. Len(Memory)
        BY DEF Found
    <2>4. e \in i .. len
        BY <1>1, <1>2, <2>3
    <2>5. QED BY <1>2, <2>2, <2>4
<1>13. j \in e + 1 .. len + 1
    <2>1. j \in Nat /\ e < j
        BY DEF Found
    <2>2. SUFFICES ASSUME j > len + 1 PROVE FALSE
        BY <1>2, <1>12, <2>1
    <2>3. len + 1 \in e + 1 .. j - 1
        BY <1>2, <1>12, <2>1, <2>2
    <2>4. CharAt(len + 1) = Sep
        BY <2>3 DEF Found
    <2>5. QED BY <1>1, <2>4, MemoryIs DEF Sep, Nul
<1>14. Passed(path, j - 1) = Passed(path, e)
    <2>1. e \in 1 .. Len(path) /\ j - 1 \in e .. Len(path)
        BY <1>1, <1>2, <1>12, <1>13
    <2>2. ASSUME NEW k \in e + 1 .. j - 1 PROVE path[k] = Sep
        <3>1. CharAt(k) = Sep
            BY DEF Found
        <3>2. k \in 1 .. Len(path)
            BY <1>1, <1>2, <1>12, <1>13
        <3>3. QED BY <3>1, <3>2, MemoryIs
    <2>3. QED BY <1>11, <2>1, <2>2, PassedSeps
<1>15. \E x \in Strings : Passed(path, e) = Append(l, x) /\ Location(u \o c) = Append(l, x)
    <2>1. CASE e = i
        <3>1. name = << >>
            <4>1. SubSeq(path, i, i - 1) = << >>
                BY <1>1, <1>2, <1>11 DEF Strings
            <4>2. QED BY <1>12, <2>1, <4>1
        <3>2. i = 1
            <4>1. CharAt(i) = Sep
                BY <1>1, <1>2, <1>12, <2>1, MemoryIs
            <4>2. QED BY <1>2, <4>1 DEF OnWay
        <3>3. PICK z \in Nat : z = 0
            OBVIOUS
        <3>4. cs = << >> /\ i - 1 = z
            BY <1>2, <1>3, <3>2, <3>3 DEF OnWay
        <3>5. u = << >> /\ l = << >>
            <4>1. Len(cs) = 0
                BY <3>4
            <4>2. u = << >>
                BY <1>4, <4>1, JoinStep
            <4>3. l = << >>
                BY <1>2, <1>5, <3>3, <3>4, PassedStep
            <4>4. QED BY <4>2, <4>3
        <3>6. Passed(path, e) = << <<Sep>> >>
            <4>1. e = z + 1 /\ z + 1 = 1
                BY <2>1, <3>2, <3>3
            <4>2. Passed(path, z + 1) = Further(Passed(path, z), path, z + 1)
                BY PassedStep
            <4>3. path[z + 1] = Sep
                BY <1>12, <4>1
            <4>4. Further(Passed(path, z), path, z + 1) = << <<Sep>> >>
                BY <4>1, <4>3 DEF Further
            <4>5. QED BY <4>1, <4>2, <4>4
        <3>7. Location(u \o c) = << <<Sep>> >>
            <4>1. u \o name = << >>
                BY <3>1, <3>5
            <4>2. << >> \in Strings
                BY EmptySeq DEF Strings
            <4>3. Location(Append(<< >>, Sep)) = << <<Sep>> >>
                BY <1>8, <4>2, LocationAppend
            <4>4. QED BY <1>9, <4>1, <4>3
        <3>8. <<Sep>> \in Strings
            BY <1>8 DEF Strings
        <3>9. << <<Sep>> >> = Append(<< >>, <<Sep>>)
            OBVIOUS
        <3>10. QED BY <3>5, <3>6, <3>7, <3>8, <3>9
    <2>2. CASE e # i
        <3>1. PICK m \in i .. len : m = e - 1
            BY <1>2, <1>12, <2>2
        <3>2. name = SubSeq(path, i, m) /\ name \in Seq(Names)
            BY <1>12, <3>1 DEF Found
        <3>3. i = 1 \/ path[i - 1] = Sep
            BY <1>2 DEF OnWay
        <3>4. Passed(path, m) = Append(l, name)
            <4>1. i \in 1 .. Len(path) /\ m \in i .. Len(path)
                BY <1>1, <1>2, <3>1
            <4>2. Passed(path, m) = Append(Passed(path, i - 1), name)
                BY <1>11, <3>2, <3>3, <4>1, PassedName
            <4>3. QED BY <1>2, <1>5, <4>2
        <3>5. Passed(path, e) = Passed(path, m)
            <4>1. m \in 1 .. Len(path) /\ e \in m .. Len(path)
                BY <1>1, <1>2, <1>12, <3>1
            <4>2. \A k \in m + 1 .. e : k = e
                BY <1>2, <1>12, <3>1
            <4>3. QED BY <1>11, <1>12, <4>1, <4>2, PassedSeps
        <3>6. name # << >>
            <4>1. PICK w \in Nat : w = (m - i) + 1
                BY <1>2, <3>1
            <4>2. Len(name) = w /\ w # 0
                <5>1. Len(SubSeq(path, i, m)) = (m - i) + 1
                    BY <1>1, <1>2, <3>1, <1>11 DEF Strings
                <5>2. QED BY <1>2, <3>1, <3>2, <4>1, <5>1
            <4>3. QED BY <4>2, EmptySeq
        <3>7. Location(u \o name) = Append(l, name)
            BY <1>6, <3>2, <3>6, LocationName
        <3>8. u \o name # << >>
            BY <1>6, <1>8, <3>6, ConcatEqualIffEmpty, ConcatEmptySeq DEF Strings
        <3>9. Location(u \o c) = Location(u \o name)
            BY <1>8, <1>9, <3>8, LocationAppend
        <3>10. QED BY <1>8, <3>4, <3>5, <3>7, <3>9
    <2>3. QED BY <2>1, <2>2
<1>16. PICK x \in Strings : Passed(path, e) = Append(l, x) /\ Location(u \o c) = Append(l, x)
    BY <1>15
<1>17. PICK b : b = Append(cs, c)
    OBVIOUS
<1>18. b \in Places /\ Len(b) = Len(cs) + 1 /\ Len(cs) \in Nat
    <2>1. b \in Places /\ Len(b) = Len(cs) + 1
        BY <1>6, <1>8, <1>17, AppendProperties DEF Places
    <2>2. QED BY <1>6, <2>1 DEF Places
<1>19. Known(b, Append(l, x))
    BY <1>4, <1>6, <1>8, <1>16, <1>17, KnownAppend
<1>20. Len(Append(l, x)) = Len(b)
    BY <1>6, <1>18, AppendProperties DEF Places
<1>21. Joined(b, Len(b)) = u \o c
    <2>1. Joined(Append(cs, c), Len(cs) + 1) = Joined(cs, Len(cs)) \o c
        BY <1>6, <1>8, JoinedAppend
    <2>2. QED BY <1>4, <1>17, <1>18, <2>1
<1>22. path[j - 1] = Sep
    <2>1. CASE j - 1 = e
        BY <1>12, <2>1
    <2>2. CASE j - 1 # e
        <3>1. j - 1 \in e + 1 .. j - 1
            BY <1>2, <1>12, <1>13, <2>2
        <3>2. CharAt(j - 1) = Sep
            BY <3>1 DEF Found
        <3>3. j - 1 \in 1 .. Len(path)
            BY <1>1, <1>2, <1>12, <1>13
        <3>4. QED BY <3>2, <3>3, MemoryIs
    <2>3. QED BY <2>1, <2>2
<1>23. j > n + 1 /\ j \in 1 .. Len(path) + 1 /\ j > 1
    <2>1. i > n
        BY <1>1, <1>2 DEF OnWay
    <2>2. QED BY <1>1, <1>2, <1>12, <1>13, <2>1
<1>24. CharAt(j) # Sep
    BY DEF Found
<1>25. PICK z : z = [next |-> j, components |-> b]
    OBVIOUS
<1>26. z.next = j /\ z.components = b
    BY <1>25
<1>27. Passed(path, z.next - 1) = Append(l, x)
    BY <1>14, <1>16, <1>26
<1>28. Len(b) > 0
    BY <1>18
<1>29. OnWay(z, n + 1)
    <2>1. z.next \in 1 .. Len(path) + 1 /\ z.next > n + 1 /\ z.next > 1 /\ z.next # 1
        BY <1>23, <1>26
    <2>2. path[z.next - 1] = Sep /\ CharAt(z.next) # Sep
        BY <1>22, <1>24, <1>26
    <2>3. z.components \in Places /\ Len(z.components) > 0
        BY <1>18, <1>26, <1>28
    <2>4. Fresh(Joined(z.components, Len(z.components)))
        BY <1>10, <1>21, <1>26
    <2>5. Known(z.components, Passed(path, z.next - 1))
        BY <1>19, <1>26, <1>27
    <2>6. Len(z.components) = Len(Passed(path, z.next - 1))
        BY <1>20, <1>26, <1>27
    <2>7. QED BY <2>1, <2>2, <2>3, <2>4, <2>5, <2>6 DEF OnWay
<1>30. QED BY <1>3, <1>7, <1>17, <1>25, <1>29

\* A turn keeps on the way or leads past the end.
LEMMA OnWayTurn ==
    ASSUME Argument, NEW t, NEW n \in Nat, OnWay(t, n)
    PROVE  OnWay(Turn(t), n + 1) \/ Past(Turn(t))
<1>1. PICK len \in Nat : len = Len(path)
    BY MemoryIs
<1>2. PICK i \in 1 .. len + 1 : i = t.next
    BY <1>1 DEF OnWay
<1>3. CASE i = len + 1
    <2>1. CharAt(i) = Nul
        BY <1>1, <1>3, MemoryIs
    <2>2. Turn(t) = t
        BY <1>2, <2>1 DEF Turn
    <2>3. OnWay(t, n + 1)
        BY <1>1, <1>2, <1>3 DEF OnWay
    <2>4. QED BY <2>2, <2>3
<1>4. CASE i # len + 1
    <2>1. i \in 1 .. len /\ i \in 1 .. Len(Memory)
        BY <1>1, <1>2, <1>4, MemoryIs
    <2>2. CharAt(i) \in Chars
        BY <1>1, <2>1, MemoryIs
    <2>3. CharAt(i) # Nul
        BY <2>2, FileAssumption DEF Chars, Sep, Nul
    <2>4. PICK e, j, name :
             /\ Found(t, e, j, name)
             /\ Turn(t) = [next |-> j,
                           components |-> Append(t.components,
                               IF CharAt(e) = Sep THEN Append(name, Sep) ELSE name)]
        BY <1>2, <2>1, <2>3, TurnIs DEF Found
    <2>5. /\ e <= len + 1 /\ e \in Nat
          /\ e <= len => CharAt(e) = Sep
          /\ e = len + 1 => CharAt(e) = Nul
        <3>1. e \in Nat
            BY <1>2, <2>1, <2>4 DEF Found
        <3>2. t.next \in 1 .. Len(path)
            BY <1>1, <1>2, <2>1
        <3>3. /\ e <= Len(path) + 1
              /\ e <= Len(path) => CharAt(e) = Sep
              /\ e = Len(path) + 1 => CharAt(e) = Nul
            BY <2>4, <3>2, NameIs
        <3>4. QED BY <1>1, <3>1, <3>3
    <2>6. t.next <= Len(path)
        BY <1>1, <1>2, <2>1
    <2>7. CASE e = len + 1
        <3>1. Past([next |-> j, components |-> Append(t.components, name)])
            BY <1>1, <2>4, <2>6, <2>7, LastName
        <3>2. CharAt(e) # Sep
            BY <2>5, <2>7 DEF Sep, Nul
        <3>3. QED BY <2>4, <3>1, <3>2
    <2>8. CASE e # len + 1
        <3>1. e <= len
            BY <2>5, <2>8
        <3>2. CharAt(e) = Sep
            BY <2>5, <3>1
        <3>3. OnWay([next |-> j, components |-> Append(t.components, Append(name, Sep))], n + 1)
            BY <1>1, <2>4, <2>6, <3>1, NameOnWay
        <3>4. QED BY <2>4, <3>2, <3>3
    <2>9. QED BY <2>7, <2>8
<1>5. QED BY <1>3, <1>4

\* Past the end, what the loop finds is behind the places of the path.
LEMMA PastTurn ==
    ASSUME Argument, NEW t, Past(t)
    PROVE  Past(Turn(t))
<1>1. CASE CharAt(t.next) = Nul
    <2>1. Turn(t) = t
        BY <1>1 DEF Turn
    <2>2. QED BY <2>1
<1>2. CASE CharAt(t.next) # Nul
    <2>1. t.next \in 1 .. Len(Memory)
        <3>1. t.next \in Nat /\ (t.next >= Len(Memory) => CharAt(t.next) = Nul)
            BY MemoryIs DEF Past
        <3>2. QED BY <1>2, <3>1, MemoryIs DEF Past
    <2>2. PICK e, j, name :
             /\ Found(t, e, j, name)
             /\ Turn(t) = [next |-> j,
                           components |-> Append(t.components,
                               IF CharAt(e) = Sep THEN Append(name, Sep) ELSE name)]
        BY <1>2, <2>1, TurnIs DEF Found
    <2>3. PICK c : c = IF CharAt(e) = Sep THEN Append(name, Sep) ELSE name
        OBVIOUS
    <2>4. c \in Strings
        <3>1. name \in Strings /\ Sep \in Chars
            BY <2>2 DEF Found, Strings, Chars
        <3>2. Append(name, Sep) \in Strings
            BY <3>1, AppendProperties DEF Strings
        <3>3. QED BY <2>3, <3>1, <3>2
    <2>5. PICK cs \in Places : cs = t.components
        BY DEF Past
    <2>6. Location(path) \in Places
        BY LocationType DEF Argument
    <2>7. /\ Known(Append(cs, c), Location(path)) /\ Append(cs, c) \in Places
          /\ Len(Append(cs, c)) = Len(cs) + 1
        BY <2>4, <2>5, <2>6, KnownKeeps DEF Past
    <2>8. Len(Append(cs, c)) > 0
        BY <2>5, <2>7 DEF Past, Places
    <2>9. Overread
        BY <1>2 DEF Past
    <2>10. j \in 1 .. Len(Memory) + 1
        BY <2>2, MemoryIs DEF Found
    <2>11. Turn(t).next = j /\ Turn(t).components = Append(cs, c)
        BY <2>2, <2>3, <2>5
    <2>12. QED BY <2>7, <2>8, <2>9, <2>10, <2>11 DEF Past
<1>3. QED BY <1>1, <1>2

\* What the paths that CreateDirectory makes are: the places on the way to the
\* argument, and behind them only what the split found past its end.
LEMMA SubpathsAre ==
    ASSUME Argument
    PROVE  /\ Len(Subpaths) \in Nat /\ DOMAIN Subpaths = 1 .. Len(Subpaths)
           /\ path # << >> => Len(Subpaths) > 0
           /\ Location(path) \in Places /\ Len(Location(path)) <= Len(Subpaths)
           /\ \A k \in 1 .. Len(Location(path)) :
                 Location(Subpaths[k]) = SubSeq(Location(path), 1, k)
           /\ ~Overread => Len(Subpaths) = Len(Location(path))
<1> DEFINE S == {n \in Nat : OnWay(Turns(n), n) \/ Past(Turns(n))}
<1>1. 0 \in S
    <2>1. PICK t : t = Turns(0)
        OBVIOUS
    <2>2. t.next = 1 /\ t.components = << >>
        BY <2>1, TurnsStep DEF Begin
    <2>3. << >> \in Places /\ Len(<< >>) = 0
        BY EmptySeq DEF Places
    <2>4. PICK z \in Nat : z = 0
        OBVIOUS
    <2>5. Joined(<< >>, z) = << >> /\ Passed(path, z) = << >>
        BY <2>4, JoinStep, PassedStep
    <2>6. Fresh(Joined(<< >>, Len(<< >>)))
        BY <2>3, <2>4, <2>5 DEF Fresh
    <2>7. Passed(path, t.next - 1) = << >>
        BY <2>2, <2>4, <2>5
    <2>8. Known(<< >>, << >>)
        BY <2>3 DEF Known
    <2>9. 1 \in 1 .. Len(path) + 1
        BY MemoryIs
    <2>10. OnWay(t, 0)
        BY <2>2, <2>3, <2>6, <2>7, <2>8, <2>9 DEF OnWay
    <2>11. QED BY <2>1, <2>10
<1>2. ASSUME NEW n \in Nat, n \in S PROVE n + 1 \in S
    <2>1. OnWay(Turn(Turns(n)), n + 1) \/ Past(Turn(Turns(n)))
        BY <1>2, OnWayTurn, PastTurn
    <2>2. QED BY <2>1, TurnsStep
<1> HIDE DEF S
<1>3. Nat \subseteq S
    BY <1>1, <1>2, Induct
<1>4. PICK n \in Nat : n = Len(Memory) /\ Len(path) + 2 <= n
    BY MemoryIs
<1>5. PICK t : t = Turns(n)
    OBVIOUS
<1>6. OnWay(t, n) \/ Past(t)
    BY <1>3, <1>5 DEF S
<1>7. PICK l : l = Location(path)
    OBVIOUS
<1>8. PICK cs : cs = t.components
    OBVIOUS
<1>9. cs = Components
    BY <1>4, <1>5, <1>8 DEF Components
<1>10. l \in Places
    BY <1>7, LocationType DEF Argument
<1>11. /\ cs \in Places /\ Known(cs, l) /\ (path # << >> => Len(cs) > 0)
       /\ ~Overread => Len(cs) = Len(l)
    <2>1. CASE OnWay(t, n)
        <3>1. t.next = Len(path) + 1
            BY <1>4, <2>1, MemoryIs DEF OnWay
        <3>2. t.next - 1 = Len(path)
            BY <3>1, MemoryIs
        <3>3. Passed(path, t.next - 1) = l
            BY <1>7, <3>2 DEF Location
        <3>4. ASSUME path # << >> PROVE Len(cs) > 0
            <4>1. Len(path) > 0
                BY <3>4, MemoryIs, EmptySeq DEF Argument, Strings
            <4>2. t.next > 1
                BY <3>1, <4>1, MemoryIs
            <4>3. QED BY <1>8, <2>1, <4>2 DEF OnWay
        <3>5. QED BY <1>8, <2>1, <3>3, <3>4 DEF OnWay
    <2>2. CASE Past(t)
        BY <1>7, <1>8, <2>2 DEF Past
    <2>3. QED BY <1>6, <2>1, <2>2
<1>12. PICK m \in Nat : m = Len(cs)
    BY <1>11 DEF Places
<1>13. Subpaths = [k \in 1 .. m |-> Joined(cs, k)]
    BY <1>9, <1>11, <1>12 DEF Subpaths, Places
<1>14. Len(Subpaths) = m /\ DOMAIN Subpaths = 1 .. m
    BY <1>13
<1>15. ASSUME NEW k \in 1 .. Len(l) PROVE Location(Subpaths[k]) = SubSeq(l, 1, k)
    <2>1. k \in 1 .. m
        BY <1>10, <1>11, <1>12 DEF Known, Places
    <2>2. Subpaths[k] = Joined(cs, k)
        BY <1>13, <2>1
    <2>3. QED BY <1>11, <2>2 DEF Known
<1>16. Len(l) <= m
    BY <1>11, <1>12 DEF Known
<1>17. QED BY <1>7, <1>10, <1>11, <1>12, <1>14, <1>15, <1>16

-----------------------------------------------------------------------------
(* Files: the call among other processes *)

\* The place of the n-th path that CreateDirectory makes.
Spot(n) == Location(Subpaths[n])
Own == Ways(Location(path))

\* Why the call may return false.
Excused ==
    \/ path = << >> \/ Overread \/ errors > 0
    \/ others > 0 /\ (Own \ dirs # {})
    \/ files \cap Own # {}

FileIInv ==
    /\ Argument /\ others \in Nat /\ errors \in Nat
    /\ step \in {"exist", "mkdir", "again", "returned"}
    /\ at \in 0 .. Len(Subpaths)
    /\ at = 0 => step = "exist" \/ (step = "returned" /\ ~result)
    \* What was passed is there, unless another process removed it.
    /\ others = 0 => \A n \in 1 .. at - 1 : Spot(n) \in dirs
    /\ step = "returned" /\ result => at = Len(Subpaths) /\ (others = 0 => Spot(at) \in dirs)
    \* What was made is what was asked for.
    /\ made \subseteq {Spot(n) : n \in 1 .. at}
    \* mkdir failed for a reason.
    /\ step = "again" /\ others = 0 /\ errors = 0 /\ ~Overread =>
          Spot(at) \in files \cup dirs
    /\ step = "returned" /\ ~result => Excused

\* Own places are those of the paths, and without a step past the end there
\* are no others.
LEMMA SpotIs ==
    ASSUME Argument
    PROVE  /\ Own \subseteq {Spot(n) : n \in 1 .. Len(Subpaths)}
           /\ ~Overread =>
                 /\ \A n \in 1 .. Len(Subpaths) : Spot(n) \in Own
                 /\ \A n \in 1 .. Len(Subpaths) :
                       Len(Spot(n)) <= 1
                          \/ /\ n - 1 \in 1 .. Len(Subpaths)
                             /\ SubSeq(Spot(n), 1, Len(Spot(n)) - 1) = Spot(n - 1)
<1>1. PICK l \in Places : l = Location(path)
    BY SubpathsAre
<1>2. PICK m \in Nat : m = Len(l)
    BY DEF Places
<1>3. PICK s \in Nat : s = Len(Subpaths) /\ m <= s /\ (~Overread => s = m)
    BY <1>1, <1>2, SubpathsAre
<1>4. \A n \in 1 .. m : Spot(n) = SubSeq(l, 1, n)
    BY <1>1, <1>2, SubpathsAre DEF Spot
<1>5. Own = {SubSeq(l, 1, n) : n \in 1 .. m}
    BY <1>1, <1>2 DEF Own, Ways
<1>6. Own \subseteq {Spot(n) : n \in 1 .. s}
    <2>1. ASSUME NEW x \in Own PROVE x \in {Spot(n) : n \in 1 .. s}
        <3>1. PICK n \in 1 .. m : x = SubSeq(l, 1, n)
            BY <1>5
        <3>2. n \in 1 .. s /\ x = Spot(n)
            BY <1>3, <1>4, <3>1
        <3>3. QED BY <3>2
    <2>2. QED BY <2>1
<1>7. ASSUME ~Overread, NEW n \in 1 .. s PROVE Spot(n) \in Own
    <2>1. n \in 1 .. m
        BY <1>3, <1>7
    <2>2. QED BY <1>4, <1>5, <2>1
<1>8. ASSUME ~Overread, NEW n \in 1 .. s
      PROVE  Len(Spot(n)) <= 1
                \/ (n - 1 \in 1 .. s /\ SubSeq(Spot(n), 1, Len(Spot(n)) - 1) = Spot(n - 1))
    <2>1. n \in 1 .. m
        BY <1>3, <1>8
    <2>2. PICK p : p = Spot(n)
        OBVIOUS
    <2>3. p \in Places /\ Len(p) = n /\ \A k \in 1 .. n : p[k] = l[k]
        BY <1>2, <1>4, <2>1, <2>2 DEF Places
    <2>4. CASE n = 1
        <3>1. Len(p) <= 1
            BY <2>3, <2>4
        <3>2. QED BY <2>2, <3>1
    <2>5. CASE n # 1
        <3>1. PICK q \in 1 .. m : q = n - 1
            BY <2>1, <2>5
        <3>2. Spot(q) = SubSeq(l, 1, q)
            BY <1>4
        <3>3. SubSeq(p, 1, q) = SubSeq(l, 1, q)
            <4>1. /\ SubSeq(p, 1, q) = [k \in 1 .. q |-> p[k]]
                  /\ SubSeq(l, 1, q) = [k \in 1 .. q |-> l[k]]
                BY <1>2, <2>3, <3>1 DEF Places
            <4>2. \A k \in 1 .. q : p[k] = l[k]
                BY <2>3, <3>1
            <4>3. QED BY <4>1, <4>2
        <3>4. Len(p) - 1 = q /\ q \in 1 .. s
            BY <1>3, <2>3, <3>1
        <3>5. QED BY <2>2, <3>1, <3>2, <3>3, <3>4
    <2>6. QED BY <2>4, <2>5
<1>9. QED BY <1>3, <1>6, <1>7, <1>8

LEMMA FileInitIInv == FileInit => FileIInv
<1> SUFFICES ASSUME FileInit PROVE FileIInv
    OBVIOUS
<1>1. path \in Strings /\ beyond \in Beyonds
    <2>1. PICK n \in 0 .. MaxPath : path \in [1 .. n -> Chars]
        BY DEF FileInit, Paths, Chars
    <2>2. n \in Nat
        BY FileAssumption
    <2>3. path \in Strings
        BY <2>1, <2>2 DEF Strings
    <2>4. QED BY <2>3 DEF FileInit
<1>2. Argument
    BY <1>1 DEF Argument
<1>3. at = 0 /\ step = "exist" /\ ~result /\ made = {} /\ others = 0 /\ errors = 0
    BY DEF FileInit
<1>4. at \in 0 .. Len(Subpaths) /\ 1 .. at - 1 = {}
    BY <1>2, <1>3, SubpathsAre
<1>5. QED BY <1>2, <1>3, <1>4 DEF FileIInv

\* The argument stays what it is.
LEMMA FileSame ==
    ASSUME UNCHANGED <<path, beyond>>
    PROVE  /\ Argument' = Argument /\ Overread' = Overread /\ Own' = Own
           /\ Subpaths' = Subpaths /\ \A n : Spot(n)' = Spot(n)
<1>1. Subpaths' = Subpaths
    BY DEF Subpaths, Components, Joined, Turns, Turn, FirstFrom, Stops, Others, CharAt,
           Positions, Memory
<1>2. QED BY <1>1 DEF Argument, Overread, Own, Spot, Strings, Beyonds

\* Split.
LEMMA SplitIInv ==
    ASSUME FileIInv, Split
    PROVE  FileIInv'
<1>1. UNCHANGED <<path, beyond, dirs, files, made, others, errors>> /\ at = 0 /\ step = "exist"
    BY DEF Split
<1>2. Argument' /\ Overread' = Overread /\ Subpaths' = Subpaths /\ \A n : Spot(n)' = Spot(n)
    BY <1>1, FileSame DEF FileIInv
<1>3. PICK s \in Nat : s = Len(Subpaths) /\ (path # << >> => s > 0)
    BY SubpathsAre DEF FileIInv
<1>4. made = {}
    BY <1>1 DEF FileIInv
<1>5. CASE Subpaths = << >>
    <2>1. step' = "returned" /\ result' = FALSE /\ at' = at
        BY <1>5 DEF Split, Return
    <2>2. path = << >>
        BY <1>3, <1>5, EmptySeq
    <2>3. Excused'
        BY <1>1, <2>2 DEF Excused
    <2>4. QED BY <1>1, <1>2, <1>3, <1>4, <2>1, <2>3 DEF FileIInv
<1>6. CASE Subpaths # << >>
    <2>1. at' = 1 /\ step' = "exist"
        BY <1>1, <1>6 DEF Split
    <2>2. s # 0
        <3>1. SUFFICES ASSUME s = 0 PROVE FALSE
            OBVIOUS
        <3>2. DOMAIN Subpaths = 1 .. 0 /\ Subpaths = [n \in DOMAIN Subpaths |-> Subpaths[n]]
            <4>1. DOMAIN Subpaths = 1 .. Len(Subpaths)
                BY SubpathsAre DEF FileIInv
            <4>2. QED BY <1>3, <3>1, <4>1 DEF Subpaths
        <3>3. Subpaths = [n \in 1 .. 0 |-> Subpaths[n]]
            BY <3>2
        <3>4. QED BY <1>6, <3>3
    <2>3. 1 \in 0 .. s /\ 1 .. 1 - 1 = {}
        BY <1>3, <2>2
    <2>4. QED BY <1>1, <1>2, <1>3, <1>4, <2>1, <2>3 DEF FileIInv
<1>7. QED BY <1>5, <1>6

\* The path at hand is there: on to the next, or done.
LEMMA ContinueIInv ==
    ASSUME FileIInv, Continue, at > 0, step # "returned",
           UNCHANGED <<path, beyond, files, others, errors>>,
           dirs \subseteq dirs', Spot(at) \in dirs', made' \subseteq made \cup {Spot(at)}
    PROVE  FileIInv'
<1>1. Argument' /\ Overread' = Overread /\ Subpaths' = Subpaths /\ \A n : Spot(n)' = Spot(n)
    BY FileSame DEF FileIInv
<1>2. PICK s \in Nat : s = Len(Subpaths)
    BY SubpathsAre DEF FileIInv
<1>3. at \in 1 .. s
    BY <1>2 DEF FileIInv
<1>4. others = 0 => \A n \in 1 .. at - 1 : Spot(n) \in dirs'
    BY DEF FileIInv
<1>5. made' \subseteq {Spot(n) : n \in 1 .. at}
    BY <1>3 DEF FileIInv
<1>6. CASE at = s
    <2>1. step' = "returned" /\ result' = TRUE /\ at' = at
        BY <1>2, <1>6 DEF Continue, Return
    <2>2. at' \in 0 .. Len(Subpaths)' /\ at' # 0
        BY <1>1, <1>2, <1>3, <2>1
    <2>3. others' = 0 => \A n \in 1 .. at' - 1 : Spot(n)' \in dirs'
        BY <1>1, <1>4, <2>1
    <2>4. at' = Len(Subpaths)' /\ Spot(at)' \in dirs'
        <3>1. Spot(at)' = Location(Subpaths'[at'])
            BY DEF Spot, Location, Passed, Further
        <3>2. Spot(at) = Location(Subpaths[at])
            BY DEF Spot
        <3>3. QED BY <1>1, <1>2, <1>6, <2>1, <3>1, <3>2
    <2>5. made' \subseteq {Spot(n)' : n \in 1 .. at'}
        BY <1>1, <1>5, <2>1
    <2>6. others' \in Nat /\ errors' \in Nat
        BY DEF FileIInv
    <2>7. QED BY <1>1, <2>1, <2>2, <2>3, <2>4, <2>5, <2>6 DEF FileIInv
<1>7. CASE at # s
    <2>1. step' = "exist" /\ at' = at + 1
        BY <1>2, <1>7 DEF Continue
    <2>2. at' \in 0 .. Len(Subpaths)' /\ at' # 0
        BY <1>1, <1>2, <1>3, <1>7, <2>1
    <2>3. others' = 0 => \A n \in 1 .. at' - 1 : Spot(n)' \in dirs'
        <3>1. \A n \in 1 .. at' - 1 : n \in 1 .. at - 1 \/ n = at
            BY <1>3, <2>1
        <3>2. QED BY <1>1, <1>4, <3>1
    <2>4. made' \subseteq {Spot(n)' : n \in 1 .. at'}
        <3>1. 1 .. at \subseteq 1 .. at'
            BY <1>3, <2>1
        <3>2. QED BY <1>1, <1>5, <3>1
    <2>5. others' \in Nat /\ errors' \in Nat
        BY DEF FileIInv
    <2>6. QED BY <1>1, <2>1, <2>2, <2>3, <2>4, <2>5 DEF FileIInv
<1>8. QED BY <1>6, <1>7

\* FilePathIsExist.
LEMMA ExistIInv ==
    ASSUME FileIInv, Exist
    PROVE  FileIInv'
<1>1. UNCHANGED <<path, beyond, dirs, files, made, others>> /\ at > 0 /\ step = "exist"
    BY DEF Exist
<1>2. CASE Opened
    BY <1>1, <1>2, ContinueIInv DEF Opened, Here, Spot
<1>3. CASE NotOpened /\ step' = "mkdir" /\ UNCHANGED <<at, result>>
    <2>1. errors' \in Nat
        BY <1>3 DEF NotOpened, FileIInv
    <2>2. Argument' /\ Overread' = Overread /\ Subpaths' = Subpaths /\ \A n : Spot(n)' = Spot(n)
        BY <1>1, FileSame DEF FileIInv
    <2>3. at # 0
        BY <1>1
    <2>4. QED BY <1>1, <1>3, <2>1, <2>2, <2>3 DEF FileIInv
<1>4. QED BY <1>2, <1>3 DEF Exist

\* mkdir.
LEMMA MkdirIInv ==
    ASSUME FileIInv, Mkdir
    PROVE  FileIInv'
<1>1. UNCHANGED <<path, beyond, files, others>> /\ step = "mkdir" /\ at # 0
    BY DEF Mkdir, FileIInv
<1>2. PICK s \in Nat : s = Len(Subpaths)
    BY SubpathsAre DEF FileIInv
<1>3. at \in 1 .. s
    BY <1>1, <1>2 DEF FileIInv
<1>4. Here = Spot(at)
    BY DEF Here, Spot
<1>5. Argument' /\ Overread' = Overread /\ Subpaths' = Subpaths /\ \A n : Spot(n)' = Spot(n)
    BY <1>1, FileSame DEF FileIInv
<1>6. CASE ~Exists(Here) /\ ParentIsDir(Here)
    <2>1. CASE /\ dirs' = dirs \cup {Here} /\ made' = made \cup {Here}
               /\ Continue /\ UNCHANGED errors
        BY <1>1, <1>3, <1>4, <2>1, ContinueIInv
    <2>2. CASE errors' = errors + 1 /\ step' = "again" /\ UNCHANGED <<dirs, made, at, result>>
        <3>1. errors' \in Nat /\ errors' # 0
            BY <2>2 DEF FileIInv
        <3>2. QED BY <1>1, <1>5, <2>2, <3>1 DEF FileIInv
    <2>3. QED BY <1>6, <2>1, <2>2 DEF Mkdir
<1>7. CASE ~(~Exists(Here) /\ ParentIsDir(Here))
    <2>1. step' = "again" /\ UNCHANGED <<dirs, made, at, result, errors>>
        BY <1>7 DEF Mkdir
    <2>2. ASSUME others = 0, ~Overread PROVE Spot(at) \in files \/ Spot(at) \in dirs
        <3>1. CASE Exists(Here)
            BY <1>4, <3>1 DEF Exists
        <3>2. CASE ~ParentIsDir(Here)
            <4>1. ~(Len(Spot(at)) <= 1) /\ SubSeq(Spot(at), 1, Len(Spot(at)) - 1) \notin dirs
                BY <1>4, <3>2 DEF ParentIsDir
            <4>2. at - 1 \in 1 .. s /\ Spot(at - 1) \notin dirs
                BY <1>2, <1>3, <2>2, <4>1, SpotIs DEF FileIInv
            <4>3. at - 1 \in 1 .. at - 1
                BY <1>3, <4>2
            <4>4. QED BY <2>2, <4>2, <4>3 DEF FileIInv
        <3>3. QED BY <1>7, <3>1, <3>2
    <2>3. QED BY <1>1, <1>5, <2>1, <2>2 DEF FileIInv
<1>8. QED BY <1>6, <1>7

\* What is at hand when mkdir has failed and opendir fails for want of a
\* directory.
LEMMA AgainExcused ==
    ASSUME FileIInv, step = "again", Here \notin dirs, Here = Spot(at), at > 0,
           NEW s \in Nat, s = Len(Subpaths), at \in 1 .. s
    PROVE  Excused
<1>1. SUFFICES ASSUME ~Overread, errors = 0 PROVE Excused
    <2>1. errors \in Nat
        BY DEF FileIInv
    <2>2. errors = 0 \/ errors > 0
        BY <2>1
    <2>3. QED BY <2>2 DEF Excused
<1>2. Spot(at) \in Own
    BY <1>1, SpotIs DEF FileIInv
<1>3. CASE others = 0
    <2>1. Spot(at) \in files
        BY <1>1, <1>3 DEF FileIInv
    <2>2. QED BY <1>2, <2>1 DEF Excused
<1>4. CASE others # 0
    <2>1. others > 0
        BY <1>4 DEF FileIInv
    <2>2. QED BY <1>2, <2>1 DEF Excused
<1>5. QED BY <1>3, <1>4

\* mkdir failed.
LEMMA AgainIInv ==
    ASSUME FileIInv, Again
    PROVE  FileIInv'
<1>1. UNCHANGED <<path, beyond, dirs, files, made, others>> /\ step = "again" /\ at # 0
    BY DEF Again, FileIInv
<1>2. PICK s \in Nat : s = Len(Subpaths)
    BY SubpathsAre DEF FileIInv
<1>3. at \in 1 .. s /\ at > 0
    BY <1>1, <1>2 DEF FileIInv
<1>4. Here = Spot(at)
    BY DEF Here, Spot
<1>5. CASE Opened
    BY <1>1, <1>3, <1>4, <1>5, ContinueIInv DEF Opened
<1>6. CASE NotOpened /\ Return(FALSE)
    <2>1. step' = "returned" /\ result' = FALSE /\ at' = at
        BY <1>6 DEF Return
    <2>2. /\ Argument' /\ Overread' = Overread /\ Own' = Own
          /\ Subpaths' = Subpaths /\ \A n : Spot(n)' = Spot(n)
        BY <1>1, FileSame DEF FileIInv
    <2>3. errors \in Nat /\ (errors' = errors \/ errors' = errors + 1)
        BY <1>6 DEF NotOpened, FileIInv
    <2>4. CASE errors' = errors + 1
        <3>1. errors' > 0 /\ errors' \in Nat
            BY <2>3, <2>4
        <3>2. Excused'
            BY <3>1 DEF Excused
        <3>3. QED BY <1>1, <2>1, <2>2, <3>1, <3>2 DEF FileIInv
    <2>5. CASE errors' = errors /\ Here \notin dirs
        <3>1. Excused
            BY <1>1, <1>2, <1>3, <1>4, <2>5, AgainExcused
        <3>2. Excused'
            BY <1>1, <2>2, <2>5, <3>1 DEF Excused
        <3>3. QED BY <1>1, <2>1, <2>2, <2>5, <3>2 DEF FileIInv
    <2>6. QED BY <1>6, <2>4, <2>5 DEF NotOpened
<1>7. QED BY <1>5, <1>6 DEF Again

\* Another process.
LEMMA OtherIInv ==
    ASSUME FileIInv, NEW l, Other(l)
    PROVE  FileIInv'
<1>1. /\ UNCHANGED <<path, beyond, at, step, result, made, errors>>
      /\ others' = others + 1 /\ step # "returned"
    BY DEF Other
<1>2. Argument' /\ Overread' = Overread /\ Subpaths' = Subpaths /\ \A n : Spot(n)' = Spot(n)
    BY <1>1, FileSame DEF FileIInv
<1>3. others' \in Nat /\ others' # 0
    BY <1>1 DEF FileIInv
<1>4. QED BY <1>1, <1>2, <1>3 DEF FileIInv

LEMMA FileNextIInv == FileIInv /\ [FileNext]_fileVars => FileIInv'
<1> SUFFICES ASSUME FileIInv, [FileNext]_fileVars PROVE FileIInv'
    OBVIOUS
<1>1. CASE Split
    BY <1>1, SplitIInv
<1>2. CASE Exist
    BY <1>2, ExistIInv
<1>3. CASE Mkdir
    BY <1>3, MkdirIInv
<1>4. CASE Again
    BY <1>4, AgainIInv
<1>5. CASE \E l \in Ways(Location(path)) : Other(l)
    BY <1>5, OtherIInv
<1>6. CASE UNCHANGED fileVars
    <2>1. UNCHANGED <<path, beyond, dirs, files, at, step, result, made, others, errors>>
        BY <1>6 DEF fileVars
    <2>2. /\ Argument' /\ Overread' = Overread /\ Own' = Own
          /\ Subpaths' = Subpaths /\ \A n : Spot(n)' = Spot(n)
        BY <2>1, FileSame DEF FileIInv
    <2>3. Excused' = Excused
        BY <2>1, <2>2 DEF Excused
    <2>4. QED BY <2>1, <2>2, <2>3 DEF FileIInv
<1>7. QED BY <1>1, <1>2, <1>3, <1>4, <1>5, <1>6 DEF FileNext

\* The invariant says what the caller of CreateDirectory is promised.
LEMMA FileIInvPathMade == FileIInv => PathMade
<1> SUFFICES ASSUME FileIInv PROVE PathMade
    OBVIOUS
<1>1. PICK s \in Nat : s = Len(Subpaths) /\ at \in 0 .. s
    BY SubpathsAre DEF FileIInv
<1>2. Argument
    BY DEF FileIInv
<1>3. ASSUME ~Overread PROVE made \subseteq Own
    <2>1. \A n \in 1 .. at : Spot(n) \in Own
        BY <1>1, <1>2, <1>3, SpotIs
    <2>2. QED BY <2>1 DEF FileIInv
<1>4. ASSUME step = "returned", result, others = 0 PROVE Own \subseteq dirs
    <2>1. at = s /\ Spot(at) \in dirs /\ \A n \in 1 .. at - 1 : Spot(n) \in dirs
        BY <1>1, <1>4 DEF FileIInv
    <2>2. ASSUME NEW n \in 1 .. s PROVE Spot(n) \in dirs
        <3>1. n \in 1 .. at - 1 \/ n = at
            BY <1>1, <2>1
        <3>2. QED BY <2>1, <3>1
    <2>3. QED BY <1>1, <1>2, <2>2, SpotIs
<1>5. step = "returned" /\ ~result => Excused
    BY DEF FileIInv
<1>6. QED BY <1>3, <1>4, <1>5 DEF PathMade, Overread, Own, Excused

\* CreateDirectory makes the directories on the way of its argument and no
\* others, true means that they are all there and false has its reason, for
\* every path, whatever other processes do and mkdir fails at, but for paths
\* whose last name is not followed by a separator: past their NUL the split
\* may find more (ParsePathComponentsT and CreateDirectory, file_util.cpp).
THEOREM PathAlwaysMade == FileSpec => []PathMade
<1>1. FileInit => FileIInv
    BY FileInitIInv
<1>2. FileIInv /\ [FileNext]_fileVars => FileIInv'
    BY FileNextIInv
<1>3. FileIInv => PathMade
    BY FileIInvPathMade
<1>4. QED BY <1>1, <1>2, <1>3, PTL DEF FileSpec

-----------------------------------------------------------------------------
(* The calendar *)

Years == 2021 .. 2025
Months == 1 .. 12
DayMinutes == 0 .. 1439
Moments == {t \in Nat : Date(t) < YearStart[2026]}

\* The five years and their lengths.
LEMMA YearFacts ==
    /\ YearStart[2021] = 0 /\ YearStart[2022] = 365 /\ YearStart[2023] = 730
    /\ YearStart[2024] = 1095 /\ YearStart[2025] = 1461 /\ YearStart[2026] = 1826
BY DEF YearStart

\* Times and days.
LEMMA DayFacts ==
    /\ Day = 1440
    /\ \A t \in Nat : Date(t) \in Nat /\ t % Day \in DayMinutes
<1>1. Day = 1440
    BY DEF Day
<1>2. ASSUME NEW t \in Nat PROVE Date(t) \in Nat /\ t % Day \in DayMinutes
    <2>1. t \div 1440 \in Nat /\ t % 1440 \in DayMinutes
        BY DEF DayMinutes
    <2>2. QED BY <1>1, <2>1 DEF Date
<1>3. QED BY <1>1, <1>2

\* Each month begins where the one before it ends.
LEMMA MonthsFollow ==
    ASSUME NEW y \in Years
    PROVE  /\ MonthStart(y)[1] = YearStart[y]
           /\ \A m \in 1 .. 11 : MonthStart(y)[m + 1] = MonthStart(y)[m] + MonthLengths(y)[m]
<1> DEFINE l == MonthLengths(y)
           b == YearStart[y]
           next(f) == [m \in 1 .. 12 |-> IF m = 1 THEN b ELSE f[m - 1] + l[m - 1]]
           sums == [m \in 1 .. 12 |->
                       IF m = 1 THEN b
                       ELSE IF m = 2 THEN b + l[1]
                       ELSE IF m = 3 THEN b + l[1] + l[2]
                       ELSE IF m = 4 THEN b + l[1] + l[2] + l[3]
                       ELSE IF m = 5 THEN b + l[1] + l[2] + l[3] + l[4]
                       ELSE IF m = 6 THEN b + l[1] + l[2] + l[3] + l[4] + l[5]
                       ELSE IF m = 7 THEN b + l[1] + l[2] + l[3] + l[4] + l[5] + l[6]
                       ELSE IF m = 8 THEN b + l[1] + l[2] + l[3] + l[4] + l[5] + l[6] + l[7]
                       ELSE IF m = 9 THEN b + l[1] + l[2] + l[3] + l[4] + l[5] + l[6] + l[7] + l[8]
                       ELSE IF m = 10
                       THEN b + l[1] + l[2] + l[3] + l[4] + l[5] + l[6] + l[7] + l[8] + l[9]
                       ELSE IF m = 11
                       THEN b + l[1] + l[2] + l[3] + l[4] + l[5] + l[6] + l[7] + l[8] + l[9] + l[10]
                       ELSE b + l[1] + l[2] + l[3] + l[4] + l[5] + l[6] + l[7] + l[8] + l[9] + l[10] + l[11]]
<1>1. sums = next(sums)
    <2>1. ASSUME NEW m \in 1 .. 12 PROVE sums[m] = next(sums)[m]
        OBVIOUS
    <2>2. QED BY <2>1
<1>2. MonthStart(y) = CHOOSE f : f = next(f)
    BY DEF MonthStart
<1>3. MonthStart(y) = next(MonthStart(y))
    <2> HIDE DEF next, sums
    <2>1. QED BY <1>1, <1>2
<1> DEFINE s == MonthStart(y)
<1> HIDE DEF s, l, b
<1>4. s = [m \in 1 .. 12 |-> IF m = 1 THEN b ELSE s[m - 1] + l[m - 1]]
    BY <1>3 DEF s
<1>5. s[1] = b
    BY <1>4
<1>6. ASSUME NEW m \in 1 .. 11 PROVE s[m + 1] = s[m] + l[m]
    <2>1. m + 1 \in 1 .. 12 /\ m + 1 # 1 /\ (m + 1) - 1 = m
        OBVIOUS
    <2>2. QED BY <1>4, <2>1
<1>7. QED BY <1>5, <1>6 DEF s, l, b

\* The months' lengths: a leap day is in February of 2024.
LEMMA MonthFacts ==
    ASSUME NEW y \in Years
    PROVE  /\ \A m \in Months : MonthLengths(y)[m] \in 28 .. 31 /\ MonthStart(y)[m] \in Nat
           /\ \A m, n \in Months :
                 m < n => MonthStart(y)[m] + MonthLengths(y)[m] <= MonthStart(y)[n]
           /\ MonthStart(y)[12] + MonthLengths(y)[12] = YearStart[y + 1]
<1> DEFINE s == MonthStart(y)
           b == YearStart[y]
           feb == IF y = 2024 THEN 29 ELSE 28
<1>1. /\ MonthLengths(y)[1] = 31 /\ MonthLengths(y)[2] = feb /\ MonthLengths(y)[3] = 31
      /\ MonthLengths(y)[4] = 30 /\ MonthLengths(y)[5] = 31 /\ MonthLengths(y)[6] = 30
      /\ MonthLengths(y)[7] = 31 /\ MonthLengths(y)[8] = 31 /\ MonthLengths(y)[9] = 30
      /\ MonthLengths(y)[10] = 31 /\ MonthLengths(y)[11] = 30 /\ MonthLengths(y)[12] = 31
    BY DEF MonthLengths
<1>2. b \in Nat /\ feb \in 28 .. 29 /\ YearStart[y + 1] = b + 337 + feb
    BY YearFacts DEF Years
<1> HIDE DEF s, b, feb
<1>3. /\ s[1] = b /\ s[2] = b + 31 /\ s[3] = b + 31 + feb /\ s[4] = b + 62 + feb
      /\ s[5] = b + 92 + feb /\ s[6] = b + 123 + feb /\ s[7] = b + 153 + feb
      /\ s[8] = b + 184 + feb /\ s[9] = b + 215 + feb /\ s[10] = b + 245 + feb
      /\ s[11] = b + 276 + feb /\ s[12] = b + 306 + feb
    <2>1. /\ s[1] = b
          /\ s[1 + 1] = s[1] + MonthLengths(y)[1] /\ s[2 + 1] = s[2] + MonthLengths(y)[2]
          /\ s[3 + 1] = s[3] + MonthLengths(y)[3] /\ s[4 + 1] = s[4] + MonthLengths(y)[4]
          /\ s[5 + 1] = s[5] + MonthLengths(y)[5] /\ s[6 + 1] = s[6] + MonthLengths(y)[6]
          /\ s[7 + 1] = s[7] + MonthLengths(y)[7] /\ s[8 + 1] = s[8] + MonthLengths(y)[8]
          /\ s[9 + 1] = s[9] + MonthLengths(y)[9] /\ s[10 + 1] = s[10] + MonthLengths(y)[10]
          /\ s[11 + 1] = s[11] + MonthLengths(y)[11]
        BY MonthsFollow DEF s, b
    <2>2. QED BY <1>1, <1>2, <2>1
<1>4. \A m \in Months : MonthLengths(y)[m] \in 28 .. 31 /\ s[m] \in Nat
    BY <1>1, <1>2, <1>3 DEF Months
<1>5. ASSUME NEW m \in Months, NEW n \in Months, m < n
      PROVE  s[m] + MonthLengths(y)[m] <= s[n]
    <2>1. m \in {1, 2, 3, 4, 5, 6, 7, 8, 9, 10, 11, 12} /\ n \in {1, 2, 3, 4, 5, 6, 7, 8, 9, 10, 11, 12}
        BY DEF Months
    <2>2. QED BY <1>1, <1>2, <1>3, <1>5, <2>1
<1>6. QED BY <1>1, <1>2, <1>3, <1>4, <1>5 DEF s

\* localtime of a moment of the calendar: its year, month and day.
LEMMA LocalDay ==
    ASSUME NEW t \in Moments
    PROVE  LET d == localtime(t)
               start == MonthStart(d.tm_year)[d.tm_mon]
           IN  /\ d.tm_year \in Years /\ d.tm_mon \in Months /\ Date(t) \in Nat
               /\ YearStart[d.tm_year] <= Date(t) /\ Date(t) < YearStart[d.tm_year + 1]
               /\ d.tm_mday \in 1 .. MonthLengths(d.tm_year)[d.tm_mon]
               /\ Date(t) = start + d.tm_mday - 1
<1> DEFINE Y(y) == YearStart[y] <= Date(t) /\ Date(t) < YearStart[y + 1]
           year == CHOOSE y \in 2021 .. 2025 : Y(y)
           M(m) == /\ MonthStart(year)[m] <= Date(t)
                   /\ Date(t) < MonthStart(year)[m] + MonthLengths(year)[m]
           mon == CHOOSE m \in 1 .. 12 : M(m)
<1>1. Date(t) \in Nat /\ Date(t) < 1826
    BY YearFacts, DayFacts DEF Moments
<1>2. year \in Years /\ Y(year)
    <2>1. \E y \in 2021 .. 2025 : Y(y)
        <3>1. CASE Date(t) < 365
            <4>1. Y(2021) BY <1>1, <3>1, YearFacts
            <4>2. QED BY <4>1
        <3>2. CASE 365 <= Date(t) /\ Date(t) < 730
            <4>1. Y(2022) BY <3>2, YearFacts
            <4>2. QED BY <4>1
        <3>3. CASE 730 <= Date(t) /\ Date(t) < 1095
            <4>1. Y(2023) BY <3>3, YearFacts
            <4>2. QED BY <4>1
        <3>4. CASE 1095 <= Date(t) /\ Date(t) < 1461
            <4>1. Y(2024) BY <3>4, YearFacts
            <4>2. QED BY <4>1
        <3>5. CASE 1461 <= Date(t)
            <4>1. Y(2025) BY <1>1, <3>5, YearFacts
            <4>2. QED BY <4>1
        <3>6. QED BY <1>1, <3>1, <3>2, <3>3, <3>4, <3>5
    <2> HIDE DEF Y
    <2>2. QED BY <2>1 DEF Years
<1>3. mon \in Months /\ M(mon)
    <2> HIDE DEF year
    <2> DEFINE s == MonthStart(year)
    <2>1. /\ s[1] = YearStart[year] /\ s[12] + MonthLengths(year)[12] = YearStart[year + 1]
          /\ \A m \in 1 .. 11 : s[m + 1] = s[m] + MonthLengths(year)[m]
          /\ \A m \in 1 .. 12 : s[m] \in Nat /\ MonthLengths(year)[m] \in 28 .. 31
        BY <1>2, MonthsFollow, MonthFacts DEF Months
    <2>2. \E m \in 1 .. 12 : M(m)
        <3>1. SUFFICES ASSUME \A m \in 1 .. 12 : ~M(m)
                       PROVE  FALSE
            OBVIOUS
        <3> DEFINE P(m) == s[m] <= Date(t)
        <3>2. ASSUME NEW m \in 1 .. 11, P(m) PROVE P(m + 1)
            <4>1. /\ m \in 1 .. 12 /\ s[m + 1] = s[m] + MonthLengths(year)[m]
                  /\ s[m] \in Nat /\ MonthLengths(year)[m] \in 28 .. 31
                BY <2>1
            <4>2. ~(s[m] <= Date(t) /\ Date(t) < s[m] + MonthLengths(year)[m])
                BY <3>1, <4>1
            <4> HIDE DEF s
            <4>3. QED BY <1>1, <3>2, <4>1, <4>2
        <3>3. P(1)
            BY <1>2, <2>1
        <3>4. P(12)
            <4> HIDE DEF P
            <4>1. P(2) BY <3>2, <3>3
            <4>2. P(3) BY <3>2, <4>1
            <4>3. P(4) BY <3>2, <4>2
            <4>4. P(5) BY <3>2, <4>3
            <4>5. P(6) BY <3>2, <4>4
            <4>6. P(7) BY <3>2, <4>5
            <4>7. P(8) BY <3>2, <4>6
            <4>8. P(9) BY <3>2, <4>7
            <4>9. P(10) BY <3>2, <4>8
            <4>10. P(11) BY <3>2, <4>9
            <4>11. QED BY <3>2, <4>10
        <3>5. M(12)
            BY <1>2, <2>1, <3>4
        <3>6. QED BY <3>1, <3>5
    <2> HIDE DEF M
    <2>3. QED BY <2>2 DEF Months
<1>4. localtime(t) = [tm_year |-> year, tm_mon |-> mon,
                      tm_mday |-> Date(t) - MonthStart(year)[mon] + 1,
                      tm_wday |-> (Date(t) + 5) % 7]
    BY DEF localtime
<1>5. /\ localtime(t).tm_year = year /\ localtime(t).tm_mon = mon
      /\ localtime(t).tm_mday = Date(t) - MonthStart(year)[mon] + 1
    <2> HIDE DEF year, mon
    <2>1. QED BY <1>4
<1> HIDE DEF year, mon
<1>6. MonthStart(year)[mon] \in Nat /\ MonthLengths(year)[mon] \in 28 .. 31
    BY <1>2, <1>3, MonthFacts
<1>7. /\ Date(t) - MonthStart(year)[mon] + 1 \in 1 .. MonthLengths(year)[mon]
      /\ Date(t) = MonthStart(year)[mon] + (Date(t) - MonthStart(year)[mon] + 1) - 1
    BY <1>1, <1>3, <1>6
<1>8. QED BY <1>1, <1>2, <1>3, <1>5, <1>7

-----------------------------------------------------------------------------
(* The labels *)

\* The calendar goes on with the clock: the year, within a year the month,
\* within a month the day.
LEMMA CalendarGoesOn ==
    ASSUME NEW t \in Moments, NEW u \in Moments, t <= u
    PROVE  /\ localtime(t).tm_year <= localtime(u).tm_year
           /\ localtime(t).tm_year = localtime(u).tm_year =>
                 localtime(t).tm_mon <= localtime(u).tm_mon
           /\ /\ localtime(t).tm_year = localtime(u).tm_year
              /\ localtime(t).tm_mon = localtime(u).tm_mon
              => localtime(t).tm_mday <= localtime(u).tm_mday
<1> DEFINE y == localtime(t).tm_year
           z == localtime(u).tm_year
           m == localtime(t).tm_mon
           n == localtime(u).tm_mon
           d == localtime(t).tm_mday
           e == localtime(u).tm_mday
<1>1. /\ y \in Years /\ m \in Months /\ Date(t) \in Nat
      /\ YearStart[y] <= Date(t) /\ Date(t) < YearStart[y + 1]
      /\ d \in 1 .. MonthLengths(y)[m] /\ Date(t) = MonthStart(y)[m] + d - 1
    BY LocalDay
<1>2. /\ z \in Years /\ n \in Months /\ Date(u) \in Nat
      /\ YearStart[z] <= Date(u) /\ Date(u) < YearStart[z + 1]
      /\ e \in 1 .. MonthLengths(z)[n] /\ Date(u) = MonthStart(z)[n] + e - 1
    BY LocalDay
<1>3. Date(t) <= Date(u)
    <2>1. t \in Nat /\ u \in Nat
        BY DEF Moments
    <2>2. t \div 1440 <= u \div 1440
        BY <2>1
    <2>3. QED BY <2>2, DayFacts DEF Date
<1> HIDE DEF y, z, m, n, d, e
<1>4. y <= z
    <2>1. y \in {2021, 2022, 2023, 2024, 2025} /\ z \in {2021, 2022, 2023, 2024, 2025}
        BY <1>1, <1>2 DEF Years
    <2>2. QED BY <1>1, <1>2, <1>3, <2>1, YearFacts
<1>5. ASSUME y = z PROVE m <= n
    <2>1. SUFFICES ASSUME n < m PROVE FALSE
        BY <1>1, <1>2 DEF Months
    <2>2. /\ MonthStart(y)[n] + MonthLengths(y)[n] <= MonthStart(y)[m]
          /\ MonthStart(y)[m] \in Nat /\ MonthStart(y)[n] \in Nat
          /\ MonthLengths(y)[m] \in 28 .. 31 /\ MonthLengths(y)[n] \in 28 .. 31
        BY <1>1, <1>2, <2>1, MonthFacts
    <2>3. PICK a, b, k, l : /\ a = MonthStart(y)[m] /\ b = MonthStart(y)[n]
                            /\ k = MonthLengths(y)[m] /\ l = MonthLengths(y)[n]
        OBVIOUS
    <2>4. d \in 1 .. k /\ Date(t) = a + d - 1 /\ e \in 1 .. l /\ Date(u) = b + e - 1
        BY <1>1, <1>2, <1>5, <2>3
    <2>5. b + l <= a /\ a \in Nat /\ b \in Nat /\ k \in Nat /\ l \in Nat
        BY <2>2, <2>3
    <2>6. QED BY <1>3, <2>4, <2>5
<1>6. ASSUME y = z, m = n PROVE d <= e
    <2>1. MonthStart(y)[m] \in Nat /\ MonthLengths(y)[m] \in 28 .. 31
        BY <1>1, MonthFacts
    <2>2. PICK a \in Nat, k \in Nat : a = MonthStart(y)[m] /\ k = MonthLengths(y)[m]
        BY <2>1
    <2>3. d \in 1 .. k /\ Date(t) = a + d - 1 /\ e \in 1 .. k /\ Date(u) = a + e - 1
        BY <1>1, <1>2, <1>6, <2>2
    <2>4. QED BY <1>3, <2>2, <2>3
<1>7. QED BY <1>4, <1>5, <1>6 DEF y, z, m, n, d, e

\* The time of the message and the clock stay in the calendar.
TimeInv == msgTimeStamp \in Moments /\ curTime \in Moments /\ Date(msgTimeStamp) \in MsgDays

\* The kind of label of a message sent at t and looked at at u.
Kind(t, u) == FormatMsgTime(t, u)[1]

\* It is decided by the span in minutes, the years and the days of the month.
LEMMA KindIs ==
    ASSUME NEW t \in Moments, NEW u \in Moments, t <= u
    PROVE  LET msg == localtime(t)
               cur == localtime(u)
           IN  /\ u - t <= 10 => Kind(t, u) = "now"
               /\ u - t > 10 /\ u - t <= 60 => Kind(t, u) = "minutes"
               /\ u - t > 60 /\ msg.tm_year = cur.tm_year =>
                     /\ cur.tm_mday = msg.tm_mday => Kind(t, u) = "clock"
                     /\ /\ cur.tm_mday # msg.tm_mday
                        /\ cur.tm_mday \div 7 = msg.tm_mday \div 7
                        => Kind(t, u) = "weekday"
                     /\ /\ cur.tm_mday # msg.tm_mday
                        /\ cur.tm_mday \div 7 # msg.tm_mday \div 7
                        => Kind(t, u) = "monthDay"
               /\ u - t > 60 /\ msg.tm_year < cur.tm_year =>
                     Kind(t, u) = IF cur.tm_year - msg.tm_year <= 1 THEN "yearMonth"
                                                                   ELSE "longAgo"
<1> DEFINE msg == localtime(t)
           cur == localtime(u)
<1>1. t \in Nat /\ u \in Nat /\ Distance(t, u) = u - t
    <2>1. t \in Nat /\ u \in Nat
        BY DEF Moments
    <2>2. QED BY <2>1 DEF Distance
<1>2. msg.tm_year \in Nat /\ cur.tm_year \in Nat
    <2>1. \A y \in Years : y \in Nat
        BY DEF Years
    <2>2. QED BY <2>1, LocalDay
<1>3. msg.tm_year < cur.tm_year => Distance(msg.tm_year, cur.tm_year) = cur.tm_year - msg.tm_year
    BY <1>2 DEF Distance
<1> DEFINE years == Distance(msg.tm_year, cur.tm_year)
<1>4. PICK span : span = u - t
    OBVIOUS
<1>5. FormatMsgTime(t, u) =
         IF span <= 10 THEN <<"now">>
         ELSE IF span <= 60 THEN <<"minutes", span>>
         ELSE IF cur.tm_year = msg.tm_year THEN LabelInYear(cur, msg, t)
         ELSE IF years <= 1 THEN <<"yearMonth", msg.tm_year, msg.tm_mon>>
         ELSE <<"longAgo">>
    BY <1>1, <1>4 DEF FormatMsgTime, kTimeSpanMin, kTimeSpanHalfHour
<1>6. span \in Int
    BY <1>1, <1>4
<1>7. ASSUME cur.tm_mday = msg.tm_mday PROVE LabelInYear(cur, msg, t)[1] = "clock"
    BY <1>7 DEF LabelInYear
<1>8. ASSUME cur.tm_mday # msg.tm_mday, cur.tm_mday \div 7 = msg.tm_mday \div 7
      PROVE  LabelInYear(cur, msg, t)[1] = "weekday"
    BY <1>8 DEF LabelInYear
<1>9. ASSUME cur.tm_mday # msg.tm_mday, cur.tm_mday \div 7 # msg.tm_mday \div 7
      PROVE  LabelInYear(cur, msg, t)[1] = "monthDay"
    BY <1>9 DEF LabelInYear
<1> HIDE DEF msg, cur, years
<1>10. span <= 10 => Kind(t, u) = "now"
    BY <1>5 DEF Kind
<1>11. span > 10 /\ span <= 60 => Kind(t, u) = "minutes"
    <2>1. span > 10 /\ span <= 60 => FormatMsgTime(t, u) = <<"minutes", span>>
        BY <1>5, <1>6
    <2>2. QED BY <2>1 DEF Kind
<1>12. ASSUME span > 60, msg.tm_year = cur.tm_year
       PROVE  Kind(t, u) = LabelInYear(cur, msg, t)[1]
    <2>1. FormatMsgTime(t, u) = LabelInYear(cur, msg, t)
        BY <1>5, <1>6, <1>12
    <2>2. QED BY <2>1 DEF Kind
<1>13. ASSUME span > 60, msg.tm_year < cur.tm_year
       PROVE  Kind(t, u) = IF cur.tm_year - msg.tm_year <= 1 THEN "yearMonth" ELSE "longAgo"
    <2>1. msg.tm_year # cur.tm_year /\ years = cur.tm_year - msg.tm_year
        BY <1>2, <1>3, <1>13 DEF years
    <2>2. FormatMsgTime(t, u) = IF years <= 1 THEN <<"yearMonth", msg.tm_year, msg.tm_mon>>
                                ELSE <<"longAgo">>
        BY <1>5, <1>6, <1>13, <2>1
    <2>3. QED BY <2>1, <2>2 DEF Kind
<1>14. QED BY <1>4, <1>7, <1>8, <1>9, <1>10, <1>11, <1>12, <1>13 DEF msg, cur

\* The kinds in their order.
LEMMA CoarsenessIs ==
    /\ Coarseness["now"] = 1 /\ Coarseness["minutes"] = 2 /\ Coarseness["clock"] = 3
    /\ Coarseness["weekday"] = 4 /\ Coarseness["monthDay"] = 5
    /\ Coarseness["yearMonth"] = 6 /\ Coarseness["longAgo"] = 7
BY DEF Coarseness

\* A later look finds a label at least as coarse, if it is not in another month.
LEMMA OlderIsCoarser ==
    ASSUME NEW t \in Moments, NEW u \in Moments, NEW v \in Moments, t <= u, u <= v
    PROVE  \/ Coarseness[Kind(t, u)] <= Coarseness[Kind(t, v)]
           \/ /\ Kind(t, v) \in {"clock", "weekday"}
              /\ localtime(t).tm_mon # localtime(v).tm_mon
<1>1. t \in Nat /\ u \in Nat /\ v \in Nat
    BY DEF Moments
<1>2. PICK y, ym, yd : y = localtime(t).tm_year /\ ym = localtime(t).tm_mon /\ yd = localtime(t).tm_mday
    OBVIOUS
<1>3. PICK z, zm, zd : z = localtime(u).tm_year /\ zm = localtime(u).tm_mon /\ zd = localtime(u).tm_mday
    OBVIOUS
<1>4. PICK w, wm, wd : w = localtime(v).tm_year /\ wm = localtime(v).tm_mon /\ wd = localtime(v).tm_mday
    OBVIOUS
<1>5. /\ y \in Nat /\ ym \in Nat /\ yd \in Nat /\ z \in Nat /\ zm \in Nat /\ zd \in Nat
      /\ w \in Nat /\ wm \in Nat /\ wd \in Nat
    <2>1. ASSUME NEW x \in Moments
          PROVE  /\ localtime(x).tm_year \in Nat /\ localtime(x).tm_mon \in Nat
                 /\ localtime(x).tm_mday \in Nat
        <3>1. /\ localtime(x).tm_year \in Years /\ localtime(x).tm_mon \in Months
              /\ localtime(x).tm_mday \in 1 .. MonthLengths(localtime(x).tm_year)[localtime(x).tm_mon]
            BY LocalDay
        <3>2. MonthLengths(localtime(x).tm_year)[localtime(x).tm_mon] \in 28 .. 31
            BY <3>1, MonthFacts
        <3>3. QED BY <3>1, <3>2 DEF Years, Months
    <2>2. QED BY <1>2, <1>3, <1>4, <2>1
<1>6. /\ y <= z /\ z <= w
      /\ y = z => ym <= zm /\ (ym = zm => yd <= zd)
      /\ z = w => zm <= wm /\ (zm = wm => zd <= wd)
    <2>1. y <= z /\ (y = z => ym <= zm) /\ (y = z /\ ym = zm => yd <= zd)
        BY <1>2, <1>3, CalendarGoesOn
    <2>2. z <= w /\ (z = w => zm <= wm) /\ (z = w /\ zm = wm => zd <= wd)
        BY <1>3, <1>4, CalendarGoesOn
    <2>3. QED BY <2>1, <2>2
<1>7. PICK k, l : k = Kind(t, u) /\ l = Kind(t, v)
    OBVIOUS
<1>8. /\ u - t <= 10 => k = "now"
      /\ u - t > 10 /\ u - t <= 60 => k = "minutes"
      /\ u - t > 60 /\ y = z =>
            /\ zd = yd => k = "clock"
            /\ zd # yd /\ zd \div 7 = yd \div 7 => k = "weekday"
            /\ zd # yd /\ zd \div 7 # yd \div 7 => k = "monthDay"
      /\ u - t > 60 /\ y < z => k = IF z - y <= 1 THEN "yearMonth" ELSE "longAgo"
    BY <1>2, <1>3, <1>7, KindIs
<1>9. /\ v - t <= 10 => l = "now"
      /\ v - t > 10 /\ v - t <= 60 => l = "minutes"
      /\ v - t > 60 /\ y = w =>
            /\ wd = yd => l = "clock"
            /\ wd # yd /\ wd \div 7 = yd \div 7 => l = "weekday"
            /\ wd # yd /\ wd \div 7 # yd \div 7 => l = "monthDay"
      /\ v - t > 60 /\ y < w => l = IF w - y <= 1 THEN "yearMonth" ELSE "longAgo"
    <2>1. t <= v
        BY <1>1
    <2>2. QED BY <1>2, <1>4, <1>7, <2>1, KindIs
<1>10. SUFFICES ASSUME ~(l \in {"clock", "weekday"} /\ ym # wm)
                PROVE  Coarseness[k] <= Coarseness[l]
    BY <1>2, <1>4, <1>7
<1>11. CASE u - t <= 60
    <2>1. Coarseness[k] <= 2 /\ (u - t <= 10 => Coarseness[k] = 1)
        BY <1>1, <1>8, <1>11, CoarsenessIs
    <2>2. v - t > 60 => Coarseness[l] >= 3
        BY <1>5, <1>6, <1>9, CoarsenessIs
    <2>3. v - t <= 60 => (v - t > 10 => Coarseness[l] = 2) /\ (v - t <= 10 => Coarseness[l] = 1)
        BY <1>1, <1>9, CoarsenessIs
    <2>4. k \in {"now", "minutes"}
        BY <1>1, <1>8, <1>11
    <2>5. l \in {"now", "minutes", "clock", "weekday", "monthDay", "yearMonth", "longAgo"}
        BY <1>1, <1>5, <1>6, <1>9
    <2>6. QED BY <1>1, <1>11, <2>1, <2>2, <2>3, <2>4, <2>5, CoarsenessIs
<1>12. CASE u - t > 60
    <2>1. v - t > 60
        BY <1>1, <1>12
    <2>2. CASE w = y
        <3>1. z = y
            BY <1>5, <1>6, <2>2
        <3>2. CASE ym = wm
            <4>1. zm = ym /\ yd <= zd /\ zd <= wd
                BY <1>5, <1>6, <2>2, <3>1, <3>2
            <4>2. CASE wd = yd
                <5>1. zd = yd
                    BY <1>5, <4>1, <4>2
                <5>2. QED BY <1>8, <1>9, <1>12, <2>1, <2>2, <3>1, <4>2, <5>1, CoarsenessIs
            <4>3. CASE wd # yd /\ wd \div 7 = yd \div 7
                <5>1. zd \div 7 = yd \div 7
                    BY <1>5, <4>1, <4>3
                <5>2. k \in {"clock", "weekday"} /\ l = "weekday"
                    BY <1>8, <1>9, <1>12, <2>1, <2>2, <3>1, <4>3, <5>1
                <5>3. QED BY <5>2, CoarsenessIs
            <4>4. CASE wd # yd /\ wd \div 7 # yd \div 7
                <5>1. k \in {"clock", "weekday", "monthDay"} /\ l = "monthDay"
                    BY <1>8, <1>9, <1>12, <2>1, <2>2, <3>1, <4>4
                <5>2. QED BY <5>1, CoarsenessIs
            <4>5. QED BY <4>2, <4>3, <4>4
        <3>3. CASE ym # wm
            <4>1. k \in {"clock", "weekday", "monthDay"} /\ l = "monthDay"
                BY <1>8, <1>9, <1>10, <1>12, <2>1, <2>2, <3>1, <3>3
            <4>2. QED BY <4>1, CoarsenessIs
        <3>4. QED BY <3>2, <3>3
    <2>3. CASE y < w
        <3>1. l = IF w - y <= 1 THEN "yearMonth" ELSE "longAgo"
            BY <1>9, <2>1, <2>3
        <3>2. /\ y = z => k \in {"clock", "weekday", "monthDay"}
              /\ y < z => k = IF z - y <= 1 THEN "yearMonth" ELSE "longAgo"
            BY <1>8, <1>12
        <3>3. z - y <= w - y /\ (y = z \/ y < z)
            BY <1>5, <1>6
        <3>4. QED BY <1>5, <3>1, <3>2, <3>3, CoarsenessIs
    <2>4. QED BY <1>5, <1>6, <2>2, <2>3
<1>13. QED BY <1>1, <1>11, <1>12

\* Minute m of day d.
MinuteOf(d, m) == d * Day + m

\* A minute of a day of the calendar is a moment of it.
LEMMA MomentOf ==
    ASSUME NEW d \in Nat, d < YearStart[2026], NEW m \in DayMinutes
    PROVE  MinuteOf(d, m) \in Moments /\ Date(MinuteOf(d, m)) = d
<1>1. MinuteOf(d, m) = d * 1440 + m
    BY DayFacts DEF MinuteOf
<1>2. MinuteOf(d, m) \in Nat /\ MinuteOf(d, m) \div 1440 = d
    BY <1>1 DEF DayMinutes
<1>3. Date(MinuteOf(d, m)) = d
    BY <1>2, DayFacts DEF Date
<1>4. QED BY <1>2, <1>3 DEF Moments

\* For every day of the calendar on which messages are sent, every minute of it
\* and however often and late the list is looked at, a label never becomes finer
\* with time but for the months that FormatMsgTime does not compare.
THEOREM LabelsAge == TimeSpec => LabelAges
<1>1. TimeInit => TimeInv
    <2>1. SUFFICES ASSUME TimeInit PROVE TimeInv
        OBVIOUS
    <2>2. PICK d \in MsgDays, m \in Minutes : msgTimeStamp = d * Day + m
        BY <2>1 DEF TimeInit
    <2>3. PICK lag \in Lags \cup {-l : l \in Lags}, n \in Minutes :
              curTime = (Date(msgTimeStamp) + lag) * Day + n
        BY <2>1 DEF TimeInit
    <2>4. m \in DayMinutes /\ n \in DayMinutes /\ d \in Nat
        BY TimeAssumption DEF DayMinutes
    <2>5. lag \in Int /\ d + lag < YearStart[2026] /\ d < YearStart[2026]
        <3>1. CASE lag \in Lags
            BY <2>4, <3>1, TimeAssumption, CalendarAssumption, YearFacts
        <3>2. CASE lag \notin Lags
            <4>1. PICK l \in Lags : lag = -l
                BY <3>2
            <4>2. l \in Nat /\ d + l < YearStart[2026]
                BY <4>1, TimeAssumption, CalendarAssumption
            <4>3. QED BY <2>4, <4>1, <4>2, YearFacts
        <3>3. QED BY <3>1, <3>2
    <2>6. msgTimeStamp \in Moments /\ Date(msgTimeStamp) = d
        <3>1. msgTimeStamp = MinuteOf(d, m)
            BY <2>2 DEF MinuteOf
        <3>2. MinuteOf(d, m) \in Moments /\ Date(MinuteOf(d, m)) = d
            BY <2>4, <2>5, MomentOf
        <3>3. QED BY <3>1, <3>2
    <2>7. d + lag \in Nat
        <3>1. curTime = (d + lag) * 1440 + n /\ curTime >= 0
            BY <2>1, <2>3, <2>6, DayFacts DEF TimeInit
        <3>2. QED BY <2>4, <2>5, <3>1 DEF DayMinutes
    <2>8. curTime \in Moments
        <3>1. curTime = MinuteOf(d + lag, n)
            BY <2>3, <2>6 DEF MinuteOf
        <3>2. QED BY <2>4, <2>5, <2>7, <3>1, MomentOf
    <2>9. QED BY <2>6, <2>8 DEF TimeInv
<1>2. TimeInv /\ [TimeNext]_timeVars => TimeInv'
    <2>1. SUFFICES ASSUME TimeInv, [TimeNext]_timeVars PROVE TimeInv'
        OBVIOUS
    <2>2. CASE UNCHANGED timeVars
        BY <2>1, <2>2 DEF TimeInv, timeVars
    <2>3. ASSUME NEW d \in Nat, d < YearStart[2026], NEW m \in DayMinutes, Later(d, m)
          PROVE  TimeInv'
        <3>1. UNCHANGED msgTimeStamp /\ curTime' = MinuteOf(d, m)
            BY <2>3 DEF Later, MinuteOf
        <3>2. MinuteOf(d, m) \in Moments
            BY <2>3, MomentOf
        <3>3. QED BY <2>1, <3>1, <3>2 DEF TimeInv
    <2>4. ASSUME NEW lag \in Lags, Later(Date(msgTimeStamp) + lag, curTime % Day)
          PROVE  TimeInv'
        <3>1. PICK d \in MsgDays : d = Date(msgTimeStamp)
            BY <2>1 DEF TimeInv
        <3>2. d + lag \in Nat /\ d + lag < YearStart[2026]
            BY TimeAssumption, CalendarAssumption
        <3>3. curTime % Day \in DayMinutes
            BY <2>1, DayFacts DEF Moments, TimeInv
        <3>4. QED BY <2>3, <2>4, <3>1, <3>2, <3>3
    <2>5. ASSUME NEW m \in Minutes, Later(Date(curTime), m) PROVE TimeInv'
        <3>1. Date(curTime) \in Nat /\ Date(curTime) < YearStart[2026]
            BY <2>1, DayFacts DEF Moments, TimeInv
        <3>2. m \in DayMinutes
            BY TimeAssumption DEF DayMinutes
        <3>3. QED BY <2>3, <2>5, <3>1, <3>2
    <2>6. QED BY <2>1, <2>2, <2>4, <2>5 DEF TimeNext
<1>3. ASSUME TimeInv, TimeInv', [TimeNext]_timeVars, msgTimeStamp <= curTime, curTime < curTime'
      PROVE  Coarseness[label[1]] <= Coarseness[label'[1]] \/ MonthMissed'
    <2>1. msgTimeStamp' = msgTimeStamp
        BY <1>3 DEF TimeNext, Later, timeVars
    <2>2. /\ msgTimeStamp \in Moments /\ curTime \in Moments /\ curTime' \in Moments
          /\ curTime <= curTime'
        <3>1. msgTimeStamp \in Moments /\ curTime \in Moments /\ curTime' \in Moments
            BY <1>3 DEF TimeInv
        <3>2. QED BY <1>3, <3>1 DEF Moments
    <2>3. \/ Coarseness[Kind(msgTimeStamp, curTime)] <= Coarseness[Kind(msgTimeStamp, curTime')]
          \/ /\ Kind(msgTimeStamp, curTime') \in {"clock", "weekday"}
             /\ localtime(msgTimeStamp).tm_mon # localtime(curTime').tm_mon
        BY <1>3, <2>2, OlderIsCoarser
    <2>4. label[1] = Kind(msgTimeStamp, curTime)
        BY DEF label, Kind
    <2>5. label'[1] = Kind(msgTimeStamp, curTime')
        BY <2>1 DEF label, Kind
    <2>6. MonthMissed' <=> /\ label'[1] \in {"clock", "weekday"}
                           /\ localtime(msgTimeStamp').tm_mon # localtime(curTime').tm_mon
        BY DEF MonthMissed
    <2>7. QED BY <2>1, <2>3, <2>4, <2>5, <2>6
<1>4. QED BY <1>1, <1>2, <1>3, PTL DEF TimeSpec, LabelAges
=============================================================================
