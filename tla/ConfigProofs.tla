---------------------------- MODULE ConfigProofs ----------------------------
(***************************************************************************)
(* Proofs about ConfigStore, for any callers, keys and values, and any      *)
(* number of calls, errors and crashes.                                     *)
(***************************************************************************)
EXTENDS ConfigStore, WellFoundedInduction, TLAPS

\* A call under way has its arguments; a key that was found is still there.
CallOK == \A c \in Callers :
    /\ call[c].pc # "idle" => call[c].key \in Keys /\ call[c].value \in Values
    /\ call[c].pc = "update" => Has(call[c].key)

\* The keys of the table are those somebody has written.
Written == \A k \in Keys : Has(k) <=> writer[k] # Missing

\* init() leaves the database closed only when the file could not be opened.
Opened == main # "down" => db_ \/ openFailed

\* How far createTable has come.
Progress ==
    /\ main \in {"index", "row1", "row2", "row3"} => table
    /\ main \in {"row1", "row2", "row3"} => index
    /\ main \in {"row2", "row3"} => Has(DefaultRows[1].key)
    /\ main = "row3" => Has(DefaultRows[2].key)
    /\ db_is_open_ => table /\ main = "up"

\* A table that createTable has left is complete, or was cut short.
Complete == index /\ \A i \in DOMAIN DefaultRows : Has(DefaultRows[i].key)
CompleteUnlessHarmed ==
    table /\ main \notin {"index", "row1", "row2", "row3"} => harmed \/ Complete

\* The inductive invariant.  LostOnlyByRace needs Written and Written needs CallOK, AssertOnlyUnopened
\* needs Opened, SetUpUnlessHarmed needs Progress and CompleteUnlessHarmed.
StoreInv ==
    /\ TypeOK
    /\ CallOK
    /\ index => NoTwins
    /\ Written
    /\ Opened
    /\ Progress
    /\ CompleteUnlessHarmed
    /\ LostOnlyByRace
    /\ AssertOnlyUnopened

-----------------------------------------------------------------------------
(* The operators *)

\* Three rows, of three keys.
LEMMA DefaultFacts ==
    /\ DOMAIN DefaultRows = 1 .. 3
    /\ Len(DefaultRows) = 3
    /\ \A i \in 1 .. 3 : DefaultRows[i] \in Row
<1>1. DOMAIN DefaultRows = 1 .. 3 /\ Len(DefaultRows) = 3
  BY DEF DefaultRows
<1>2. ASSUME NEW i \in 1 .. 3 PROVE DefaultRows[i] \in Row
  <2>1. DefaultRows[i].key \in Keys /\ DefaultRows[i].value \in Values
    BY <1>1, KeysAssumption DEF Values
  <2>2. DefaultRows[i] = [key |-> DefaultRows[i].key, value |-> DefaultRows[i].value]
    BY DEF DefaultRows
  <2> QED
    BY <2>1, <2>2 DEF Row
<1> QED
  BY <1>1, <1>2

\* A set of natural numbers that is not empty has a least one.
LEMMA NatMin ==
    ASSUME NEW T \in SUBSET Nat, T # {}
    PROVE  \E i \in T : \A j \in T : i <= j
<1>1. PICK x \in T : \A y \in T : ~(<<y, x>> \in OpToRel(<, Nat))
  <2> DEFINE R == OpToRel(<, Nat)
  <2>1. IsWellFoundedOn(R, Nat)
    BY NatLessThanWellFounded
  <2> HIDE DEF R
  <2>2. \E x \in T : \A y \in T : ~(<<y, x>> \in R)
    BY <2>1, WFMin
  <2> QED
    BY <2>2 DEF R
<1>2. ASSUME NEW y \in T PROVE x <= y
  <2>1. x \in Nat /\ y \in Nat
    OBVIOUS
  <2>2. ~(<<y, x>> \in OpToRel(<, Nat))
    BY <1>1
  <2>3. ~(y < x)
    BY <2>1, <2>2 DEF OpToRel
  <2> QED
    BY <2>1, <2>3
<1> QED
  BY <1>2

\* queryKey reads a row of its key before which there is none.
LEMMA FirstRow ==
    ASSUME TypeOK, NEW k, Has(k)
    PROVE  \E i \in Of(k) : /\ \A j \in Of(k) : i <= j
                            /\ queryKey(k) = rows[i].value
                            /\ i = CHOOSE m \in Of(k) : \A j \in Of(k) : m <= j
<1>1. Of(k) \in SUBSET Nat /\ Of(k) # {}
  BY DEF TypeOK, Of, Has
<1>2. \E i \in Of(k) : \A j \in Of(k) : i <= j
  BY <1>1, NatMin
<1> DEFINE m == CHOOSE i \in Of(k) : \A j \in Of(k) : i <= j
<1>3. m \in Of(k) /\ \A j \in Of(k) : m <= j
  BY <1>2
<1>4. queryKey(k) = rows[m].value
  BY DEF queryKey
<1> HIDE DEF m
<1>5. /\ m \in Of(k) /\ \A j \in Of(k) : m <= j
      /\ queryKey(k) = rows[m].value
      /\ m = CHOOSE i \in Of(k) : \A j \in Of(k) : i <= j
  BY <1>3, <1>4 DEF m
<1> QED
  BY <1>5

\* Where no key repeats, query and queryKey read the same row.
LEMMA SameAnswer ==
    ASSUME TypeOK, NoTwins, NEW k
    PROVE  query(k) = queryKey(k)
<1>1. CASE ~Has(k)
  BY <1>1 DEF query, queryKey
<1>2. CASE Has(k)
  <2>1. PICK i \in Of(k) : /\ \A j \in Of(k) : i <= j
                           /\ queryKey(k) = rows[i].value
    BY <1>2, FirstRow
  <2>2. \A j \in Of(k) : j = i
    BY DEF Of, NoTwins
  <2>3. i \in Nat
    BY DEF Of, TypeOK
  <2>4. (CHOOSE m \in Of(k) : \A j \in Of(k) : m >= j) = i
    <3>1. i \in Of(k) /\ \A j \in Of(k) : i >= j
      BY <2>2, <2>3
    <3>2. (CHOOSE m \in Of(k) : \A j \in Of(k) : m >= j) \in Of(k)
      BY <3>1
    <3> QED
      BY <2>2, <3>2
  <2> QED
    BY <1>2, <2>1, <2>4 DEF query
<1> QED
  BY <1>1, <1>2

\* A row behind the others.
LEMMA AppendFacts ==
    ASSUME TypeOK, NEW r \in Row, rows' = Append(rows, r)
    PROVE  /\ rows' \in Seq(Row)
           /\ \A k : Has(k)' <=> (Has(k) \/ k = r.key)
           /\ NoTwins /\ ~Has(r.key) => NoTwins'
           /\ \A k : Has(k) => queryKey(k)' = queryKey(k)
           /\ ~Has(r.key) => queryKey(r.key)' = r.value
<1> DEFINE n == Len(rows) + 1
<1>1. rows \in Seq(Row) /\ Len(rows) \in Nat
  BY DEF TypeOK
<1>2. /\ rows' \in Seq(Row) /\ DOMAIN rows' = DOMAIN rows \cup {n}
      /\ DOMAIN rows = 1 .. Len(rows)
      /\ \A i \in DOMAIN rows : rows'[i] = rows[i]
      /\ rows'[n] = r
  BY <1>1
<1> HIDE DEF n
<1>3. \A k : Of(k)' = Of(k) \cup (IF r.key = k THEN {n} ELSE {})
  BY <1>2 DEF Of
<1>4. \A i \in DOMAIN rows : i \in Nat /\ i < n
  BY <1>1 DEF n
<1>5. n \in Nat
  BY <1>1 DEF n
<1>6. \A k : Has(k)' <=> (Has(k) \/ k = r.key)
  BY <1>3 DEF Has
<1>7. ASSUME NoTwins, ~Has(r.key) PROVE NoTwins'
  <2>1. \A i \in DOMAIN rows : rows[i].key # r.key
    BY <1>7 DEF Has, Of
  <2> QED
    BY <1>2, <1>7, <2>1 DEF NoTwins
<1>8. ASSUME NEW k, Has(k) PROVE queryKey(k)' = queryKey(k)
  <2>1. PICK i \in Of(k) : /\ \A j \in Of(k) : i <= j
                           /\ queryKey(k) = rows[i].value
    BY <1>8, FirstRow
  <2>2. i \in DOMAIN rows /\ Of(k) \subseteq DOMAIN rows
    BY DEF Of
  <2>3. i \in Of(k)' /\ \A j \in Of(k)' : i <= j
    BY <1>3, <1>4, <1>5, <2>1, <2>2
  <2>4. \A m \in Of(k)' : m \in Nat
    BY <1>3, <1>4, <1>5, <2>2
  <2>5. (CHOOSE m \in Of(k)' : \A j \in Of(k)' : m <= j) = i
    <3> DEFINE m == CHOOSE m \in Of(k)' : \A j \in Of(k)' : m <= j
    <3>1. m \in Of(k)' /\ \A j \in Of(k)' : m <= j
      BY <2>3
    <3> HIDE DEF m
    <3>2. m <= i /\ i <= m /\ m \in Nat /\ i \in Nat
      BY <2>3, <2>4, <3>1
    <3>3. m = i
      BY <3>2
    <3> QED
      BY <3>3 DEF m
  <2>6. Has(k)'
    BY <1>6, <1>8
  <2>7. queryKey(k)' = rows'[i].value
    BY <2>5, <2>6 DEF queryKey
  <2> QED
    BY <1>2, <2>1, <2>2, <2>7
<1>9. ASSUME ~Has(r.key) PROVE queryKey(r.key)' = r.value
  <2>1. Of(r.key)' = {n} /\ Has(r.key)'
    BY <1>3, <1>6, <1>9 DEF Has
  <2>2. (CHOOSE m \in Of(r.key)' : \A j \in Of(r.key)' : m <= j) = n
    BY <1>5, <2>1
  <2> QED
    BY <1>2, <2>1, <2>2 DEF queryKey
<1> QED
  BY <1>2, <1>6, <1>7, <1>8, <1>9

\* UPDATE changes the value of one key.
LEMMA UpdateFacts ==
    ASSUME TypeOK, NEW key \in Keys, NEW value \in Values,
           rows' = [i \in DOMAIN rows |->
                      IF rows[i].key = key THEN [rows[i] EXCEPT !.value = value]
                                           ELSE rows[i]]
    PROVE  /\ rows' \in Seq(Row)
           /\ \A k : Has(k)' <=> Has(k)
           /\ NoTwins' <=> NoTwins
           /\ \A k : k # key => queryKey(k)' = queryKey(k)
           /\ Has(key) => queryKey(key)' = value
<1>1. rows \in Seq(Row) /\ Len(rows) \in Nat
  BY DEF TypeOK
<1>2. DOMAIN rows' = DOMAIN rows /\ DOMAIN rows = 1 .. Len(rows)
  BY <1>1
<1>3. ASSUME NEW i \in DOMAIN rows
      PROVE  /\ rows'[i] \in Row /\ rows'[i].key = rows[i].key
             /\ rows[i].key = key => rows'[i].value = value
             /\ rows[i].key # key => rows'[i].value = rows[i].value
  <2>1. rows[i] \in Row
    BY <1>1
  <2> QED
    BY <2>1 DEF Row
<1>4. rows' \in Seq(Row)
  BY <1>1, <1>2, <1>3
<1>5. \A k : Of(k)' = Of(k)
  BY <1>2, <1>3 DEF Of
<1>6. \A k : Has(k)' <=> Has(k)
  BY <1>5 DEF Has
<1>7. NoTwins' <=> NoTwins
  BY <1>2, <1>3 DEF NoTwins
<1>8. ASSUME NEW k, Has(k)
      PROVE  queryKey(k)' = IF k = key THEN value ELSE queryKey(k)
  <2>1. PICK i \in Of(k) : /\ \A j \in Of(k) : i <= j
                           /\ queryKey(k) = rows[i].value
                           /\ i = CHOOSE m \in Of(k) : \A j \in Of(k) : m <= j
    BY <1>8, FirstRow
  <2>2. queryKey(k)' = rows'[i].value
    BY <1>5, <1>6, <1>8, <2>1 DEF queryKey
  <2>3. i \in DOMAIN rows /\ rows[i].key = k
    BY DEF Of
  <2> QED
    BY <1>3, <2>1, <2>2, <2>3
<1>9. ASSUME NEW k, ~Has(k) PROVE queryKey(k)' = queryKey(k)
  BY <1>6, <1>9 DEF queryKey
<1> QED
  BY <1>4, <1>6, <1>7, <1>8, <1>9

-----------------------------------------------------------------------------
(* The invariant *)

LEMMA InitStore == Init => StoreInv
<1> SUFFICES ASSUME Init PROVE StoreInv
  OBVIOUS
<1>1. rows = <<>> /\ \A k : ~Has(k)
  BY DEF Init, Has, Of
<1>2. TypeOK
  <2>1. rows \in Seq(Row) /\ writer \in [Keys -> Callers \cup {"createTable", Missing}]
    BY <1>1 DEF Init
  <2>2. call \in [Callers -> [pc : {"idle", "lookup", "update", "insert", "blind"},
                             key : Keys \cup {Missing}, value : Values \cup {Missing}]]
    BY DEF Init, Idle
  <2> QED
    BY <2>1, <2>2 DEF Init, TypeOK, MainSteps
<1>3. CallOK /\ Written /\ Opened /\ Progress /\ CompleteUnlessHarmed
  BY <1>1 DEF Init, CallOK, Idle, Written, Opened, Progress, CompleteUnlessHarmed
<1>4. LostOnlyByRace /\ AssertOnlyUnopened /\ (index => NoTwins)
  BY <1>1 DEF Init, LostOnlyByRace, Idle, AssertOnlyUnopened
<1> QED
  BY <1>2, <1>3, <1>4 DEF StoreInv

\* What depends on the rows, their writers and the calls only, where these stay.
LEMMA SameRows ==
    ASSUME StoreInv, UNCHANGED <<rows, writer, call>>
    PROVE  /\ CallOK' /\ Written' /\ LostOnlyByRace'
           /\ NoTwins' <=> NoTwins
           /\ \A k : Has(k)' <=> Has(k)
<1>1. \A k : Has(k)' <=> Has(k)
  BY DEF Has, Of
<1>2. NoTwins' <=> NoTwins
  BY DEF NoTwins
<1>3. CallOK'
  BY DEF StoreInv, CallOK, Has, Of
<1>4. Written' /\ LostOnlyByRace'
  BY <1>1 DEF StoreInv, Written, LostOnlyByRace
<1> QED
  BY <1>1, <1>2, <1>3, <1>4

\* The steps of init() up to the index, and cleanup.
LEMMA MainStore ==
    ASSUME StoreInv, Open \/ TableExists \/ CreateTable \/ CreateIndex \/ Cleanup
    PROVE  StoreInv'
<1> USE DEF Alive, Fails, Succeeds, file, helper, history, bounds
<1>1. UNCHANGED <<rows, writer, call>>
  BY DEF Open, TableExists, CreateTable, CreateIndex, Cleanup
<1>2. /\ CallOK' /\ Written' /\ LostOnlyByRace'
      /\ NoTwins' <=> NoTwins
      /\ \A k : Has(k)' <=> Has(k)
  BY <1>1, SameRows
<1>3. CASE Open
  <2>1. TypeOK'
    <3>1. rows' = rows /\ call' = call /\ writer' = writer
      BY <1>1
    <3>2. table' \in BOOLEAN /\ index' \in BOOLEAN
      BY <1>3 DEF StoreInv, TypeOK, Open
    <3>3. /\ db_' \in BOOLEAN /\ db_is_open_' \in BOOLEAN
          /\ harmed' \in BOOLEAN /\ openFailed' \in BOOLEAN
      BY <1>3 DEF StoreInv, TypeOK, Open
    <3>4. main' \in MainSteps /\ fault' \in {"none", "getConn", "terminate"}
      BY <1>3 DEF StoreInv, TypeOK, Open, MainSteps
    <3>5. updates' \in Nat /\ errors' \in Nat /\ crashes' \in Nat
      BY <1>3 DEF StoreInv, TypeOK, Open
    <3> QED
      BY <3>1, <3>2, <3>3, <3>4, <3>5 DEF StoreInv, TypeOK
  <2>2. Opened' /\ AssertOnlyUnopened' /\ (index' => NoTwins')
    BY <1>2, <1>3 DEF StoreInv, Open, Opened, AssertOnlyUnopened
  <2>3. Progress' /\ CompleteUnlessHarmed'
    BY <1>2, <1>3 DEF StoreInv, Open, Progress, CompleteUnlessHarmed, Complete
  <2> QED
    BY <1>2, <2>1, <2>2, <2>3 DEF StoreInv
<1>4. CASE TableExists
  <2>1. TypeOK'
    <3>1. rows' = rows /\ call' = call /\ writer' = writer
      BY <1>1
    <3>2. table' \in BOOLEAN /\ index' \in BOOLEAN
      BY <1>4 DEF StoreInv, TypeOK, TableExists
    <3>3. /\ db_' \in BOOLEAN /\ db_is_open_' \in BOOLEAN
          /\ harmed' \in BOOLEAN /\ openFailed' \in BOOLEAN
      BY <1>4 DEF StoreInv, TypeOK, TableExists
    <3>4. main' \in MainSteps /\ fault' \in {"none", "getConn", "terminate"}
      BY <1>4 DEF StoreInv, TypeOK, TableExists, MainSteps
    <3>5. updates' \in Nat /\ errors' \in Nat /\ crashes' \in Nat
      BY <1>4 DEF StoreInv, TypeOK, TableExists
    <3> QED
      BY <3>1, <3>2, <3>3, <3>4, <3>5 DEF StoreInv, TypeOK
  <2>2. Opened' /\ AssertOnlyUnopened' /\ (index' => NoTwins')
    BY <1>2, <1>4 DEF StoreInv, TableExists, Opened, AssertOnlyUnopened
  <2>3. Progress' /\ CompleteUnlessHarmed'
    BY <1>2, <1>4 DEF StoreInv, TableExists, Progress, CompleteUnlessHarmed, Complete
  <2> QED
    BY <1>2, <2>1, <2>2, <2>3 DEF StoreInv
<1>5. CASE CreateTable
  <2>1. TypeOK'
    <3>1. rows' = rows /\ call' = call /\ writer' = writer
      BY <1>1
    <3>2. table' \in BOOLEAN /\ index' \in BOOLEAN
      BY <1>5 DEF StoreInv, TypeOK, CreateTable
    <3>3. /\ db_' \in BOOLEAN /\ db_is_open_' \in BOOLEAN
          /\ harmed' \in BOOLEAN /\ openFailed' \in BOOLEAN
      BY <1>5 DEF StoreInv, TypeOK, CreateTable
    <3>4. main' \in MainSteps /\ fault' \in {"none", "getConn", "terminate"}
      BY <1>5 DEF StoreInv, TypeOK, CreateTable, MainSteps
    <3>5. updates' \in Nat /\ errors' \in Nat /\ crashes' \in Nat
      BY <1>5 DEF StoreInv, TypeOK, CreateTable
    <3> QED
      BY <3>1, <3>2, <3>3, <3>4, <3>5 DEF StoreInv, TypeOK
  <2>2. Opened' /\ AssertOnlyUnopened' /\ (index' => NoTwins')
    BY <1>2, <1>5 DEF StoreInv, CreateTable, Opened, AssertOnlyUnopened
  <2>3. Progress' /\ CompleteUnlessHarmed'
    BY <1>2, <1>5 DEF StoreInv, CreateTable, Progress, CompleteUnlessHarmed, Complete
  <2> QED
    BY <1>2, <2>1, <2>2, <2>3 DEF StoreInv
<1>6. CASE CreateIndex
  <2>1. TypeOK'
    <3>1. rows' = rows /\ call' = call /\ writer' = writer
      BY <1>1
    <3>2. table' \in BOOLEAN /\ index' \in BOOLEAN
      BY <1>6 DEF StoreInv, TypeOK, CreateIndex
    <3>3. /\ db_' \in BOOLEAN /\ db_is_open_' \in BOOLEAN
          /\ harmed' \in BOOLEAN /\ openFailed' \in BOOLEAN
      BY <1>6 DEF StoreInv, TypeOK, CreateIndex
    <3>4. main' \in MainSteps /\ fault' \in {"none", "getConn", "terminate"}
      BY <1>6 DEF StoreInv, TypeOK, CreateIndex, MainSteps
    <3>5. updates' \in Nat /\ errors' \in Nat /\ crashes' \in Nat
      BY <1>6 DEF StoreInv, TypeOK, CreateIndex
    <3> QED
      BY <3>1, <3>2, <3>3, <3>4, <3>5 DEF StoreInv, TypeOK
  <2>2. Opened' /\ AssertOnlyUnopened' /\ (index' => NoTwins')
    BY <1>2, <1>6 DEF StoreInv, CreateIndex, Opened, AssertOnlyUnopened
  <2>3. Progress' /\ CompleteUnlessHarmed'
    BY <1>2, <1>6 DEF StoreInv, CreateIndex, Progress, CompleteUnlessHarmed, Complete
  <2> QED
    BY <1>2, <2>1, <2>2, <2>3 DEF StoreInv
<1>7. CASE Cleanup
  <2>1. TypeOK'
    <3>1. rows' = rows /\ call' = call /\ writer' = writer
      BY <1>1
    <3>2. table' \in BOOLEAN /\ index' \in BOOLEAN
      BY <1>7 DEF StoreInv, TypeOK, Cleanup
    <3>3. /\ db_' \in BOOLEAN /\ db_is_open_' \in BOOLEAN
          /\ harmed' \in BOOLEAN /\ openFailed' \in BOOLEAN
      BY <1>7 DEF StoreInv, TypeOK, Cleanup
    <3>4. main' \in MainSteps /\ fault' \in {"none", "getConn", "terminate"}
      BY <1>7 DEF StoreInv, TypeOK, Cleanup, MainSteps
    <3>5. updates' \in Nat /\ errors' \in Nat /\ crashes' \in Nat
      BY <1>7 DEF StoreInv, TypeOK, Cleanup
    <3> QED
      BY <3>1, <3>2, <3>3, <3>4, <3>5 DEF StoreInv, TypeOK
  <2>2. Opened' /\ AssertOnlyUnopened' /\ (index' => NoTwins')
    BY <1>2, <1>7 DEF StoreInv, Cleanup, Opened, AssertOnlyUnopened
  <2>3. Progress' /\ CompleteUnlessHarmed'
    BY <1>2, <1>7 DEF StoreInv, Cleanup, Progress, CompleteUnlessHarmed, Complete
  <2> QED
    BY <1>2, <2>1, <2>2, <2>3 DEF StoreInv
<1> QED
  BY <1>3, <1>4, <1>5, <1>6, <1>7

\* A row is added by w, of a key the table does not have, or had without an index.
LEMMA AddedRow ==
    ASSUME StoreInv, NEW r \in Row, NEW w \in Callers \cup {"createTable"},
           ~(index /\ Has(r.key)), UNCHANGED index,
           rows' = Append(rows, r), writer' = [writer EXCEPT ![r.key] = w],
           \A c \in Callers : c # w => call'[c] = call[c],
           \A c \in Callers : c = w => call'[c] = Idle
    PROVE  /\ rows' \in Seq(Row)
           /\ writer' \in [Keys -> Callers \cup {"createTable", Missing}]
           /\ index' => NoTwins'
           /\ \A k : Has(k)' <=> (Has(k) \/ k = r.key)
           /\ CallOK' /\ Written' /\ LostOnlyByRace'
<1>1. /\ rows' \in Seq(Row)
      /\ \A k : Has(k)' <=> (Has(k) \/ k = r.key)
      /\ NoTwins /\ ~Has(r.key) => NoTwins'
  BY AppendFacts DEF StoreInv
<1>2. r.key \in Keys
  BY DEF Row
<1>3. writer \in [Keys -> Callers \cup {"createTable", Missing}]
  BY DEF StoreInv, TypeOK
<1>4. writer' \in [Keys -> Callers \cup {"createTable", Missing}]
  BY <1>2, <1>3
<1>5. w # Missing
  BY CallersAssumption
<1>6. Written'
  BY <1>1, <1>2, <1>3, <1>5 DEF StoreInv, Written
<1>7. CallOK'
  <2>1. ASSUME NEW d \in Callers, call'[d].pc # "idle"
        PROVE  /\ call'[d] = call[d]
               /\ call'[d].key \in Keys /\ call'[d].value \in Values
    BY <2>1 DEF StoreInv, CallOK, Idle
  <2>2. ASSUME NEW d \in Callers, NEW k, call'[d].pc = "update", call'[d].key = k
        PROVE  Has(k)'
    BY <1>1, <2>1, <2>2 DEF StoreInv, CallOK
  <2> QED
    BY <2>1, <2>2 DEF CallOK, Has, Of
<1>8. LostOnlyByRace'
  <2>1. SUFFICES ASSUME NEW c \in Callers, NEW k,
                        call'[c].pc = "insert", call'[c].key = k, Has(k)'
                 PROVE  writer'[k] \notin {c, Missing}
    BY DEF LostOnlyByRace, Has, Of
  <2>2. c # w /\ call'[c] = call[c]
    BY <2>1 DEF Idle
  <2>3. k \in Keys
    BY <2>1, <2>2 DEF StoreInv, CallOK
  <2>4. CASE k = r.key
    BY <1>3, <1>5, <2>2, <2>3, <2>4
  <2>5. CASE k # r.key
    <3>1. Has(k)
      BY <1>1, <2>1, <2>5
    <3>2. writer[k] \notin {c, Missing}
      BY <2>1, <2>2, <3>1 DEF StoreInv, LostOnlyByRace
    <3> QED
      BY <1>3, <2>3, <2>5, <3>2
  <2> QED
    BY <2>4, <2>5
<1> QED
  BY <1>1, <1>4, <1>6, <1>7, <1>8 DEF StoreInv

\* The default rows.
LEMMA InsertDefaultStore ==
    ASSUME StoreInv, NEW i \in DOMAIN DefaultRows, InsertDefault(i)
    PROVE  StoreInv'
<1> USE DEF Alive, Fails, Succeeds
<1> DEFINE r == DefaultRows[i]
<1>1. i \in 1 .. 3 /\ r \in Row /\ r.key \in Keys
  BY DefaultFacts DEF Row
<1>2. /\ UNCHANGED <<table, index, db_, call, fault, openFailed, updates, crashes>>
      /\ main = RowPC[i]
      /\ errors' \in Nat
  BY DEF InsertDefault, StoreInv, TypeOK
<1>3. main' \in MainSteps /\ main' # "down" /\ db_is_open_' \in BOOLEAN
  <2>1. \/ main' = "up" /\ db_is_open_' = TRUE
        \/ i # 3 /\ main' = RowPC[i + 1] /\ db_is_open_' = db_is_open_
    BY DefaultFacts DEF InsertDefault
  <2>2. db_is_open_ \in BOOLEAN
    BY DEF StoreInv, TypeOK
  <2>3. i # 3 => RowPC[i + 1] \in {"row2", "row3"}
    BY <1>1 DEF RowPC
  <2> QED
    BY <2>1, <2>2, <2>3 DEF MainSteps
<1>4. main \in {"row1", "row2", "row3"} /\ table /\ index
  BY <1>1, <1>2 DEF RowPC, StoreInv, Progress
<1>5. Opened' /\ AssertOnlyUnopened'
  BY <1>2, <1>3, <1>4 DEF StoreInv, Opened, AssertOnlyUnopened
<1>6. CASE rows' = rows
  <2>1. UNCHANGED <<rows, writer, call>> /\ main' = "up" /\ db_is_open_' = TRUE /\ harmed' = TRUE
    <3>1. Append(rows, r) # rows
      BY <1>1 DEF StoreInv, TypeOK
    <3> QED
      BY <1>2, <1>6, <3>1 DEF InsertDefault
  <2>2. /\ CallOK' /\ Written' /\ LostOnlyByRace'
        /\ NoTwins' <=> NoTwins
    BY <2>1, SameRows
  <2>3. TypeOK'
    BY <1>2, <1>3, <2>1 DEF StoreInv, TypeOK
  <2>4. Progress' /\ CompleteUnlessHarmed'
    BY <1>2, <1>4, <2>1 DEF StoreInv, Progress, CompleteUnlessHarmed
  <2> QED
    BY <1>2, <1>5, <2>2, <2>3, <2>4 DEF StoreInv
<1>7. CASE rows' # rows
  <2>1. /\ ~(index /\ Has(r.key))
        /\ rows' = Append(rows, r)
        /\ writer' = [writer EXCEPT ![r.key] = "createTable"]
        /\ i = 3 => main' = "up" /\ db_is_open_' = TRUE
        /\ i # 3 => main' = RowPC[i + 1] /\ db_is_open_' = db_is_open_
        /\ harmed' = harmed
    BY <1>7, DefaultFacts DEF InsertDefault
  <2>2. \A c \in Callers : c # "createTable"
    BY CallersAssumption
  <2>3. /\ rows' \in Seq(Row)
        /\ writer' \in [Keys -> Callers \cup {"createTable", Missing}]
        /\ index' => NoTwins'
        /\ \A k : Has(k)' <=> (Has(k) \/ k = r.key)
        /\ CallOK' /\ Written' /\ LostOnlyByRace'
    <3> HIDE DEF r
    <3> QED
      BY <1>1, <1>2, <2>1, <2>2, AddedRow
  <2>4. TypeOK'
    BY <1>2, <1>3, <2>1, <2>3 DEF StoreInv, TypeOK
  <2>5. CASE i = 1
    <3>1. main' = "row2" /\ db_is_open_' = db_is_open_
      BY <2>1, <2>5 DEF RowPC
    <3>2. Has(DefaultRows[1].key)'
      BY <2>3, <2>5 DEF DefaultRows
    <3> QED
      BY <1>2, <1>4, <1>5, <2>3, <2>4, <3>1, <3>2 DEF StoreInv, Progress, CompleteUnlessHarmed
  <2>6. CASE i = 2
    <3>1. main' = "row3" /\ db_is_open_' = db_is_open_ /\ main = "row2"
      BY <1>2, <2>1, <2>6 DEF RowPC
    <3>2. Has(DefaultRows[1].key)' /\ Has(DefaultRows[2].key)'
      BY <2>3, <2>6, <3>1 DEF DefaultRows, StoreInv, Progress
    <3> QED
      BY <1>2, <1>4, <1>5, <2>3, <2>4, <3>1, <3>2 DEF StoreInv, Progress, CompleteUnlessHarmed
  <2>7. CASE i = 3
    <3>1. main' = "up" /\ db_is_open_' = TRUE /\ main = "row3"
      BY <1>2, <2>1, <2>7 DEF RowPC
    <3>2. Has(DefaultRows[1].key)' /\ Has(DefaultRows[2].key)' /\ Has(DefaultRows[3].key)'
      BY <2>3, <2>7, <3>1 DEF DefaultRows, StoreInv, Progress
    <3>3. Complete'
      BY <1>2, <1>4, <3>2, DefaultFacts DEF Complete
    <3> QED
      BY <1>2, <1>4, <1>5, <2>3, <2>4, <3>1, <3>3 DEF StoreInv, Progress, CompleteUnlessHarmed
  <2> QED
    BY <1>1, <2>5, <2>6, <2>7
<1> QED
  BY <1>6, <1>7

\* What a caller's step leaves alone, where it loses no key.
LEMMA CallerFrame ==
    ASSUME StoreInv, UNCHANGED <<table, index, db_, db_is_open_, main, harmed, openFailed>>,
           \A k : Has(k) => Has(k)', fault' \in {fault, "getConn"},
           fault' # fault => ~db_
    PROVE  Opened' /\ AssertOnlyUnopened' /\ Progress' /\ CompleteUnlessHarmed'
<1>1. Opened' /\ AssertOnlyUnopened'
  BY DEF StoreInv, Opened, AssertOnlyUnopened
<1>2. Progress'
  BY DEF StoreInv, Progress, DefaultRows
<1>3. Complete => Complete'
  BY DEF Complete, DefaultRows
<1>4. CompleteUnlessHarmed'
  BY <1>3 DEF StoreInv, CompleteUnlessHarmed
<1> QED
  BY <1>1, <1>2, <1>4

\* updateKey up to its statement.
LEMMA CallStore ==
    ASSUME StoreInv, NEW c \in Callers,
           Lookup(c) \/ \E k \in Keys, v \in NewValues : Update(c, k, v)
    PROVE  StoreInv'
<1> USE DEF Alive, Fails, Succeeds, Conn, Goto, file, helper, history
<1>1. /\ UNCHANGED <<table, index, rows, db_, db_is_open_, main, harmed, openFailed,
                     writer, crashes>>
      /\ fault' \in {fault, "getConn"} /\ (fault' # fault => ~db_)
  BY DEF Lookup, Update
<1>2. (\A k : Has(k)' <=> Has(k)) /\ (NoTwins' <=> NoTwins)
  BY <1>1 DEF Has, Of, NoTwins
<1>3. updates' \in Nat /\ errors' \in Nat
  BY DEF Lookup, Update, StoreInv, TypeOK
<1> DEFINE Calls == [pc : {"idle", "lookup", "update", "insert", "blind"},
                     key : Keys \cup {Missing}, value : Values \cup {Missing}]
<1>4. call \in [Callers -> Calls]
  BY DEF StoreInv, TypeOK
<1>5. /\ call' \in [Callers -> Calls]
      /\ \A d \in Callers : d # c => call'[d] = call[d]
      /\ call'[c].key \in Keys /\ call'[c].value \in Values
      /\ call'[c].pc = "insert" => ~Has(call'[c].key)
      /\ call'[c].pc = "update" => Has(call'[c].key)
  <2>1. CASE Lookup(c)
    <3>1. PICK p \in {"update", "insert", "blind"} :
             /\ call' = [call EXCEPT ![c].pc = p]
             /\ call[c].pc = "lookup"
             /\ p = "insert" => ~Has(call[c].key)
             /\ p = "update" => Has(call[c].key)
      BY <2>1 DEF Lookup
    <3>2. call[c].key \in Keys /\ call[c].value \in Values
      BY <3>1 DEF StoreInv, CallOK
    <3>3. call'[c].pc = p /\ call'[c].key = call[c].key /\ call'[c].value = call[c].value
      BY <1>4, <3>1
    <3>4. call' \in [Callers -> Calls]
      BY <1>4, <3>1
    <3> HIDE DEF Calls
    <3>5. \A d \in Callers : d # c => call'[d] = call[d]
      BY <1>4, <3>1
    <3> QED
      BY <3>1, <3>2, <3>3, <3>4, <3>5
  <2>2. CASE \E k \in Keys, v \in NewValues : Update(c, k, v)
    <3>1. PICK k \in Keys : \E v \in NewValues : Update(c, k, v)
      BY <2>2
    <3>2. PICK v \in NewValues : Update(c, k, v)
      BY <3>1
    <3>3. call' = [call EXCEPT ![c] = [pc |-> "lookup", key |-> k, value |-> v]]
      BY <3>2 DEF Update
    <3>4. v \in Values
      BY DEF Values
    <3> QED
      BY <1>4, <3>3, <3>4
  <2> QED
    BY <2>1, <2>2
<1>6. TypeOK'
  BY <1>1, <1>3, <1>5 DEF StoreInv, TypeOK
<1> HIDE DEF Calls
<1>7. CallOK'
  <2>1. ASSUME NEW d \in Callers, call'[d].pc # "idle"
        PROVE  call'[d].key \in Keys /\ call'[d].value \in Values
    BY <1>5, <2>1 DEF StoreInv, CallOK
  <2>2. ASSUME NEW d \in Callers, NEW k, call'[d].pc = "update", call'[d].key = k
        PROVE  Has(k)'
    BY <1>2, <1>5, <2>2 DEF StoreInv, CallOK
  <2> QED
    BY <2>1, <2>2 DEF CallOK, Has, Of
<1>8. Written'
  BY <1>1, <1>2 DEF StoreInv, Written
<1>9. LostOnlyByRace'
  <2>1. SUFFICES ASSUME NEW d \in Callers, NEW k,
                        call'[d].pc = "insert", call'[d].key = k, Has(k)'
                 PROVE  writer'[k] \notin {d, Missing}
    BY DEF LostOnlyByRace, Has, Of
  <2>2. Has(k)
    BY <1>2, <2>1
  <2>3. d # c
    BY <1>5, <2>1, <2>2
  <2> QED
    BY <1>1, <1>5, <2>1, <2>2, <2>3 DEF StoreInv, LostOnlyByRace
<1>10. Opened' /\ AssertOnlyUnopened' /\ Progress' /\ CompleteUnlessHarmed'
  BY <1>1, <1>2, CallerFrame
<1> QED
  BY <1>1, <1>2, <1>6, <1>7, <1>8, <1>9, <1>10 DEF StoreInv

\* A caller's statement, in three ways: UPDATE, INSERT, neither.
LEMMA WriteCases ==
    ASSUME StoreInv, NEW c \in Callers, WriteUpdate(c) \/ WriteInsert(c)
    PROVE  LET k == call[c].key
               v == call[c].value
           IN
           /\ k \in Keys /\ v \in Values
           /\ call[c].pc # "idle"
           /\ call' = [call EXCEPT ![c] = Idle]
           /\ UNCHANGED <<table, index, db_, db_is_open_, main, fault, harmed, openFailed,
                          updates, crashes>>
           /\ errors' \in Nat
           /\ \/ /\ rows' = [i \in DOMAIN rows |->
                               IF rows[i].key = k THEN [rows[i] EXCEPT !.value = v]
                                                  ELSE rows[i]]
                 /\ writer' = [writer EXCEPT ![k] = c]
                 /\ call[c].pc = "update"
              \/ /\ ~(index /\ Has(k))
                 /\ rows' = Append(rows, [key |-> k, value |-> v])
                 /\ writer' = [writer EXCEPT ![k] = c]
              \/ UNCHANGED <<rows, writer>>
<1> USE DEF Fails, Succeeds, Return, helper
<1>1. call[c].pc # "idle"
  BY DEF WriteUpdate, WriteInsert
<1>2. call[c].key \in Keys /\ call[c].value \in Values
  BY <1>1 DEF StoreInv, CallOK
<1>3. errors \in Nat
  BY DEF StoreInv, TypeOK
<1>4. CASE WriteUpdate(c)
  BY <1>1, <1>2, <1>3, <1>4 DEF WriteUpdate
<1>5. CASE WriteInsert(c)
  BY <1>1, <1>2, <1>3, <1>5 DEF WriteInsert
<1> QED
  BY <1>4, <1>5

LEMMA WriteStore ==
    ASSUME StoreInv, NEW c \in Callers, WriteUpdate(c) \/ WriteInsert(c)
    PROVE  StoreInv'
<1> DEFINE k == call[c].key
           v == call[c].value
           Calls == [pc : {"idle", "lookup", "update", "insert", "blind"},
                     key : Keys \cup {Missing}, value : Values \cup {Missing}]
<1>1. /\ k \in Keys /\ v \in Values
      /\ call' = [call EXCEPT ![c] = Idle]
      /\ UNCHANGED <<table, index, db_, db_is_open_, main, fault, harmed, openFailed,
                     updates, crashes>>
      /\ errors' \in Nat
  BY WriteCases
<1>2. call \in [Callers -> Calls] /\ Idle \in Calls
  BY DEF StoreInv, TypeOK, Idle
<1>3. /\ call' \in [Callers -> Calls]
      /\ call'[c] = Idle
      /\ \A d \in Callers : d # c => call'[d] = call[d]
  <2> HIDE DEF Calls
  <2> QED
    BY <1>1, <1>2
<1>4. SUFFICES /\ rows' \in Seq(Row)
               /\ writer' \in [Keys -> Callers \cup {"createTable", Missing}]
               /\ index' => NoTwins'
               /\ \A q : Has(q) => Has(q)'
               /\ CallOK' /\ Written' /\ LostOnlyByRace'
  <2>1. TypeOK'
    BY <1>1, <1>3, <1>4 DEF StoreInv, TypeOK
  <2>2. Opened' /\ AssertOnlyUnopened' /\ Progress' /\ CompleteUnlessHarmed'
    BY <1>1, <1>4, CallerFrame
  <2> QED
    BY <1>4, <2>1, <2>2 DEF StoreInv
<1>5. CASE UNCHANGED <<rows, writer>>
  <2>1. /\ rows' \in Seq(Row)
        /\ writer' \in [Keys -> Callers \cup {"createTable", Missing}]
        /\ index' => NoTwins'
        /\ \A q : Has(q)' <=> Has(q)
    BY <1>1, <1>5 DEF StoreInv, TypeOK, NoTwins, Has, Of
  <2>2. CallOK'
    <3>1. ASSUME NEW d \in Callers, call'[d].pc # "idle"
          PROVE  call'[d].key \in Keys /\ call'[d].value \in Values
      BY <1>3, <3>1 DEF StoreInv, CallOK, Idle
    <3>2. ASSUME NEW d \in Callers, NEW q, call'[d].pc = "update", call'[d].key = q
          PROVE  Has(q)'
      BY <1>3, <2>1, <3>2 DEF StoreInv, CallOK, Idle
    <3> QED
      BY <3>1, <3>2 DEF CallOK, Has, Of
  <2>3. Written'
    BY <1>5, <2>1 DEF StoreInv, Written
  <2>4. LostOnlyByRace'
    <3>1. SUFFICES ASSUME NEW d \in Callers, NEW q,
                          call'[d].pc = "insert", call'[d].key = q, Has(q)'
                   PROVE  writer'[q] \notin {d, Missing}
      BY DEF LostOnlyByRace, Has, Of
    <3> QED
      BY <1>3, <1>5, <2>1, <3>1 DEF StoreInv, LostOnlyByRace, Idle
  <2> QED
    BY <2>1, <2>2, <2>3, <2>4
<1>6. CASE /\ ~(index /\ Has(k))
           /\ rows' = Append(rows, [key |-> k, value |-> v])
           /\ writer' = [writer EXCEPT ![k] = c]
  <2> DEFINE r == [key |-> k, value |-> v]
  <2>1. r \in Row /\ r.key = k
    BY <1>1 DEF Row
  <2> HIDE DEF r
  <2>2. /\ ~(index /\ Has(r.key)) /\ rows' = Append(rows, r)
        /\ writer' = [writer EXCEPT ![r.key] = c]
    BY <1>6, <2>1 DEF r
  <2> HIDE DEF k, v, Calls
  <2> QED
    BY <1>1, <1>3, <2>1, <2>2, AddedRow
<1>7. CASE /\ rows' = [i \in DOMAIN rows |->
                        IF rows[i].key = k THEN [rows[i] EXCEPT !.value = v]
                                           ELSE rows[i]]
           /\ writer' = [writer EXCEPT ![k] = c]
           /\ call[c].pc = "update"
  <2>1. /\ rows' \in Seq(Row)
        /\ \A q : Has(q)' <=> Has(q)
        /\ NoTwins' <=> NoTwins
    <3> HIDE DEF k, v
    <3> QED
      BY <1>1, <1>7, UpdateFacts DEF StoreInv
  <2>2. writer \in [Keys -> Callers \cup {"createTable", Missing}]
    BY DEF StoreInv, TypeOK
  <2>3. writer' \in [Keys -> Callers \cup {"createTable", Missing}]
    BY <1>1, <1>7, <2>2
  <2>4. c # Missing
    BY CallersAssumption
  <2>5. CallOK'
    <3>1. ASSUME NEW d \in Callers, call'[d].pc # "idle"
          PROVE  call'[d].key \in Keys /\ call'[d].value \in Values
      BY <1>3, <3>1 DEF StoreInv, CallOK, Idle
    <3>2. ASSUME NEW d \in Callers, NEW q, call'[d].pc = "update", call'[d].key = q
          PROVE  Has(q)'
      BY <1>3, <2>1, <3>2 DEF StoreInv, CallOK, Idle
    <3> QED
      BY <3>1, <3>2 DEF CallOK, Has, Of
  <2>6. Written'
    <3>1. Has(k)
      BY <1>7 DEF StoreInv, CallOK
    <3>2. ASSUME NEW q \in Keys PROVE Has(q)' <=> writer'[q] # Missing
      <4>1. writer'[q] = IF q = k THEN c ELSE writer[q]
        BY <1>7, <2>2
      <4>2. Has(q) <=> writer[q] # Missing
        BY DEF StoreInv, Written
      <4> QED
        BY <2>1, <2>4, <3>1, <4>1, <4>2
    <3> QED
      BY <3>2 DEF Written, Has, Of
  <2>7. LostOnlyByRace'
    <3>1. SUFFICES ASSUME NEW d \in Callers, NEW q,
                          call'[d].pc = "insert", call'[d].key = q, Has(q)'
                   PROVE  writer'[q] \notin {d, Missing}
      BY DEF LostOnlyByRace, Has, Of
    <3>2. d # c /\ call'[d] = call[d]
      BY <1>3, <3>1 DEF Idle
    <3>3. q \in Keys /\ writer[q] \notin {d, Missing}
      BY <2>1, <3>1, <3>2 DEF StoreInv, LostOnlyByRace, CallOK
    <3>4. writer'[q] = IF q = k THEN c ELSE writer[q]
      BY <1>7, <2>2, <3>3
    <3> QED
      BY <2>4, <3>2, <3>3, <3>4
  <2>8. index' => NoTwins'
    BY <1>1, <2>1 DEF StoreInv
  <2> HIDE DEF Calls
  <2> QED
    BY <2>1, <2>3, <2>5, <2>6, <2>7, <2>8
<1> QED
  <2> HIDE DEF Calls
  <2> QED
    BY <1>5, <1>6, <1>7, WriteCases

\* The end of the process.
LEMMA RestartStore ==
    ASSUME StoreInv, Restart
    PROVE  StoreInv'
<1> USE DEF Alive, file
<1>1. /\ UNCHANGED <<table, index, rows, writer, updates, errors>>
      /\ db_' = FALSE /\ db_is_open_' = FALSE /\ main' = "down" /\ fault' = "none"
      /\ openFailed' = FALSE
      /\ call' = [c \in Callers |-> Idle]
  BY DEF Restart
<1>2. (\A k : Has(k)' <=> Has(k)) /\ (NoTwins' <=> NoTwins)
  BY <1>1 DEF Has, Of, NoTwins
<1>3. harmed' \in BOOLEAN /\ crashes' \in Nat
  BY DEF Restart, StoreInv, TypeOK
<1>4. call' \in [Callers -> [pc : {"idle", "lookup", "update", "insert", "blind"},
                             key : Keys \cup {Missing}, value : Values \cup {Missing}]]
  BY <1>1 DEF Idle
<1>5. TypeOK'
  BY <1>1, <1>3, <1>4 DEF StoreInv, TypeOK, MainSteps
<1>6. CallOK' /\ LostOnlyByRace' /\ Opened' /\ AssertOnlyUnopened' /\ Progress'
  BY <1>1 DEF CallOK, Idle, LostOnlyByRace, Opened, AssertOnlyUnopened, Progress
<1>7. Written'
  BY <1>1, <1>2 DEF StoreInv, Written
<1>8. CompleteUnlessHarmed'
  <2>1. Complete' <=> Complete
    BY <1>1, <1>2 DEF Complete, DefaultRows
  <2>2. harmed' <=> (harmed \/ main \in {"index", "row1", "row2", "row3"})
    BY DEF Restart
  <2> QED
    BY <1>1, <2>1, <2>2 DEF StoreInv, CompleteUnlessHarmed
<1> QED
  BY <1>1, <1>2, <1>5, <1>6, <1>7, <1>8 DEF StoreInv

\* Every step.
LEMMA NextStore == StoreInv /\ [Next]_vars => StoreInv'
<1> SUFFICES ASSUME StoreInv, [Next]_vars PROVE StoreInv'
  OBVIOUS
<1>1. CASE Open \/ TableExists \/ CreateTable \/ CreateIndex \/ Cleanup
  BY <1>1, MainStore
<1>2. CASE \E i \in DOMAIN DefaultRows : InsertDefault(i)
  BY <1>2, InsertDefaultStore
<1>3. CASE \E c \in Callers :
             Lookup(c) \/ \E k \in Keys, v \in NewValues : Update(c, k, v)
  BY <1>3, CallStore
<1>4. CASE \E c \in Callers : WriteUpdate(c) \/ WriteInsert(c)
  BY <1>4, WriteStore
<1>5. CASE Restart
  BY <1>5, RestartStore
<1>6. CASE UNCHANGED vars
  <2> USE <1>6 DEF vars
  <2>1. CallOK' /\ Written' /\ LostOnlyByRace' /\ (NoTwins' <=> NoTwins)
        /\ \A k : Has(k)' <=> Has(k)
    BY SameRows
  <2>2. TypeOK'
    BY DEF StoreInv, TypeOK
  <2>3. Opened' /\ AssertOnlyUnopened'
    BY DEF StoreInv, Opened, AssertOnlyUnopened
  <2>4. Progress' /\ CompleteUnlessHarmed'
    BY <2>1 DEF StoreInv, Progress, CompleteUnlessHarmed, Complete, DefaultRows
  <2> QED
    BY <2>1, <2>2, <2>3, <2>4 DEF StoreInv
<1> QED
  BY <1>1, <1>2, <1>3, <1>4, <1>5, <1>6 DEF Next

\* The inductive invariant holds.
LEMMA StoreInvariant == Spec => []StoreInv
  BY InitStore, NextStore, PTL DEF Spec

-----------------------------------------------------------------------------
(* The theorems *)

\* The state is of its type.
THEOREM StoreTypeCorrect == Spec => []TypeOK
<1>1. StoreInv => TypeOK
  BY DEF StoreInv
<1> QED
  BY <1>1, StoreInvariant, PTL

\* With its index the table holds each key once, and query and queryKey agree,
\* whatever calls race, fail or are cut off by a crash.
THEOREM KeysAlwaysUnique == Spec => []KeysUnique
<1>1. StoreInv => KeysUnique
  BY SameAnswer DEF StoreInv, KeysUnique
<1> QED
  BY <1>1, StoreInvariant, PTL

\* An open database is complete unless createTable was once cut short.
THEOREM AlwaysSetUp == Spec => []SetUpUnlessHarmed
<1>1. StoreInv => SetUpUnlessHarmed
  BY DEF StoreInv, SetUpUnlessHarmed, Progress, CompleteUnlessHarmed, Complete
<1> QED
  BY <1>1, StoreInvariant, PTL

\* Between the lookup and the insertion of updateKey only another writer can come.
THEOREM LossesExplained == Spec => []LostOnlyByRace
<1>1. StoreInv => LostOnlyByRace
  BY DEF StoreInv
<1> QED
  BY <1>1, StoreInvariant, PTL

\* getConn's assertion fails only after an init() that could not open the file, or
\* in a call that cleanup has overtaken.
THEOREM AssertExplained == Spec => []AssertOnlyUnopened
<1>1. StoreInv => AssertOnlyUnopened
  BY DEF StoreInv
<1> QED
  BY <1>1, StoreInvariant, PTL

-----------------------------------------------------------------------------
(* The refinement *)

mapBar == [k \in Keys |-> queryKey(k)]
requestBar == [c \in Callers |-> IF call[c].pc = "idle" THEN Missing
                                 ELSE <<call[c].key, call[c].value>>]

LEMMA InitMap == Init => Map!Init
<1> SUFFICES ASSUME Init PROVE Map!Init
  OBVIOUS
<1>1. \A k : queryKey(k) = Missing
  BY DEF Init, queryKey, Has, Of
<1>2. \A c \in Callers : call[c].pc = "idle"
  BY DEF Init, Idle
<1> QED
  BY <1>1, <1>2 DEF Map!Init

\* A key without a row has no value, and a request is none until there is a call.
LEMMA BarFacts ==
    ASSUME StoreInv
    PROVE  /\ \A k \in Keys : mapBar[k] = queryKey(k)
           /\ \A k : ~Has(k) => queryKey(k) = Missing
           /\ \A c \in Callers : call[c].pc = "idle" => requestBar[c] = Missing
           /\ \A c \in Callers : call[c].pc # "idle" =>
                 /\ requestBar[c] = <<call[c].key, call[c].value>>
                 /\ requestBar[c] # Missing
<1>1. \A k \in Keys : mapBar[k] = queryKey(k)
  BY DEF mapBar
<1>2. \A k : ~Has(k) => queryKey(k) = Missing
  BY DEF queryKey
<1>3. ASSUME NEW c \in Callers, call[c].pc # "idle"
      PROVE  requestBar[c] = <<call[c].key, call[c].value>> /\ requestBar[c] # Missing
  <2>1. call[c].key \in Keys /\ call[c].value \in Values
    BY <1>3 DEF StoreInv, CallOK
  <2> QED
    BY <1>3, <2>1, KeysAssumption DEF requestBar
<1> QED
  BY <1>1, <1>2, <1>3 DEF requestBar

\* Two functions that agree everywhere but at one place.
LEMMA ExceptFacts ==
    ASSUME NEW S, NEW f, NEW g, NEW a \in S, NEW b,
           f = [x \in S |-> f[x]], g = [x \in S |-> g[x]],
           g[a] = b, \A x \in S : x # a => g[x] = f[x]
    PROVE  g = [f EXCEPT ![a] = b]
  OBVIOUS

\* The main thread's steps fill in a missing key or change nothing.
LEMMA MainMap ==
    ASSUME StoreInv,
           \/ Open \/ TableExists \/ CreateTable \/ CreateIndex \/ Cleanup
           \/ \E i \in DOMAIN DefaultRows : InsertDefault(i)
    PROVE  \/ UNCHANGED <<mapBar, requestBar>>
           \/ \E k \in Keys, v \in Values :
                /\ mapBar[k] = Missing
                /\ mapBar' = [mapBar EXCEPT ![k] = v]
                /\ UNCHANGED requestBar
<1> USE DEF Alive, Fails, Succeeds, file, helper, history, bounds
<1>1. UNCHANGED call
  BY DEF Open, TableExists, CreateTable, CreateIndex, Cleanup, InsertDefault
<1>2. UNCHANGED requestBar
  BY <1>1 DEF requestBar
<1>3. CASE UNCHANGED rows
  <2>1. mapBar' = mapBar
    BY <1>3 DEF mapBar, queryKey, Has, Of
  <2> QED
    BY <1>2, <2>1
<1>4. CASE ~UNCHANGED rows
  <2>1. PICK i \in DOMAIN DefaultRows : InsertDefault(i)
    BY <1>4 DEF Open, TableExists, CreateTable, CreateIndex, Cleanup
  <2> DEFINE r == DefaultRows[i]
  <2>2. rows' = Append(rows, r) /\ ~(index /\ Has(r.key)) /\ r \in Row /\ main = RowPC[i]
    BY <1>4, <2>1, DefaultFacts DEF InsertDefault
  <2>3. ~Has(r.key)
    <3>1. main \in {"row1", "row2", "row3"}
      BY <2>2, DefaultFacts DEF RowPC
    <3> QED
      BY <2>2, <3>1 DEF StoreInv, Progress
  <2> HIDE DEF r
  <2>4. /\ \A k : Has(k)' <=> (Has(k) \/ k = r.key)
        /\ \A k : Has(k) => queryKey(k)' = queryKey(k)
        /\ queryKey(r.key)' = r.value
    BY <2>2, <2>3, AppendFacts DEF StoreInv
  <2>5. ASSUME NEW k \in Keys, k # r.key PROVE queryKey(k)' = queryKey(k)
    <3>1. CASE Has(k)
      BY <2>4, <3>1
    <3>2. CASE ~Has(k)
      BY <2>4, <2>5, <3>2 DEF queryKey
    <3> QED
      BY <3>1, <3>2
  <2>6. r.key \in Keys /\ r.value \in Values
    BY <2>2 DEF Row
  <2>7. mapBar' = [mapBar EXCEPT ![r.key] = r.value]
    BY <2>4, <2>5, <2>6 DEF mapBar
  <2>8. mapBar[r.key] = Missing
    BY <2>3, <2>6, BarFacts
  <2> QED
    BY <1>2, <2>6, <2>7, <2>8
<1> QED
  BY <1>3, <1>4

\* A call of updateKey is a request, its lookup nothing.
LEMMA CallMap ==
    ASSUME StoreInv, NEW c \in Callers,
           Lookup(c) \/ \E k \in Keys, v \in NewValues : Update(c, k, v)
    PROVE  /\ UNCHANGED mapBar
           /\ \/ UNCHANGED requestBar
              \/ \E k \in Keys, v \in Values :
                   /\ requestBar[c] = Missing
                   /\ requestBar' = [requestBar EXCEPT ![c] = <<k, v>>]
<1> USE DEF Alive, Fails, Succeeds, Conn, Goto, file, helper, history
<1>1. UNCHANGED rows
  BY DEF Lookup, Update
<1>2. mapBar' = mapBar
  BY <1>1 DEF mapBar, queryKey, Has, Of
<1> DEFINE Calls == [pc : {"idle", "lookup", "update", "insert", "blind"},
                     key : Keys \cup {Missing}, value : Values \cup {Missing}]
<1>3. call \in [Callers -> Calls]
  BY DEF StoreInv, TypeOK
<1>4. CASE Lookup(c)
  <2>1. PICK p \in {"update", "insert", "blind"} :
             call' = [call EXCEPT ![c].pc = p] /\ call[c].pc = "lookup"
    BY <1>4 DEF Lookup
  <2>2. /\ call'[c].pc # "idle" /\ call'[c].key = call[c].key
        /\ call'[c].value = call[c].value /\ call[c].pc # "idle"
    BY <1>3, <2>1
  <2> HIDE DEF Calls
  <2>3. \A d \in Callers : d # c => call'[d] = call[d]
    BY <1>3, <2>1
  <2>4. requestBar' = requestBar
    BY <2>2, <2>3 DEF requestBar
  <2> QED
    BY <1>2, <2>4
<1>5. CASE \E k \in Keys, v \in NewValues : Update(c, k, v)
  <2>1. PICK k \in Keys : \E v \in NewValues : Update(c, k, v)
    BY <1>5
  <2>2. PICK v \in NewValues : Update(c, k, v)
    BY <2>1
  <2>3. /\ call' = [call EXCEPT ![c] = [pc |-> "lookup", key |-> k, value |-> v]]
        /\ call[c].pc = "idle"
    BY <2>2 DEF Update
  <2>4. v \in Values
    BY DEF Values
  <2> HIDE DEF Calls
  <2>5. /\ call'[c] = [pc |-> "lookup", key |-> k, value |-> v]
        /\ \A d \in Callers : d # c => call'[d] = call[d]
    BY <1>3, <2>3
  <2>6. requestBar' = [requestBar EXCEPT ![c] = <<k, v>>]
    <3>1. requestBar'[c] = <<k, v>> /\ \A d \in Callers : d # c => requestBar'[d] = requestBar[d]
      BY <2>5 DEF requestBar
    <3>2. /\ requestBar = [d \in Callers |-> requestBar[d]]
          /\ requestBar' = [d \in Callers |-> requestBar'[d]]
      BY DEF requestBar
    <3> QED
      BY <3>1, <3>2, ExceptFacts
  <2>7. requestBar[c] = Missing
    BY <2>3, BarFacts
  <2> QED
    BY <1>2, <2>4, <2>6, <2>7
<1> QED
  BY <1>4, <1>5

\* Its statement is the request's effect or its loss.
LEMMA WriteMap ==
    ASSUME StoreInv, NEW c \in Callers, WriteUpdate(c) \/ WriteInsert(c)
    PROVE  /\ requestBar[c] # Missing
           /\ requestBar' = [requestBar EXCEPT ![c] = Missing]
           /\ \/ UNCHANGED mapBar
              \/ mapBar' = [mapBar EXCEPT ![requestBar[c][1]] = requestBar[c][2]]
<1>1. /\ call[c].key \in Keys /\ call[c].value \in Values
      /\ call[c].pc # "idle"
      /\ call' = [call EXCEPT ![c] = Idle]
  BY WriteCases
<1> PICK k \in Keys : k = call[c].key
  BY <1>1
<1> PICK v \in Values : v = call[c].value
  BY <1>1
<1>2. requestBar[c] # Missing /\ requestBar[c][1] = k /\ requestBar[c][2] = v
  BY <1>1, BarFacts
<1>3. requestBar' = [requestBar EXCEPT ![c] = Missing]
  <2>1. DOMAIN call = Callers
    BY DEF StoreInv, TypeOK
  <2>2. call'[c] = Idle /\ \A d \in Callers : d # c => call'[d] = call[d]
    BY <1>1, <2>1
  <2>3. requestBar'[c] = Missing /\ \A d \in Callers : d # c => requestBar'[d] = requestBar[d]
    BY <2>2 DEF requestBar, Idle
  <2>4. /\ requestBar = [d \in Callers |-> requestBar[d]]
        /\ requestBar' = [d \in Callers |-> requestBar'[d]]
    BY DEF requestBar
  <2> QED
    BY <2>3, <2>4, ExceptFacts
<1>4. SUFFICES UNCHANGED mapBar \/ mapBar' = [mapBar EXCEPT ![k] = v]
  BY <1>2, <1>3, <1>4
<1>8. ASSUME queryKey(k)' = v, \A q : q # k => queryKey(q)' = queryKey(q)
      PROVE  mapBar' = [mapBar EXCEPT ![k] = v]
  <2>1. mapBar'[k] = v /\ \A q \in Keys : q # k => mapBar'[q] = mapBar[q]
    BY <1>8 DEF mapBar
  <2>2. mapBar = [q \in Keys |-> mapBar[q]] /\ mapBar' = [q \in Keys |-> mapBar'[q]]
    BY DEF mapBar
  <2> QED
    BY <2>1, <2>2, ExceptFacts
<1>5. CASE UNCHANGED rows
  BY <1>5 DEF mapBar, queryKey, Has, Of
<1>6. CASE /\ ~(index /\ Has(k))
           /\ rows' = Append(rows, [key |-> k, value |-> v])
  <2> DEFINE r == [key |-> k, value |-> v]
  <2>1. r \in Row /\ r.key = k /\ r.value = v
    BY <1>1 DEF Row
  <2> HIDE DEF r
  <2>2. rows' = Append(rows, r)
    BY <1>6 DEF r
  <2>3. /\ \A q : Has(q)' <=> (Has(q) \/ q = k)
        /\ \A q : Has(q) => queryKey(q)' = queryKey(q)
        /\ ~Has(k) => queryKey(k)' = v
    BY <2>1, <2>2, AppendFacts DEF StoreInv
  <2>4. \A q : q # k => queryKey(q)' = queryKey(q)
    <3>1. ASSUME NEW q, q # k, ~Has(q) PROVE queryKey(q)' = queryKey(q)
      BY <2>3, <3>1 DEF queryKey
    <3> QED
      BY <2>3, <3>1
  <2>5. CASE Has(k)
    <3>1. \A q : queryKey(q)' = queryKey(q)
      BY <2>3, <2>4, <2>5
    <3> QED
      BY <3>1 DEF mapBar
  <2>6. CASE ~Has(k)
    BY <1>8, <2>3, <2>4, <2>6
  <2> QED
    BY <2>5, <2>6
<1>7. CASE /\ rows' = [i \in DOMAIN rows |->
                        IF rows[i].key = k THEN [rows[i] EXCEPT !.value = v]
                                           ELSE rows[i]]
           /\ call[c].pc = "update"
  <2>1. Has(k)
    BY <1>7 DEF StoreInv, CallOK
  <2>2. queryKey(k)' = v /\ \A q : q # k => queryKey(q)' = queryKey(q)
    BY <1>7, <2>1, UpdateFacts DEF StoreInv
  <2> QED
    BY <1>8, <2>2
<1> QED
  BY <1>5, <1>6, <1>7, WriteCases

LEMMA RestartMap ==
    ASSUME StoreInv, Restart
    PROVE  UNCHANGED mapBar /\ requestBar' = [c \in Callers |-> Missing]
<1>1. rows' = rows /\ call' = [c \in Callers |-> Idle]
  BY DEF Restart, file
<1>2. mapBar' = mapBar
  BY <1>1 DEF mapBar, queryKey, Has, Of
<1>3. requestBar' = [c \in Callers |-> Missing]
  BY <1>1 DEF requestBar, Idle
<1> QED
  BY <1>2, <1>3

LEMMA StepMap == StoreInv /\ [Next]_vars => [Map!Next]_(Map!vars)
<1> SUFFICES ASSUME StoreInv, [Next]_vars PROVE [Map!Next]_(Map!vars)
  OBVIOUS
<1> USE DEF Map!vars
<1>1. CASE \/ Open \/ TableExists \/ CreateTable \/ CreateIndex \/ Cleanup
           \/ \E i \in DOMAIN DefaultRows : InsertDefault(i)
  <2>1. CASE UNCHANGED <<mapBar, requestBar>>
    BY <2>1 DEF mapBar, requestBar
  <2>2. CASE \E k \in Keys, v \in Values :
               /\ mapBar[k] = Missing
               /\ mapBar' = [mapBar EXCEPT ![k] = v]
               /\ UNCHANGED requestBar
    <3>1. \E k \in Keys, v \in Values : Map!Fill(k, v)
      BY <2>2 DEF Map!Fill, mapBar, requestBar
    <3> QED
      BY <3>1 DEF Map!Next
  <2> QED
    BY <1>1, <2>1, <2>2, MainMap
<1>2. CASE \E c \in Callers :
             Lookup(c) \/ \E k \in Keys, v \in NewValues : Update(c, k, v)
  <2>1. PICK c \in Callers :
               Lookup(c) \/ \E k \in Keys, v \in NewValues : Update(c, k, v)
    BY <1>2
  <2>2. CASE UNCHANGED <<mapBar, requestBar>>
    BY <2>2 DEF mapBar, requestBar
  <2>3. CASE /\ UNCHANGED mapBar
             /\ \E k \in Keys, v \in Values :
                  /\ requestBar[c] = Missing
                  /\ requestBar' = [requestBar EXCEPT ![c] = <<k, v>>]
    <3>1. \E k \in Keys, v \in Values : Map!Request(c, k, v)
      BY <2>3 DEF Map!Request, mapBar, requestBar
    <3> QED
      BY <3>1 DEF Map!Next
  <2> QED
    BY <2>1, <2>2, <2>3, CallMap
<1>3. CASE \E c \in Callers : WriteUpdate(c) \/ WriteInsert(c)
  <2>1. PICK c \in Callers : WriteUpdate(c) \/ WriteInsert(c)
    BY <1>3
  <2>2. /\ requestBar[c] # Missing
        /\ requestBar' = [requestBar EXCEPT ![c] = Missing]
        /\ \/ UNCHANGED mapBar
           \/ mapBar' = [mapBar EXCEPT ![requestBar[c][1]] = requestBar[c][2]]
    BY <2>1, WriteMap
  <2>3. Map!Apply(c) \/ Map!Drop(c)
    BY <2>2 DEF Map!Apply, Map!Drop, mapBar, requestBar
  <2> QED
    BY <2>3 DEF Map!Next
<1>4. CASE Restart
  <2>1. Map!Restart
    BY <1>4, RestartMap DEF Map!Restart, mapBar, requestBar
  <2> QED
    BY <2>1 DEF Map!Next
<1>5. CASE UNCHANGED vars
  BY <1>5 DEF vars, queryKey, Has, Of
<1> QED
  BY <1>1, <1>2, <1>3, <1>4, <1>5 DEF Next

\* Seen through queryKey the table is a map with atomic stores that outlives the
\* process, whatever is interrupted.
THEOREM StoreImplementsMap == Spec => ImplementsConfigMap
<1>1. Init => Map!Init
  BY InitMap
<1>2. StoreInv /\ [Next]_vars => [Map!Next]_(Map!vars)
  BY StepMap
<1> QED
  BY <1>1, <1>2, StoreInvariant, PTL DEF Spec, Map!Spec, ImplementsConfigMap
=============================================================================
