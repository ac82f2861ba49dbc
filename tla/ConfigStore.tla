----------------------------- MODULE ConfigStore -----------------------------
(***************************************************************************)
(* The local database: SqliteHelper (db/sqlite3_helper.cpp) and ConfigDao  *)
(* (db/config_dao.cpp).  The file msg.db holds one table, its unique index *)
(* and its rows; each SQL statement commits by itself, so each is a step,  *)
(* and the process may die between any two of them.  The application's     *)
(* main thread opens and closes the database; any thread may then store    *)
(* settings with updateKey.  SQLite itself is external: a statement has    *)
(* its whole effect or fails with an exception.                            *)
(***************************************************************************)
EXTENDS Naturals, Sequences

CONSTANTS Callers,      \* threads that call updateKey
          Keys,         \* names of settings, those of DefaultRows and others
          NewValues,    \* values the application stores
          Missing,      \* no value, no request
          MaxUpdates,   \* bound: calls of updateKey
          MaxErrors,    \* bound: statements that fail
          MaxCrashes    \* bound: ends of the process that it did not choose

\* INSERT_DATA_USER_CONFIG_IP, _MSG_PORT and _HTTP_PORT, in insertion order.
DefaultRows == << [key |-> "serverIp", value |-> "127.0.0.1"],
                  [key |-> "gatePort", value |-> "8000"],
                  [key |-> "httpPort", value |-> "18080"] >>

Values == NewValues \cup {DefaultRows[i].value : i \in DOMAIN DefaultRows}

ASSUME KeysAssumption ==
    /\ \A i \in DOMAIN DefaultRows : DefaultRows[i].key \in Keys
    /\ Missing \notin Values
    /\ Missing \notin Keys \X Values
ASSUME CallersAssumption ==
    "createTable" \notin Callers /\ Missing \notin Callers \cup {"createTable"}
ASSUME BoundsAssumption ==
    MaxUpdates \in Nat /\ MaxErrors \in Nat /\ MaxCrashes \in Nat

VARIABLES
    \* ---- the file
    table,        \* im_user_config exists
    index,        \* im_index_key exists
    rows,         \* the rows in order of their id
    \* ---- SqliteHelper
    db_,          \* the connection is not null
    db_is_open_,
    \* ---- control
    main,         \* where the main thread is in init() and cleanup()
    call,         \* per caller: where it is in updateKey, and its arguments
    fault,        \* why the process was aborted, if it was
    \* ---- history and bounds
    harmed,       \* createTable was once cut short after the table
    openFailed,   \* the last init() could not open the file
    writer,       \* who last wrote a key, Missing if nobody
    updates, errors, crashes

file == <<table, index, rows>>
helper == <<db_, db_is_open_>>
history == <<harmed, openFailed, writer>>
bounds == <<updates, errors, crashes>>
vars == <<table, index, rows, db_, db_is_open_, main, call, fault,
          harmed, openFailed, writer, updates, errors, crashes>>

Row == [key : Keys, value : Values]
Idle == [pc |-> "idle", key |-> Missing, value |-> Missing]
MainSteps == {"down", "tableExists", "create", "index", "row1", "row2", "row3", "up"}

TypeOK ==
    /\ table \in BOOLEAN /\ index \in BOOLEAN /\ rows \in Seq(Row)
    /\ db_ \in BOOLEAN /\ db_is_open_ \in BOOLEAN
    /\ main \in MainSteps
    /\ call \in [Callers -> [pc : {"idle", "lookup", "update", "insert", "blind"},
                             key : Keys \cup {Missing}, value : Values \cup {Missing}]]
    /\ fault \in {"none", "getConn", "terminate"}
    /\ harmed \in BOOLEAN /\ openFailed \in BOOLEAN
    /\ writer \in [Keys -> Callers \cup {"createTable", Missing}]
    /\ updates \in Nat /\ errors \in Nat /\ crashes \in Nat

------------------------------------------------------------------------------
(* Reading *)

Of(k) == {i \in DOMAIN rows : rows[i].key = k}
Has(k) == Of(k) # {}

NoTwins == \A i, j \in DOMAIN rows : rows[i].key = rows[j].key => i = j

\* ConfigDao::queryKey: the first row of the key.
queryKey(k) ==
    IF Has(k) THEN rows[CHOOSE i \in Of(k) : \A j \in Of(k) : i <= j].value ELSE Missing

\* ConfigDao::query: every row in turn, so the last one of a key is kept.
query(k) ==
    IF Has(k) THEN rows[CHOOSE i \in Of(k) : \A j \in Of(k) : i >= j].value ELSE Missing

------------------------------------------------------------------------------
(* SqliteHelper::init and ConfigDao::createTable, on the main thread *)

Alive == fault = "none"

\* A statement fails: the exception is caught and logged.
Fails == errors < MaxErrors /\ errors' = errors + 1
Succeeds == UNCHANGED errors

\* Seeded fault: the connection counts as open as soon as the file is.
OpenAtOnce ==
    /\ Alive /\ main = "down"
    /\ \/ /\ Succeeds /\ db_' = TRUE /\ db_is_open_' = TRUE
          /\ main' = "tableExists" /\ openFailed' = FALSE
       \/ Fails /\ UNCHANGED helper /\ main' = "up" /\ openFailed' = TRUE
    /\ UNCHANGED <<file, call, fault, harmed, writer, updates, crashes>>

\* The file is opened, or created empty; CreateDirectory's result is ignored,
\* so a directory that is missing shows here.
Open ==
    /\ Alive /\ main = "down"
    /\ \/ Succeeds /\ db_' = TRUE /\ main' = "tableExists" /\ openFailed' = FALSE
       \/ Fails /\ UNCHANGED db_ /\ main' = "up" /\ openFailed' = TRUE
    /\ UNCHANGED <<file, db_is_open_, call, fault, harmed, writer, updates, crashes>>

\* tableExists is not inside a try, and createTable is noexcept.
TableExists ==
    /\ Alive /\ main = "tableExists"
    /\ \/ /\ Succeeds
          /\ IF table THEN db_is_open_' = TRUE /\ main' = "up"
                      ELSE UNCHANGED db_is_open_ /\ main' = "create"
          /\ UNCHANGED fault
       \/ Fails /\ fault' = "terminate" /\ UNCHANGED <<db_is_open_, main>>
    /\ UNCHANGED <<file, db_, call, history, updates, crashes>>

\* Seeded fault: the connection is given up when the table cannot be made.
CreateTableOrClose ==
    /\ Alive /\ main = "create"
    /\ \/ Succeeds /\ table' = TRUE /\ main' = "index" /\ UNCHANGED db_
       \/ Fails /\ db_' = FALSE /\ UNCHANGED table /\ main' = "up"
    /\ UNCHANGED <<index, rows, db_is_open_, call, fault, history, updates, crashes>>

\* CREATE_SQL_USER_CONFIG; a failure makes init() return false, db_ stays.
CreateTable ==
    /\ Alive /\ main = "create"
    /\ \/ Succeeds /\ table' = TRUE /\ main' = "index"
       \/ Fails /\ UNCHANGED table /\ main' = "up"
    /\ UNCHANGED <<index, rows, helper, call, fault, history, updates, crashes>>

\* CREATE_SQL_INDEX_USER_CONFIG: SQLite refuses it over rows that repeat a key.
\* A failure leaves the table without its default rows too.
CreateIndex ==
    /\ Alive /\ main = "index"
    /\ \/ /\ Succeeds /\ NoTwins
          /\ index' = TRUE /\ main' = "row1"
          /\ UNCHANGED harmed
       \/ /\ Fails \/ (Succeeds /\ ~NoTwins)
          /\ UNCHANGED index /\ main' = "up"
          /\ harmed' = TRUE
    /\ UNCHANGED <<table, rows, helper, call, fault, openFailed, writer, updates, crashes>>

RowPC == <<"row1", "row2", "row3">>

\* Seeded fault: the rows are inserted without their values.
InsertDefaultUnbound(i) ==
    LET k == DefaultRows[i].key IN
    /\ Alive /\ main = RowPC[i]
    /\ Succeeds
    /\ rows' = Append(rows, [key |-> k, value |-> Missing])
    /\ writer' = [writer EXCEPT ![k] = "createTable"]
    /\ IF i = Len(DefaultRows) THEN main' = "up" /\ db_is_open_' = TRUE
                               ELSE main' = RowPC[i + 1] /\ UNCHANGED db_is_open_
    /\ UNCHANGED <<table, index, db_, call, fault, harmed, openFailed, updates, crashes>>

\* insertDefaultData: three statements in one try, so one that fails, or finds
\* its key stored meanwhile by a call begun before, skips those after it;
\* createTable returns true whatever comes of them.
InsertDefault(i) ==
    LET k == DefaultRows[i].key IN
    /\ Alive /\ main = RowPC[i]
    /\ \/ /\ Succeeds /\ ~(index /\ Has(k))
          /\ rows' = Append(rows, DefaultRows[i])
          /\ writer' = [writer EXCEPT ![k] = "createTable"]
          /\ IF i = Len(DefaultRows) THEN main' = "up" /\ db_is_open_' = TRUE
                                     ELSE main' = RowPC[i + 1] /\ UNCHANGED db_is_open_
          /\ UNCHANGED harmed
       \/ /\ Fails \/ (Succeeds /\ index /\ Has(k))
          /\ UNCHANGED <<rows, writer>>
          /\ main' = "up" /\ db_is_open_' = TRUE
          /\ harmed' = TRUE
    /\ UNCHANGED <<table, index, db_, call, fault, openFailed, updates, crashes>>

\* SqliteHelper::cleanup: it closes only what init() has finished opening.
Cleanup ==
    /\ Alive /\ main = "up"
    /\ db_' = (db_ /\ ~db_is_open_)
    /\ db_is_open_' = FALSE
    /\ main' = "down"
    /\ UNCHANGED <<file, call, fault, history, bounds>>

------------------------------------------------------------------------------
(* ConfigDao::updateKey, on any thread, once initChatKit has returned *)

Conn(c) == IF db_ THEN UNCHANGED fault ELSE fault' = "getConn"

Goto(c, pc) == call' = [call EXCEPT ![c].pc = pc]
Return(c) == call' = [call EXCEPT ![c] = Idle]

\* The call, up to its own getConn().
Update(c, k, v) ==
    /\ Alive /\ main = "up" /\ updates < MaxUpdates
    /\ call[c].pc = "idle"
    /\ Conn(c)
    /\ call' = [call EXCEPT ![c] = [pc |-> "lookup", key |-> k, value |-> v]]
    /\ updates' = updates + 1
    /\ UNCHANGED <<file, helper, main, history, errors, crashes>>

\* Seeded fault: a key that is found is inserted, another one updated.
LookupReversed(c) ==
    /\ Alive /\ call[c].pc = "lookup"
    /\ Conn(c)
    /\ \/ Succeeds /\ table /\ Goto(c, IF Has(call[c].key) THEN "insert" ELSE "update")
       \/ Succeeds /\ ~table /\ Goto(c, "blind")
       \/ Fails /\ Goto(c, "blind")
    /\ UNCHANGED <<file, helper, main, history, updates, crashes>>

\* queryKey fetches the connection again; an error counts as "not found".
Lookup(c) ==
    /\ Alive /\ call[c].pc = "lookup"
    /\ Conn(c)
    /\ \/ Succeeds /\ table /\ Goto(c, IF Has(call[c].key) THEN "update" ELSE "insert")
       \/ Succeeds /\ ~table /\ Goto(c, "blind")
       \/ Fails /\ Goto(c, "blind")
    /\ UNCHANGED <<file, helper, main, history, updates, crashes>>

\* Seeded fault: UPDATE without its WHERE.
WriteUpdateAll(c) ==
    /\ Alive /\ call[c].pc = "update"
    /\ \/ /\ Succeeds
          /\ rows' = [i \in DOMAIN rows |-> [rows[i] EXCEPT !.value = call[c].value]]
          /\ writer' = [writer EXCEPT ![call[c].key] = c]
       \/ Fails /\ UNCHANGED <<rows, writer>>
    /\ Return(c)
    /\ UNCHANGED <<table, index, helper, main, fault, harmed, openFailed, updates, crashes>>

\* UPDATE: every row of the key.
WriteUpdate(c) ==
    LET k == call[c].key IN
    /\ Alive /\ call[c].pc = "update"
    /\ \/ /\ Succeeds
          /\ rows' = [i \in DOMAIN rows |->
                        IF rows[i].key = k THEN [rows[i] EXCEPT !.value = call[c].value]
                                           ELSE rows[i]]
          /\ writer' = [writer EXCEPT ![k] = c]
       \/ Fails /\ UNCHANGED <<rows, writer>>
    /\ Return(c)
    /\ UNCHANGED <<table, index, helper, main, fault, harmed, openFailed, updates, crashes>>

\* Seeded fault: the index does not make its key unique.
WriteInsertTwice(c) ==
    /\ Alive /\ call[c].pc \in {"insert", "blind"}
    /\ Succeeds /\ table
    /\ rows' = Append(rows, [key |-> call[c].key, value |-> call[c].value])
    /\ writer' = [writer EXCEPT ![call[c].key] = c]
    /\ Return(c)
    /\ UNCHANGED <<table, index, helper, main, fault, harmed, openFailed, updates, crashes>>

\* INSERT, after a lookup that found nothing or failed: the unique index
\* refuses a key that is there by now.
WriteInsert(c) ==
    LET k == call[c].key IN
    /\ Alive /\ call[c].pc \in {"insert", "blind"}
    /\ \/ /\ Succeeds /\ table /\ ~(index /\ Has(k))
          /\ rows' = Append(rows, [key |-> k, value |-> call[c].value])
          /\ writer' = [writer EXCEPT ![k] = c]
       \/ Succeeds /\ (~table \/ (index /\ Has(k))) /\ UNCHANGED <<rows, writer>>
       \/ Fails /\ UNCHANGED <<rows, writer>>
    /\ Return(c)
    /\ UNCHANGED <<table, index, helper, main, fault, harmed, openFailed, updates, crashes>>

------------------------------------------------------------------------------
(* The end of the process: killed anywhere, or aborted by its own fault.    *)

Restart ==
    /\ ~Alive \/ crashes < MaxCrashes
    /\ crashes' = IF Alive THEN crashes + 1 ELSE crashes
    /\ db_' = FALSE /\ db_is_open_' = FALSE /\ main' = "down"
    /\ call' = [c \in Callers |-> Idle]
    /\ fault' = "none"
    /\ harmed' = (harmed \/ main \in {"index", "row1", "row2", "row3"})
    /\ openFailed' = FALSE
    /\ UNCHANGED <<file, writer, updates, errors>>

------------------------------------------------------------------------------
Init ==
    /\ table = FALSE /\ index = FALSE /\ rows = <<>>
    /\ db_ = FALSE /\ db_is_open_ = FALSE /\ main = "down"
    /\ call = [c \in Callers |-> Idle]
    /\ fault = "none"
    /\ harmed = FALSE /\ openFailed = FALSE
    /\ writer = [k \in Keys |-> Missing]
    /\ updates = 0 /\ errors = 0 /\ crashes = 0

Next ==
    \/ Open \/ TableExists \/ CreateTable \/ CreateIndex
    \/ \E i \in DOMAIN DefaultRows : InsertDefault(i)
    \/ Cleanup
    \/ \E c \in Callers :
         \/ \E k \in Keys, v \in NewValues : Update(c, k, v)
         \/ Lookup(c) \/ WriteUpdate(c) \/ WriteInsert(c)
    \/ Restart

Spec == Init /\ [][Next]_vars

------------------------------------------------------------------------------
(* Properties *)

\* With its index the table holds a key once, whatever calls race, fail or are
\* cut off by a crash: queryKey, which takes the first row, and query, which
\* keeps the last one, then read the same.  Without the index they may not.
KeysUnique == index => NoTwins /\ \A k \in Keys : query(k) = queryKey(k)

\* An open database has its index and every default row, unless a crash or an
\* error cut createTable short once: it only ever looks for the table, so
\* what is missing then stays missing.
SetUpUnlessHarmed ==
    db_is_open_ => \/ harmed
                   \/ index /\ \A i \in DOMAIN DefaultRows : Has(DefaultRows[i].key)

\* updateKey loses a value whose every statement has run without an error only
\* to somebody else who inserted the same key after the lookup.
LostOnlyByRace ==
    \A c \in Callers :
      call[c].pc = "insert" /\ Has(call[c].key) => writer[call[c].key] \notin {c, Missing}

\* getConn's assertion stops the process only when the file could not be
\* opened, of which initChatKit(config) says nothing, or when cleanup has
\* overtaken a call that was under way.
AssertOnlyUnopened ==
    fault = "getConn" => openFailed \/ main = "down"

\* Refinement: seen through queryKey, the table is a map with atomic stores
\* that survives a crash at any point.
Map == INSTANCE ConfigMap WITH
         map <- [k \in Keys |-> queryKey(k)],
         request <- [c \in Callers |-> IF call[c].pc = "idle" THEN Missing
                                       ELSE <<call[c].key, call[c].value>>]
ImplementsConfigMap == Map!Spec
==============================================================================
