# CoffeeChat-Desktop: specifications, model checking and proofs

CoffeeChat-Desktop is an instant-messaging client: the library `chatkit`
(`src/mac/chatkit/cim`, C++ on libuv) and user interfaces that link it
(`hellochat`, Qt widgets; two empty QML shells). This directory holds TLA+
modules for the library's own logic, the TLC configurations that check them, and
theorems with proofs for TLAPS.

## 1. The system

| Part | Source | State | Operations |
|---|---|---|---|
| Client | `core/client.*` | `tcp_client_`, `recv_buffer_`, `login_status_`, three times, the login callbacks, user name and password, `seq_` | `login`, `logout`, `send`; from the loop: `onConnectionStatusChanged`, `onMessage`, `onHandleData`, `onHandleAuthRsp`, `onTimer` |
| TcpClient | `base/tcp_client.*` | `tcp_handle_`, `sock_fd_`, `connect_status_`; the global `g_conn_map` from descriptor to object | `connect`, `close`, `send`, destructor; libuv callbacks `onConnect`, `onRead` |
| Buffer | `base/buffer.*`, `slice.h` | storage, capacity, read and write index, reserved prepend size | reads, writes, `Skip`, `Truncate`, `Prepend`, `UnreadBytes`, `grow`, `Shrink` |
| EventLoop | `base/event_loop.*` | libuv's default loop, a timer of its own, `loop_is_run_` | `run`, `runInThread`, `stop`, `registerTimer`, `removeTimer` |
| ChatManager | `core/chat_manager.*` | a receive callback | `sendMessage`, `onHandleData`, `FormatMsgTime` |
| UserManager | `core/user_manager.*` | none | `registerUser`, `generateNickName` over blocking HTTP |
| Database | `db/*` | an SQLite file with the table `im_user_config` | `init`, `cleanup`, `createTable`, `query`, `queryKey`, `updateKey` |
| Start and end | `cim_helper.cpp`, `cim.h`, `cim_def.*` | `g_config` | `initChatKit`, `cleanup`, `setChatKitServerInfo` |
| Protocol messages | `src/pb/*.proto`, `pb/*.pb.*` (generated) | the fields of a message and the fields it does not know | `Clear`, `SerializeToArray`, `ByteSizeLong`, `ParseFromArray`, `MergeFrom` |
| Files | `base/file` | none | `ParsePathComponents`, `CreateDirectory`, `FilePathIsExist` |
| MD5 | `crypt` | state, bit count, an unfinished block, the digest | `update`, `digest`, `final`, `reset` |
| Other helpers | `base/util`, `log`, `Exception` | none | UTF conversion, logging |
| User interface | `src/mac/hellochat` | dialogs | login, registration, server settings |

How they interact. The application's thread calls `Client::login`, `logout` and
(through `ChatManager::sendMessage`) `send`. `login` calls `logout`, makes a
`TcpClient` and calls `connect`, which starts a libuv request and enters the
object in `g_conn_map`. libuv runs in a detached thread (`initChatKit` starts it);
its callbacks carry only a handle, so `onConnect` and `onRead` find the object
again through the handle's descriptor and `g_conn_map`. `onConnect` tells
`Client::onConnectionStatusChanged`, which sends `AUTH_REQ`, or reports a failure
and calls `logout`. `onRead` hands the bytes to `Client::onMessage`, which cuts
packets out of `recv_buffer_`; `AUTH_RSP` ends in the login callback. A timer of
one second reports a login that takes too long. Nothing in this is locked, and
`logout` runs in both threads.

What is hard about it, and what correctness means:

- **Two threads, no lock.** Each of `login`, `logout`, `send` and `connect` reads
  shared fields and uses them later; `logout` sleeps 100 ms between closing and
  dropping its `TcpClient`. Correct: no null or dangling object is used, no socket
  is lost, nothing of one attempt reaches another one.
- **Descriptors are reused.** The kernel gives a number out again at once;
  `sock_fd_` keeps its old value after `close` and is 0 before `connect`. Correct:
  an entry of `g_conn_map` is always about the socket that has that number now.
- **Object lifetime** is by `shared_ptr`, and the registry is one of the holders;
  the destructor calls `close`, which erases an entry. Correct: an object lives
  exactly as long as it is referred to, and an open socket has a living object.
- **Failure and time.** Connections are refused, lost, cancelled; answers get torn or
  never come; the timer runs all the while. Correct: each attempt hears its own
  outcome, and hears something.
- **Buffer boundaries.** Unsigned indices, `grow` at exact fits, reads that empty
  the buffer and reset it. Correct: it is the byte queue its comments describe.
- **Database.** Each statement commits by itself; a crash or an error between two of
  them leaves part of the table's setting up undone, and `createTable` looks for nothing
  but the table; `updateKey` looks first and writes later. Correct: a key has one value, a
  stored value survives, and whatever is missing has a cause one can name.
- **Start and end.** `connect` asserts that the loop runs, which a thread has just
  been started for; nothing wakes a poll but timers; `stop` frees what the loop may
  still use, and `main` returns under a loop that goes on. Correct: the loop runs
  until it is stopped and then ends, serves every connection, and dies of nothing.
- **Messages.** `Client::send` writes a length it took from `ByteSizeLong`, and
  `PARSE_PB_AND_CHECK` skips what `ByteSizeLong` says of the message it has parsed.
  Correct: what arrives is what was set, and the bytes skipped are those that came.
- **Files, MD5, times.** Other processes change the file system during
  `CreateDirectory`; an MD5 object is asked and fed again; the label of a message is
  computed on another day. Correct: each does what its caller takes it to do.

`PROJECT.json` lists every hazard at its line, with the properties that cover it.

## 2. Modules

| Module | What it is | Code |
|---|---|---|
| `TcpClient` | TcpClient objects, `g_conn_map`, the libuv handle and descriptor of each, as state and state changes | `base/tcp_client.cpp` |
| `Client` | EXTENDS it: calls of the application and callbacks of the loop, one after the other, with the network and the server | `core/client.cpp` |
| `LoginSession` | abstract: what the application sees of its logins | `core/client.cpp` |
| `ClientProperties` | properties of Client and the refinement mapping to LoginSession | |
| `ClientThreads` | EXTENDS it: the same code when the two threads do not take turns, one step per access to what they share | `core/client.cpp`, `base/tcp_client.cpp` |
| `ClientProofs` | inductive invariants and theorems about Client, with the refinement of LoginSession; then about ClientThreads | |
| `CimBuffer` | Buffer's member functions as operators on records | `base/buffer.h` |
| `ByteQueue` | abstract: the queue of bytes the comments of `buffer.h` describe | |
| `BufferCalls` | any sequence of legal calls on one buffer; its properties and refinement | `base/buffer.h` |
| `BufferProofs` | theorems about BufferCalls, and its refinement of ByteQueue | |
| `RecvFraming` | how `onMessage` cuts packets out of segments, and what the handlers skip | `core/client.cpp`, `core/chat_manager.cpp` |
| `FramingProofs` | inductive invariant and theorems about RecvFraming | |
| `ConfigMap` | abstract: a map from keys to values that outlives the process | |
| `ConfigStore` | the database, one step per SQL statement, with errors and crashes; its refinement of ConfigMap | `db/*` |
| `ConfigProofs` | inductive invariant, theorems and refinement proof about ConfigStore | |
| `EventLoop` | the loop, statement by statement, on what libuv keeps of it | `base/event_loop.cpp` |
| `ChatKit` | EXTENDS it: the life of a program from `initChatKit` to exit | `cim_helper.cpp`, `simple_client.cpp`, `main.cpp` |
| `ChatKitProofs` | inductive invariant and theorems about ChatKit | |
| `WireTypes` | the vocabulary of the message tables | |
| `CIMDef`, `CIMLogin`, `CIMMessage`, `CIMList`, `CIMFriend`, `CIMGroup`, `CIMVoip` | one table per message: fields, tags its parser accepts, what it writes | `pb/CIM.*.pb.cc`, `.h` |
| `WireFormat` | what the generated functions do with those tables | `pb/CIM.*.pb.cc` |
| `ProtoCodec` | a message of any type between two peers, and its properties | `pb`, `cim_def.h`, `client.cpp` |
| `CodecProofs` | inductive invariant and theorems about ProtoCodec | |
| `FileUtil` | `CreateDirectory` among other processes | `base/file/file_util.cpp` |
| `MD5` | an MD5 object fed, asked and fed again | `crypt/md5.cpp` |
| `MD5Proofs` | inductive invariant and theorem about MD5 | |
| `ChatTime` | `FormatMsgTime` against a calendar | `core/chat_manager.cpp` |
| `HelperProofs` | inductive invariants and theorems about FileUtil and ChatTime | |
| `Library` | `ProtoCodec`, `FileUtil`, `MD5` and `ChatTime` side by side, for one run | |

### Client and TcpClient

A variable with the name of a field is that field; `connect_status_`,
`tcp_handle_` (is it set?) and `sock_fd_` are functions of the object.
The n-th `login` makes the n-th object, so an object, an attempt, its callbacks and
its credentials share the name n; `login_cb_` in the model is the attempt that the
fields `login_cb_`, `login_timeout_cb_`, `user_name_` and `user_pwd_` are of.
`uv` and `kfd` are libuv's and the kernel's view of a handle: `uv_close` frees the
descriptor at once and leaves a pending request to be cancelled. `net`, `cred`,
`reply`, `unread` are the network and the server. `results[n]` is what
attempt n's callbacks have been told; `abandoned` are the attempts the application
left by calling `login` or `logout` again.

In `Client` the threads take turns (`Serialised`, which `Init` asks for): a callback
begins when no call is under way, and the other way round. `pc` is where each thread
is; `ret` is where `logout()` or `send()` returns to. As nobody else is inside, `close()`
and the entry into the registry are one step each.

- Application: `Login` → `LogoutClose` → `LogoutDrop` → `Prepare` → `Connect` →
  `Open` → `ConnectReturns` (or `OpenFails` → `GiveUp`); `Logout`;
  `SendMessage` → `SendCheck` → `SendWrite`.
- Loop: `BeginRun` sets `loop_is_run_`, which `connect` asserts. A `Pick…` action is
  libuv calling `onConnect` or `onRead`; `Find` is `findTcpClient`; then
  `OnConnectOk` → `SendCheck` → `SendWrite` → `ReadStart`, or
  `Shut` → `OnDisconnected` → logout, or `OnHandleAuthRsp` → (logout) → `Answer`;
  `Return` drops the callback's reference. `OnTimer` is the one-second timer.
- What `onMessage` makes of a segment is `RecvFraming`'s subject. Of its outcomes `Client` has
  the three that matter to it: the answer is heard (`PickRead`), it is discarded
  (`TornRead`), or the assertion on `reset_len` ends the process (`AbortMessage`), which a
  connected server can bring about at any time, also just after a login was answered.
- `Crash(t)`: the step thread t would take next dereferences null or a destroyed
  object, or fails an assertion (`Broken`); the process stops, and `fault` says why.

Destruction is part of the step that drops a reference (`Release`): an object
nobody holds dies, its destructor closes it and erases the entry of its
`sock_fd_`, which may in turn be the last reference to another object.

`Patient` selects the application: it does not call `login` or `logout` while a connect
request is pending, and sends only after it was told that it is logged in. `client.h:53` and the
callers in `hellochat` say neither; `client_retry` shows what the first saves it from,
and nothing in `send` but the state of the connection protects a message sent earlier.

`ClientThreads` takes the same code apart. A step is one access to something both threads use:

- `close()` is the test of `tcp_handle_` (`TestHandle`), `uv_close` (`CloseHandle`),
  `tcp_handle_ = nullptr` (`UnsetHandle`), the erasure (`EraseEntry`) and the status
  (`CloseReturns`); `obj` is its `this`, `after` where it goes on.
- `logout()` is the status, the test of `tcp_client_`, its use, the sleep and the
  assignment of null (`LogoutStatus` to `LogoutForget`), each of which looks again.
- `connect()` is `EnterConnect`, `AllocHandle` (with the assertion), `InitHandle`, `RequestConnect`,
  `FetchFd` (`uv_fileno`), `EnterMap` and `LogConnect`, which reads the handle for its log line.
- The credentials are installed after the callbacks (`InstallCallbacks`,
  `InstallCredentials`) and copied into `AUTH_REQ` before the connection's status is looked at
  (`CopyCredentials`, then `SendCheck`, `SendAssert`, `SendPut`).
- A destructor runs in the thread that drops the last reference, in two steps of its own
  (`DestroyHandle`, `DestroyEntry`; `dying` is its object) in the middle of what the thread was doing.
- `Fall` is `Crash`, with what can go wrong in between: a handle closed twice or
  used before it is initialised (`closing_handle`), a pointer that has become null since it was
  tested, an object that has died under the thread inside it.

What holds in `Client` need not hold here, and most of it does not: the other thread's `close()` between
`FetchFd` and `EnterMap` leaves an entry for a closed handle (`tcp_client.cpp:82-83`); a `login`
between `CopyCredentials` and `SendPut` can send one attempt's password on the
connection of the next; every assertion can fail. What is left is that no socket is lost
(`SocketOwned`). The other properties of the client are therefore stated of calls that take
turns, and say so; `client.h:53` documents `login` as not thread-safe (非线程安全), but
the loop's callbacks are a thread no caller can wait for.

`LoginSession` is what `client.cpp` does, without sockets. It is less than
`client.h:53` announces, 会自动重连 (reconnects automatically): no statement does, `Fail` ends
the attempt, and only the application begins another one.

### Buffer

A buffer is a record with the five fields of the class, `buffer_` being a function
from offsets to bytes; a member function is an operator from the record before the
call to the record after it. Assertions on arguments are the `Can…` preconditions
that `BufferCalls` has its callers respect; assertions on the buffer itself are
proved or checked. Byte order of the integer functions is left out, as a permutation of
bytes.

### RecvFraming

The server's packets (`cmd`, `begin`) are chosen once; TCP delivers their stream in
segments of any length (`Receive`), `Handle` is one iteration of the loop in
`onMessage` with the handler it calls, `Discard` the iteration that breaks off.
Where the front of the buffer is no packet, a length of `GarbageLens` and any
command may be read, and parsing may succeed or fail. A packet's `body` is plain, odd
or bad: encoded as this client would encode what it has parsed, encoded otherwise, or not to be parsed.
The handlers give `ParseFromArray` all the buffer still holds; a bad body does not
parse, and none does with another packet behind it, since that begins with a 0 byte, which
no tag does. `PARSE_PB_AND_CHECK` (`cim_def.h:28-34`) then skips nothing if parsing failed, and
otherwise `ByteSizeLong`, which is what came of a plain body and any number of bytes of
an odd one (`SkipInside`, of the messages, says when the two differ). A failed assertion on
`reset_len` ends the process (`pc = "aborted"`). The unread bytes are a sequence,
which the refinement `ImplementsQueue` of the buffer allows; sizes are in cells, a
header having three of them instead of sixteen bytes, so cuts inside a field are
those of a segment that begins with garbage. `aligned` and `single` remember how
the stream was cut; nothing in the code reads them.

### ConfigStore

The file is `table`, `index` and `rows` (a sequence, in order of the id), and outlives
the process; `db_` and `db_is_open_` are SqliteHelper's; `main` is where the main thread
is in `init()`, `call[c]` where caller c is in `updateKey`. Each action is one SQL
statement, which has its whole effect or throws (`Fails`); what the code does with the
exception is in the action: `createTable` returns false, `insertDefaultData` skips the
statements after it, `updateKey`'s lookup counts as "not found", and `tableExists`,
which no `try` covers, ends the process, as `createTable` is `noexcept`. `Restart` is the end
of the process at any point, and its next start. Four things the code does show in
the model: `createTable` never repairs a table that is there without its index or rows;
after a failed lookup `updateKey` inserts, which the index refuses if the key is there
(`pc = "blind"`); without the index it does not, and a key may get two rows, over which
`CREATE UNIQUE INDEX` then fails; `cleanup` closes only what `init()` finished opening.

`ConfigMap` is the promise to users of the settings: requests take effect once and at
one moment or not at all, creation fills in missing keys only, nothing stored is
lost. The mapping reads the table through `queryKey`.

### EventLoop and ChatKit

`loop` is where the loop's thread is in `run()` and in the iteration of `uv_run`; `app`
where `main` is; `stopping` where a call of `stop()` is, which a signal handler may make
in the middle of `main`: in a `login` and in the exit too, from when the Client is
constructed. Of libuv the model keeps what the code depends on: the
handle `queue`, in which every handle is linked and a neighbour is written when one comes or
goes; `armed` timers; handles being closed; those the poll has been told of; the
stop flag, which `uv_run` takes back on its way out. `memory` says of each handle
whether it is allocated, initialised or freed. `Dies` lists what the next step of a
thread would die of: the assertion in `connect`, a timer freed before it is initialised,
twice, or while the loop has it, a queue with a freed neighbour, a callback into a
destroyed Client. What a login does to its connection is in `Client`; here it
takes a handle, and the next login or a cleanup closes it.

### Messages

A message type is three tables, each read off its own generated function: the fields of the
accessors, the `switch` of `_InternalParse` (the field number selects a case, the
low byte of the tag must match), and the rows of `_InternalSerialize`, `ByteSizeLong` and
`MergeFrom`. Keeping them apart is the point: a field that one function handles and
another forgets breaks `RoundTrip`. `WireFormat` has the functions, for every table (`Schema`;
`Library` gives it those of the protocol); an encoding is a sequence of tokens, a tag with its
value, which know their size. The code's functions call one another as messages nest. The
messages in messages of this protocol hold no further ones, which `SchemaAssumption` states and the run
evaluates, so each function comes twice, for plain messages and for those around
them (`WritePlain` and `WriteField`, `ReadPlainToken` and `ReadToken`). `ProtoCodec` sets
fields, serializes once or twice, lets a peer rewrite the tokens as another protobuf
encoder may (other order, defaults written, wider integers, lists not packed, unknown
fields) or lets the next packet's header follow, and parses into a used object.

### Files, MD5, times

`FileUtil` splits every path up to a length, with what follows its NUL in memory,
and interleaves `opendir` and `mkdir` with other processes and failures. The split
skips one character after a component, which is the NUL when the path does not end in a
separator (`file_util.cpp:89`). `MD5` keeps the block buffer, the counter and the
state in two halves, `ulong` being 4 or 8 bytes wide (`md5.h:8`: it is
`unsigned long`); the compression function is an injective term, so that a state is the
chain of the blocks that made it. `digest()` sets `_finished`, but the `update()` inside
`final()` clears it (`md5.cpp:94`, `:152`), so each `digest()` computes again, on what the one
before it has put back; `spoilt` remembers that this or an `update` has made use of what was
not put back. In `FileUtil`, `opendir` may fail on a directory that is there, and then so does `mkdir`. `ChatTime` has the C
library's calendar from 2021 to 2025 and looks at a message now and later.

Definitions whose comment begins "Seeded fault" are variants of the definition that
follows them, with a plausible bug. No specification uses them; each exists to show
that some property would notice it.

## 3. Runs

`tlc -config X.cfg M`, each about two minutes or less. `functions` runs module `Library`,
`client_racy` and `client_lost_login` run `ClientThreads`, the others
the module their name suggests (`client_*`: `ClientProperties`, `buffer_*`: `BufferCalls`).

| Run | Instance | Result |
|---|---|---|
| `client_serial` | Serialised, Patient, 2 logins, 2 descriptors, timeout 1 s, age ≤ 2 | passes, 117,797 states |
| `client_racy` | neither, 2 logins, 2 descriptors, timeout 0 s, age ≤ 1 | passes, 1,346,512 states |
| `client_retry` | Serialised, not Patient | `FilenoHolds` violated |
| `client_late_timeout` | both, 1 login | `TimeoutMeansNoAnswer` violated |
| `client_lost_login` | Patient, not Serialised, 2 logins | `LoginHeard` violated |
| `buffer_queue` | 2 bytes, initial size 2, prepend 1, up to 2 unread bytes | passes, 84,857 states |
| `buffer_unread` | unreading at any time | `UnreadRestores` violated |
| `framing` | up to 3 packets of 0 to 2 cells of body, a header of 3, 7 garbage lengths | passes, 1,853,243 states |
| `framing_abort` | the same | `ResetLenHolds` violated |
| `config_store` | 2 callers, the 3 default keys, 2 new values, 3 updates, 1 error, 1 crash | passes, 563,850 states |
| `chatkit` | 2 connections, 2 cleanups | passes, 41,193 states |
| `functions` | every message type with 2 fields set and 2 encodings; paths of 4 characters; 5 calls of MD5; 7 days and 12 lags | passes, 102,202 states |

`client_serial` checks, over two attempts with every failure between them:
`NoOtherFault` (the process dies of two assertions only: that `connect` makes on the running
loop, and `onMessage`'s on `reset_len`; `chatkit` and `framing` say when), `RegistrySound` (an
entry is about the socket that has its number now), `OneConnection` (between
calls nothing of an earlier attempt is left), `AnswerIsOwn` (an attempt is told only
what happened on its own connection), `CredentialsOwn` (its password goes to no other
connection), `SendSafe` (a client that was told it is
logged in can send), `LoginHeard` (every attempt hears something) and
the refinement `ImplementsSession`. `client_racy` checks what holds when the threads do not
take turns: the types, and that no socket is lost nor an object used as a holder's after it has
died (`SocketOwned`). In both the process can die, so deadlock is not checked.

`buffer_queue` checks that the indices stay in order and inside the storage
(`BufferOK`), that `grow` makes the room asked for (`GrowSafe`) and that every call
does to the bytes what the comments say (`ImplementsQueue`), with `UnreadBytes`
called only after a read that left bytes.

`framing` checks that `PeekInt`'s assertions hold however the stream is cut
(`ReadsInside`). For streams that are cut between packets only, it checks that the loop
stays at packets (`StaysAligned`), that callbacks are given packets of their kind in
order and once (`InOrderOnce`), that an `AUTH_RSP` in a segment of its own is
heard if it parses (`AnswersArrive`), and where the assertion on `reset_len` can fail
(`AbortsOnly`): at a chat message with a body, at an `AUTH_RSP` that is bad or odd, and at a packet
with another one behind it.
The process may stop there and the stream ends, so deadlock is not checked.

`config_store` checks that with its index the table has one row per key, so that
`queryKey` (first row) and `query` (last row) agree (`KeysUnique`); that an open database
is complete unless `createTable` was cut short once (`SetUpUnlessHarmed`); that the insertion
in `updateKey` meets its key only when somebody else wrote it since the lookup
(`LostOnlyByRace`); that `getConn`'s assertion needs an `init()` that failed, which
`initChatKit` ignores, or a `cleanup` during a call (`AssertOnlyUnopened`); and that the whole is a
map (`ImplementsConfigMap`).

`chatkit` checks that `uv_run` returns because of `stop` only, whichever thread
registers its timer first (`RunsUntilStopped`); that each way to die has its cause in
the order of calls (`FaultsExplained`): the assertion on the
running loop needs a login before the thread began or a cleanup, a timer freed twice
two cleanups (pressing Ctrl-C twice in `simple_client`), a timer freed under the
loop's feet a cleanup while the loop is outside `uv_run`, a dead Client a `main` that has
returned; that libuv's queue goes bad in two ways only (`QueueSoundUntilStopped`): the Client's
timer freed at exit under the running loop, which needs no cleanup, or the loop's own timer
freed by a cleanup with a neighbour that comes or goes; that a stopped loop ends (`StopEnds`) and a connection is polled (`ConnectionsServed`),
although neither `uv_stop` nor a new handle wakes the poll. The program ends, so
deadlock is not checked.

`functions` checks, for every message type, that what is parsed is what was
set and that parsing fails only over a string that is not UTF-8 or a packet that follows
(`RoundTrip`), that two encodings in a row are read as `MergeFrom` merges (`ConcatMerges`), that a
message can be sent on in as many bytes as `ByteSizeLong` says (`RelayStable`), and when
`PARSE_PB_AND_CHECK` skips another number of bytes than came (`SkipInside`: never for a peer that
encodes as this code does). `PathMade`: a path that ends in its separator makes its own
directories and no others, and the result tells. `DigestIsOfAll`: a digest is the code's own `transform`
over all bytes however they were cut, unless the object was asked or fed again after a digest or its
count has passed its word. `LabelAges`: looked at again later, the label of a message of the past
never becomes finer (a date never a weekday or a time of day again), but where the day of an earlier
month is taken for one of this month.
These computations end, so deadlock is not checked.

### What the violations say

- `client_retry`: `close()` during a pending connect makes libuv call
  `onConnect(ECANCELED)` on a closing handle; `findTcpClient` asserts that
  `uv_fileno` succeeds (`tcp_client.cpp:201`) and aborts. With `NDEBUG` the call
  itself is compiled away and no lookup finds anything.
- `client_late_timeout`: no statement assigns `kLoginOk`, so a login that succeeded
  stays in `kLogining` and the timeout callback is called for it
  (`client.h:57`). For the same reason the sending of `LOGOUT_REQ` and the keep-alive branch of
  `onTimer` are never reached; `Client` leaves out the first and has the second, guarded as in the code.
- `client_lost_login`: the loop's `logout()` after a failed connection undoes a login
  begun meanwhile; that attempt's callbacks are never called (`client.h:56-57`).
- `buffer_unread`: a read that empties the buffer resets its indices, after which
  `UnreadBytes` returns other bytes (`buffer.h:260-261`).
- `framing_abort`: `ChatManager::onHandleData` skips none of the message it parses, so
  `assert(reset_len == recv_buffer_->length())` (`client.cpp:197`) aborts the process at the
  first chat message with a body. By `AbortsOnly` the only other causes are an `AUTH_RSP` that does not parse
  or is not encoded as the client would do it, of which `PARSE_PB_AND_CHECK` skips nothing or
  another number of bytes than came (TLC's shortest trace is one), and a packet with another
  one behind it in the same segment: each handler
  works on all that is in the buffer. `client.cpp:176` says the loop is for such segments.

Other things met while modelling, which a property above describes or which lie outside the models:

- `client.h:53`: 会自动重连, but nothing reconnects (`LoginSession`).
- `tcp_client.cpp:82-83`, `client.cpp:91-95`, `:143-144`: what the other thread may do in
  between, as described with `ClientThreads`.
- `chat_manager.cpp:36` and `:79` announce today's (今日内) and this year's (一年内) messages, where the code compares
  the day of the month without the month, and the years only, so that a time of day may be
  another month's and "year and month" is said up to 730 days back; the test at `:139-141`
  expects "long ago" (很久以前) of 720 days. A message from a clock ahead of this one is
  labelled as if it were as long ago.
- `md5.cpp:94`, `:152`: `digest()` means to compute once, and computes on every call.
- `md5.h:8`: with a `ulong` of eight bytes the rotations of `transform` bring carries
  back, so the digest of the empty string is not `d41d8cd98f00b204e9800998ecf8427e`; the arithmetic is
  outside the model. `md5.cpp:212`: `digest()` puts back the state but not the
  buffer, and half of the state where `ulong` has eight bytes; `crypt/test.cpp:18-29`
  feeds its object again.
- `log.cpp:17` passes `"logs"`, without a separator, to the split that steps over the NUL.
- `cim_def.cpp:24`: a message's `to_session_id` is copied from its `msg_res_code`.
- `cim_helper.cpp`: `initChatKit()` without arguments ends without a return value, and the
  other one ignores that the database could not be opened.
- `user_manager.cpp:56`: what the server answers is read without a check, so an unexpected
  answer ends in an exception; `generateNickName` lacks a return on one path (line 101).

### Bounds

Two logins are the least with an earlier and a later attempt, which is what every
property that relates attempts needs; two descriptors let the second attempt get
the first one's number or another one, and 0 is among them because `sock_fd_` starts
as 0. `MaxAge` caps the seconds counted since the last login at one more than the
limit; only the comparison matters. A result is told of as a set, so a timeout
that is repeated every second is one element. Three packets
give a segment with a packet before and one after the one that matters; body sizes of
0, 1 and 2 are an empty one, one that is accepted and one that reaches `kMaxBufferLen`;
the garbage lengths are those below `sizeof(uint32_t)` (0, which wraps), below a
header, acceptable, and beyond any buffer. In `BufferCalls` an initial size of
two and arguments of up to two bytes pass every boundary of `grow` from both
sides, and `MaxLength` bounds the unread bytes, so that storage doubles a few times only.

In `config_store`, two callers and the main thread are the least that race for a key; three updates
let one of them follow the race of two others; one error and one crash meet every
statement, also each other in either order, and any later start is without either, so
that what they left is seen to stay. In `chatkit`, two connections give a login after a
login, and two cleanups the one that frees twice. In `functions`, two set fields give each pair
of fields of a type, or two elements of a list, and two encodings a merge; widths are
scaled so that a varint byte still has 7 bits, 32 bits are 14 and 64 bits are 28, by which
every size and every truncation still differs. Paths of four characters over two
names and the separator have two components, doubled, leading and trailing separators. MD5's block
of 64 bytes is 8, its length field of 8 bytes 2, the word of 2^29 bytes 16; the lengths
are those around the block, around the place of the padding and around the word. The
calendar has a leap year, and the days and lags are those around the ends of months and
years and around multiples of seven.

`client_racy` counts no time (`login_time_out` 0, age at most 1): when the timer reports is then
any moment of a login, which is all an interleaving can make of it. Descriptor 0 must be one the
kernel may give out (`ThreadsAssumption`), as it is what `sock_fd_` starts as.

### Fairness

Both threads keep running (`WF` on what a thread does next), libuv serves the timer and
every ready handle in every iteration (`SF`, since the handle is not ready, or the
client is busy, now and then in between). The application, the network and the
server owe nothing: a connect may stay pending and an answer may never come.
`LoginHeard` then depends on the timer alone. `ClientThreads` assumes the same of its smaller steps.

In `ChatKit` each thread goes on with what it has begun (`WF` on the steps of the loop, of
`connect`, of `stop` and of the destruction at exit), and a poll with a timeout returns, which
is what makes `Poll` a step of the loop; a poll without one (`asleep`) is not assumed to. `main` is not obliged
to call anything once it is ready. `ConfigStore` and the runs of functions state safety only.

## 4. Proofs

The proof modules are checked by `tlapm` from nothing. They assume only the named
ASSUMEs on the constants: at least one login, descriptors that are naturals, truth
values for the switches (`TcpAssumption`, `ClientAssumption`), those of `CimBuffer` and `RecvFraming` on sizes, default keys that are
keys and a `Missing` that is no value, key or caller (`KeysAssumption`, `CallersAssumption`),
handles of connections that are not the timers (`TcpsAssumption`), 0 among the
descriptors (`ThreadsAssumption`), and bounds that are naturals
(callers of a buffer may handle at least one byte, `CallsAssumption`: `ReadByte` does;
`MdAssumption`, `FileAssumption` and those on the calendar are named below).

**Client** (`ClientProofs`), for any number of logins and descriptors, with or without
`Patient`, calls and callbacks taking turns:

- `ClientTypeCorrect`: `Spec => []TypeOK`
- `RegistryAlwaysSound`: `Spec => []RegistrySound`
- `CredentialsAlwaysOwn`: `Spec => []CredentialsOwn`

None of them is inductive. `RegistrySound` alone does not survive `Register`, which
needs that the object still has its descriptor, nor `Open`, which needs that no
open socket has the descriptor the kernel hands out. The invariant `IInv` adds:
`FdOwner` (no two open sockets share a descriptor), `NoLeak` and `HolderOK` (sockets
belong to objects, objects to holders), `AppState` (in `connect` the object is in no
entry, and a handle that is still set is still open) and `LoopState` (a callback's
handle and its reference are real, an answer being handled exists). The key
lemma is `ReleaseStep`: however many destructors a dropped reference sets off,
entries and objects are only removed, and what is left is as open as before.
`CloseKeeps` and `DropStep` follow from it; the step of `IInv` is then one case per action
for each conjunct.

What the proof shows of the code: the `erase(sock_fd_)` of a destructor or of a
first `connect`, on a stale number or on 0, can remove the entry of a living
connection, yet it never leaves an entry that is wrong.

`CredentialsOwn` needs `CredInv` on top of it: `tcp_client_` is null or the object of the
attempt whose credentials are in the fields (`Attempts`); attempts open their sockets one after
the other, and a later one never has the descriptor of an earlier one that is open
(`Opened`); an object in `kConnectOk` knows its own descriptor (`Connected`). So although
`send` writes to a number, and to whatever `tcp_client_` is after a login that an impatient
application has made while the connect was pending, the number is that of the attempt's own socket or of none.

**A patient application** (`ClientProofs`, second part), for any number of logins and
descriptors and whatever the network and the server do. Each theorem has the
hypothesis `Patient`; the violation runs of section 3 show why:

- `SerialNeverDies`: `Spec => []NoOtherFault`
- `SerialOneConnection`: `Spec => []OneConnection`
- `SerialAnswerIsOwn`: `Spec => []AnswerIsOwn`
- `SerialSendSafe`: `Spec => []SendSafe`
- `SerialImplementsSession`: `Spec => ImplementsSession`

The four invariants hold one another up. That a step does not die needs that the
loop's handle is `tcp_client_`'s, which needs that `close` left no other open socket,
which needs that no step died in the middle of it. `SerialInv`, on top of `IInv` and `CredInv`,
says so at every point of the code:

- `OneInside`, `Calls`: which of the two threads is inside and where it returns to;
- `OneObject`: the only open socket is `tcp_client_`'s, of a client that is logging
  in, and once `connect` has returned it is in the registry. Hence every entry a reused number
  could have left behind is gone, and a callback finds its own object (`LiveFacts`);
- `Fresh`: a coming attempt has no handle yet;
- `AppAt`, `LoopAt`: what each thread finds at each point of `login`, `logout`, `send` and of the
  callbacks: the state of the handle, of the object and of the network there;
- `Kept`: the attempt the application is on has its object until it was refused, has
  failed or was left; with `AnswerIsOwn` this is `SendSafe`;
- `Said`: nothing was answered that was not asked, and no attempt is answered twice.

`NotBroken` shows that `Crash` has one reason to happen, the loop that has not begun. `Closing` and `Dropping`
are the two halves of `logout`, whoever calls it: what the first leaves behind is exactly what
the second may drop. Each conjunct has a lemma for its step, with a case
per action.

The mapping to `LoginSession` has the session open while the status is `kLogining` and
the loop is not reporting that connection as failed, or while it is refusing the answer (`IsOpen`).
Most steps leave it all alone (`UnseenStutters`), each of the rest has a case: `Prepare` begins
a session, `OnDisconnected` fails it, `Answer` and `OnTimer` are heard (`TellHears`), `logout`
by the application leaves it.

**Client, the threads not taking turns** (`ClientProofs`, third part), for any number of
logins and descriptors and every interleaving of the accesses of `ClientThreads`:

- `SocketsAlwaysOwned`: `ThreadsSpec => []SocketOwned`

The invariant `SafeInv` adds what a thread may rely on although the other is inside too. `Flow`:
from the end of its `logout()` until `uv_tcp_init`, `login` is about the object it has made itself, and
nobody else makes one. `Unused`: until then that object's handle is not open, so that no other object's
socket is overwritten. `Unsets`: where `close()` resets `tcp_handle_`, the handle has been closed, by whomever.
`Objects`: a thread runs a destructor exactly while it has an object to destroy. The
argument for objects is one lemma, `DropOne`: a step takes away one reference, so it
orphans one object at most, and the thread that took it away destroys it; the entry its destructor
erases is the next reference to go. For sockets it is that only `InitHandle` opens one, of an object that is
alive with its handle set, and only `UnsetHandle` and the destructor take the handle away. That the step
after such a step is well defined is not claimed: `Fall` takes over where it is not.

**Buffer** (`BufferProofs`), for every initial size, prepend size and set of bytes:

- `BufferAlwaysOK`: `Spec => []BufferOK`. One lemma per member function says that it
  maps a good buffer to a good buffer.
- `BufferGrowSafe`: `Spec => []GrowSafe`.

and, under `UnreadAtOnce` (callers unread only what the read just before
returned, and that read left bytes; `buffer_unread` shows what happens without):

- `BufferImplementsQueue`: `Spec => ImplementsQueue`
- `UnreadRestoresAtOnce`: `Spec => UnreadRestores`

For each member function a lemma says what it does to the unread bytes, from what
`memcpy`, the swap and the two ways of `grow` do to the storage: `EnsureWritableBytes` and
`Shrink` keep them, a write appends, a read takes from the front. One invariant is
needed, `GotInv`: the bytes the last read returned are still in the storage, just
before the unread ones (`GotBehind`), unless the read emptied the buffer.

**Framing** (`FramingProofs`), for every number and size of packets, every cut and every
set of garbage lengths; `SizeMax`, the modulus of unsigned differences, exceeds a packet:

- `ReadsAlwaysInside`: `Spec => []ReadsInside`
- `AlwaysAligned`: `Spec => []StaysAligned`
- `DeliveryInOrder`: `Spec => []InOrderOnce`
- `AbortsOnlyThere`: `Spec => []AbortsOnly`
- `AnswersAlwaysArrive`: `Spec => []AnswersArrive`
- `FramingTypeCorrect`: `Spec => []TypeOK`

The invariant `FramingInv` adds `NothingKept` (the buffer is empty between calls, without
which the test of a segment's length would say nothing of the buffer's) and
`DeliveredBefore` (what was delivered lies before the unread bytes). The argument:
an iteration that survives the assertion has removed exactly `header.len` bytes, so if it
began at a packet the next one does. The assertion is what keeps the loop in step.
`AnswersArrive` rests on `SingleInv`: with one packet per segment the loop has the whole of one
packet or nothing before it, so nothing but its size can keep an answer from its handler.

**Database** (`ConfigProofs`), for any callers, keys, values, errors and crashes:

- `StoreTypeCorrect`, `KeysAlwaysUnique`, `AlwaysSetUp`, `LossesExplained`, `AssertExplained`:
  `[]` of the five invariants of the run
- `StoreImplementsMap`: `Spec => ImplementsConfigMap`

The invariant `StoreInv` says how far the setting up has come at each step of `init()`
(`Progress`), that what is open is complete unless harmed (`CompleteUnlessHarmed`), that
a call has arguments exactly while it is under way (`CallOK`), that a key with a row
has a writer (`Written`), and what the two flags say (`Opened`). `KeysUnique` follows as
the only statements that add rows test the index. The refinement goes through one lemma per action: an
appended row changes `queryKey` of its key only, and only if it had no row
(`AppendFacts`); `UPDATE` changes it for its key only (`UpdateFacts`), as the first row
of a key (`FirstRow`) keeps its place.

**Start and end** (`ChatKitProofs`), for any number of connections and cleanups:

- `KitTypeCorrect`, `AlwaysRunsUntilStopped`, `FaultsAlwaysExplained`, `QueueSound`: `[]` of the
  four invariants of the run

`KitInv` relates the progress of the two threads (`Started`), keeps the traces of
a cleanup (`Stopped`), the states of the two timers (`IdleTimer`, `OtherHandles`), and
the shape of the handle queue (`QueueShape`): the two timers are at its head, one way
round or the other, and connections behind them. Hence a freed timer has a
connection or the other timer for a neighbour and nothing else; and the loop's
own timer, armed from before `uv_run` until a cleanup, keeps it alive.

**Files** (`HelperProofs`), for every path over every set of names, whatever follows it in
memory, however long (`MaxPath`), with any number of interferences and errors
(`FileAssumption`: the separator and the NUL are in no name, the bounds are naturals):

- `PathAlwaysMade`: `FileSpec => []PathMade`

Two readings of a path meet here: the loop of `ParsePathComponents`, which jumps from separator to
separator, and the file system, which reads character by character (`Passed`). `OnWay` says
of the loop, before each turn, that the components found so far, joined, name the places
the path has passed through, one for one; a turn that ends at a separator keeps it
(`NameOnWay`: a run of separators leads nowhere), one that ends at the NUL leaves `Past`, in which the
whole path's places are still the first ones of the list, and nothing follows them unless
the loop has read on behind the NUL (`Overread`). So, but for that, the
prefixes `CreateDirectory` asks for are exactly the places on the way (`SubpathsAre`).
The calls then keep `FileIInv`: what was passed is there unless somebody removed it, what was
made was asked for, and `mkdir` failed for one of three reasons.

**Labels** (`HelperProofs`), for every day and minute of the calendar (`TimeAssumption`, and
`CalendarAssumption`: no look at the list is past its five years):

- `LabelsAge`: `TimeSpec => LabelAges`

`TimeSpec` is ChatTime's part of `Library`, which the prover cannot enter. The months' starts, a
recursive function, are unrolled once (`MonthsFollow`); then months do not overlap
(`MonthFacts`), `localtime` finds the one a day is in (`LocalDay`), and its year, month and day go on
with time, in this order (`CalendarGoesOn`). What kind of label a message gets depends on the span in
minutes and on these three (`KindIs`), and between two looks in the month of the message, in
another month of the same year, or in another year, only the second can bring back a finer
one (`OlderIsCoarser`), which is the case `LabelAges` names.

**MD5** (`MD5Proofs`), for every sequence of `update`, `digest` and `reset`, every set of
lengths, and a `ulong` of 4 or 8 bytes:

- `DigestIsAlwaysOfAll`: `MdSpec => []DigestIsOfAll`

`Holds(o, f, n)` says that object `o` has been given the first `n` bytes of message `f`: its
state is the chain of their whole blocks and its buffer begins with the rest. Because the
compression function is injective, an object holds the bytes after an update by the message's
next ones exactly if it held those before (`UpdateHolds`): what is lost is never recovered. `final` is two
updates, of the padding and of the encoded count, and the state it then copies out is that of `Reference` exactly if the bytes were held
and the count is their length (`DigestIs`). What it puts back holds the bytes again with
a `ulong` of 4 bytes and padding in one block only, as the buffer is not restored
(`FinalHolds`). The invariant `MdIInv` keeps this, and that `Holds` is equivalent to not being
`spoilt`, for an object not asked since. Chains are recursive functions: what is said
of every number of blocks is shown for the set of the numbers of which it is true, which has
no least exception (`Least`, from the library's theorem on well-founded relations, and `Induct`).

**Messages** (`CodecProofs`), for every schema whose tables agree (`SchemaAssumption`), every
value an accessor takes, any number of fields set and of objects in a packet:

- `PacketAlwaysIs`: `AccessorSpec => []CodecInv`
- `AlwaysRoundTrip`: `AccessorSpec => []RoundTrip`
- `AlwaysMerges`: `AccessorSpec => []ConcatMerges`
- `AlwaysSkipsInside`: `AccessorSpec => []SkipInside`
- `AlwaysRelayed`: `AccessorSpec => []RelayStable`
- `SamplesAreTaken`: `CodecSpec => AccessorSpec`

`CodecSpec` is ProtoCodec's part of `Library`, which sets fields to samples; `AccessorSpec` sets them to
any number of their width, any text, any message. Widths stay the scaled ones of `WireFormat`.
The tables are assumed to have what the generator
gives them: each field is written once, under a number of its own, with the tag size
`ByteSizeLong` takes, has a case for the tags it is written with (`Understood`), and no case
knows what a later schema adds (`StraysAssumption`). The run evaluates both
assumptions on every message of the protocol.

The argument goes field by field. What is written for one row of the table, read
in any object, is merged into its field and leaves the others (`ReadsBack`, for each kind of
field; a message in a message by the same argument one level down). Rows have fields of
their own, so the pieces of an encoding lead from any object `a` to
`MergeFrom(T, a, m)`, unless a string is not UTF-8 (`PiecesRead`, `ObjectRead`). A cleared object
merges to what was sent (`ObjectFresh`). Sizes are sums over the same rows (`ObjectSized`), and no
field takes more bytes merged than before (`ObjectSmall`), so a packet is never shorter
than what is skipped. Each thing a peer does is one lemma (`AllHeard`): a
wider integer is cut to its field's width (`NarrowWide`) and is no shorter, unless it was negative
(`WideSize`); tokens in the opposite order are pieces again (`PiecesMirror`) that put each
list the other way round (`EveryRowTurned`); the zero byte of a header ends the loop for good. The inductive
invariant `CodecInv` is then short: `wire` is `Packet(msgType, parts, noise)`, the encodings of the
objects in `parts` rewritten at most once and then only one, and `received` is what
`ParseFromArray` makes of it from a cleared object.

**Only model-checked**: liveness (`LoginHeard`, `StopEnds`, `ConnectionsServed`), which like
ENABLED is beyond the prover.

## 5. What is not modelled

- Data races within one access: the buckets of `g_conn_map`, the two words of a `shared_ptr`, the
  queues of libuv, whose `uv_tcp_init`, `uv_timer_init`, `uv_tcp_connect` and `uv_close` are
  called from another thread than the loop's. Each access is taken as one step. `g_config`,
  which `setChatKitServerInfo` overwrites while a login may read it.
- In `Client`, bytes that are no answer and yet parse as one, and the chat messages that are delivered:
  of what `onMessage` makes of them, `AbortMessage` and `TornRead` have what concerns a login. The
  rest is in `RecvFraming`, which has one thread and no connections.
- `LOGOUT_REQ`, which is sent only in a status nothing assigns.
- `last_send_time_` and `seq_`; `connection_cb_`, which no caller of the library sets.
- The failures of `uv_tcp_init` and `uv_ip4_addr`: the code compares them with -1,
  which libuv does not return; a bad address then fails in `uv_tcp_connect`.
- Memory the code never frees (handles, requests, read buffers).
- Of the messages: arenas, descriptors, `Swap`, `CopyFrom` (Clear and MergeFrom), encodings
  cut inside a field (which fail to parse, as what precedes a segment's end in `RecvFraming`
  says), and the protobuf library itself, which is external.
- Of MD5: the arithmetic of `transform`. 64-bit words are beyond TLC's integers; with 32-bit
  words it is RFC 1321's.
- `UserManager`: two blocking HTTP requests without state. The dialogs' widgets. String
  conversion, Log, exceptions and interfaces, which keep no state; the libuv demos, which
  the program does not link; the QML shells, which are empty.
- SQLite beyond "a statement has its whole effect or throws".

## 6. Order of the work, and what is left

Done, in this order: the connection and login core, the buffer it reads into, the framing between
the two; then start and end, the database, the messages and the pure functions; then
their proofs. Left, in order of worth:

1. `getSeq` from two threads with its 16 bits (`client.cpp:265`): a number may be given twice,
   but no code compares the number of an answer, so that no property depends on it yet.
2. The registration dialog, which blocks on `UserManager`.
