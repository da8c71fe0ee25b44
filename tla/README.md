# TLA+ models of webwire-go

webwire-go is a message-oriented RPC framework over WebSocket: requests and
replies, signals in both directions, and sessions that a client creates,
restores after a reconnect, and closes. This directory holds TLA+ models of
its concurrent parts, the TLC configurations that check them, and
`PROJECT.json`, which maps every definition to the lines of source it models.

## 1. The system

| Part | Source | State | Operations |
|---|---|---|---|
| Session restore handler | `src/unnamed/part_001` 1-87 | none of its own | `handleSessionRestore` |
| Server API on sessions | `src/unnamed/part_001` 172-231 | none of its own | `CloseSession(key)`, `SessionConnections`, `SessionConnectionsNum`, `ActiveSessionsNum` |
| Graceful shutdown | `src/unnamed/part_001` 103-169 | `shutdown`, `currentOps`, `shutdownRdy`, `opsLock`, `httpServer` | `Run`, `Shutdown`, `shutdownHTTPServer` |
| Default session manager | `src/unnamed/part_000` | the session directory, one file per session | `NewDefaultSessionManager`, `OnSessionCreated`, `OnSessionLookup`, `OnSessionClosed` |
| Session registry | specification 4.2 | key -> set of connections, `maxConns` | `register`, `deregister`, bucket queries |
| Server connection | specification 4.4, 4.6 | session pointer, open or closed | `setSession`, `CloseSession`, `CreateSession`, close |
| Message dispatch, operation accounting | specification 4.5 | uses `shutdown`, `currentOps` | gate, handler, completion |
| Client dispatch | `src/client/handle.go` | the client's copy of the session | `handleMessage` and the `handle*` functions |
| Client request manager | specification 4.6 | pending requests by identifier | `Submit`, `Fulfill`, `Fail`, `FailAll`, timeout |
| Client core | specification 4.7 | connection status, session copy | `Connect`, `RestoreSession`, `Close`, reconnection |
| Message codec | specification 4.1 | none | encode, parse |
| Tests | `src/test`, `src/unnamed/part_002`, `part_003` | | |

How they interact. Every connection has a reader goroutine that handles
session restores and session closures inline and starts a goroutine per request
or signal. A user handler calls `CreateSession` on its connection. Any
goroutine may call `server.CloseSession(key)` and `server.Shutdown()`. All of
them share the registry (one lock per call), the session pointer of each
connection (one lock per access), the session files, and the shutdown flag
with its counter (under `opsLock`). No lock is held from one of these calls to
the next, so a handler made of several calls interleaves with every other.

On the client, one reader goroutine takes the frames of the server in the
order they arrive and runs `handleMessage` on each; the goroutines of the
callers submit requests to the request manager and wait for the reader to
fulfil or fail them, for their deadline, or for the loss of the connection.
The reader and the callers share the table of pending requests and the
client's copy of the session.

What is hard in it:

- `handleSessionRestore` reads the size of the bucket (line 23), looks the
  session up on disk (31), sets the connection's session (74) and registers
  the connection (80). Four steps, each atomic, nothing held between them.
- `server.CloseSession(key)` copies the bucket (202) and then calls
  `connection.CloseSession()`, which takes no key, on each connection (213).
- `OnSessionLookup` stats the file (133) and then reads it (141) while
  `OnSessionClosed` of another connection removes it (155).
- `OnSessionCreated` reads the session back from the connection (121) after
  `CreateSession` has bound it, and reads it again (126) for the name of the
  file it writes.
- `NewDefaultSessionManager` creates a missing directory (92) between the
  `os.Stat` that found it missing and the test of an error (93).
- The client is told of a new session before its file is written, and a
  client that lost its connection restores its session over a new one while
  the server still serves the old one.
- `Shutdown` reads the counter once (161) and then waits for a signal (166)
  that only the handler bringing the counter to zero sends.
- The client's reader ends a request (`handle.go` 41, 66) that its caller's
  deadline or a lost connection may have ended already, and the reply of a
  restoration wakes a caller that writes the session the reader writes too
  (19, 27).
- `handleMessage` cuts the payload at an offset that depends on the type
  (9, 10 for Utf16 replies, 2 for signals) and checks the length only for the
  empty message.

What must hold (specification section 8 and the comments of the code): the
registry lists a connection under exactly the key of its session; no bucket
exceeds `maxConns`; a restore is always answered; `register` does not fail
after the check passed (the panic message says "unexpectedly"); `CloseSession(key)`
closes that session; `Shutdown` returns, and only after the handlers in
progress returned; nothing starts after the flag is set; a request of the
client returns exactly once, with the answer to that very request or with the
error of its timeout or of the lost connection, and a later reply is dropped;
the payload the caller sees is the payload the server sent; the file of a
session holds that session; a call returns without its deadline whenever the
server answers or ends.

## 2. Modules

| Module | Models | Status |
|---|---|---|
| `ServerSessions` | registry, connection session pointer, session directory and files, `NewDefaultSessionManager`, `handleSessionRestore`, `CreateSession` with `OnSessionCreated`, client-initiated closure, `server.CloseSession`, disconnect, end and restart of the process | checked |
| `MCServerSessions` | symmetry set for TLC | |
| `ShutdownGate` | `Run`, `Shutdown`, `shutdownHTTPServer`, the message gate, the counter, acceptance of connections | checked |
| `MCShutdownGate` | symmetry set for TLC, for checks without liveness | |
| `ClientDispatch` | `handleMessage` and every handler of `src/client/handle.go`, the request manager, the caller of a restoration, the connection, the server as environment | checked |
| `Frames` | the layout of the frames a server writes to a client | used by `ClientDispatch` |
| `RequestReply` | the contract of a request: what `ClientDispatch` is shown to implement | checked as a property |
| `MCClientDispatch` | identifiers, payloads and stray frames for TLC | |
| `ClientServer` | one client of `ClientDispatch` and the server of `ServerSessions`, joined by the frames the server writes to the connection of the client | checked |
| `MCClientServer` | the identifier of the client for TLC | |

### ServerSessions

| Variable | Code |
|---|---|
| `sessionsEnabled` | `server.sessionsEnabled`, fixed at construction, either value initially |
| `maxConns` | `sessionRegistry.maxConns`, fixed at construction, any value of `Caps` |
| `up` | the server process runs; initially it does not |
| `dir` | the session directory exists; initially either |
| `registry` | `sessionRegistry`: a function whose domain is the set of keys that have a bucket |
| `session[c]` | `connection.session`, abstracted to its key, `NoSession` for nil |
| `open[c]` | the reader goroutine of the connection is reading |
| `files` | the session directory: a function from the key in the name of a file to the session whose creation time and info it holds |
| `pc[c]`, `key[c]`, `reply[c]` | program counter, local `key` and reply of `handleSessionRestore` on `c`'s reader |
| `wpc[c]`, `sess[c]` | program counter of `CreateSession` on a handler of `c`, and the local `sess` of `OnSessionCreated` |
| `admin` | the locals of the `server.CloseSession` call in progress: `key` and the connections left of the copy |

One action is one critical section or one file-system call:

| Action | Code |
|---|---|
| `RestoreDisabled` | lines 16-19 |
| `RestoreCheck` | lines 21-28: refusal with `MaxSessConnsReached`, or on to the lookup |
| `LookupStat` | `OnSessionLookup` 131-138: not found, I/O error, or on to the read |
| `LookupParse` | `OnSessionLookup` 140-150 with `Parse` 46-52 (`Readable`): the file is read again; one that is gone by now, or does not parse, is an error |
| `RestoreBind` | lines 46-79: encoding failure, or `setSession` |
| `RestoreRegister` | lines 80-87: `register`, panic on failure, reply |
| `CreateBind` | `CreateSession`: bind and register |
| `PersistRead` | `OnSessionCreated` 120-125: `client.Session()`, whose nil is dereferenced |
| `PersistWrite` | `OnSessionCreated` 126-127: `WriteFile` under the name of `client.SessionKey()`, with what line 121 read |
| `NewDefaultSessionManager` | `part_000` 74-111: the start of a server over its directory |
| `Exit` | the process ends, by a panic or from outside |
| `ClientClosesSession` | the client's CloseSession request |
| `CloseSessionBegin`, `CloseSessionNext` | `server.CloseSession` 197-210 and one iteration of 211-221, the last with 223-230 |
| `Connect`, `Disconnect` | a connection object starts and ends |

Modelling decisions:

- `setSession` takes the connection out of the bucket of the session it
  replaces and sets the pointer; it does not register. Section 4.4 of the
  specification says it "registers the new one", but line 80 of the source
  registers explicitly after `setSession` and section 4.6 lists the two as
  separate steps; the source decides.
- `register` takes the key from the connection's session when it runs, not
  from the local `key` of the handler. A nil session at that point is a nil
  dereference, modelled like the panic of line 81.
- `connection.CloseSession` is one step: deregister, `OnSessionClosed`, nil.
  It returns an error exactly when the connection is closed.
- `CreateSession` requires sessions enabled, an open connection and no session
  on it. The key generator returns keys the server holds nowhere (`Fresh`).
- After a panic no goroutine takes a step (`Running`); the process ends
  (`Exit`) and may be started again. `Exit` resets everything the process
  holds in memory and keeps the directory and its files, so every later
  start is a restart over the files of the runs before it.
- `NewDefaultSessionManager` over a missing directory may or may not manage
  to create it, and panics in both cases: line 93 tests `err`, which still
  holds the error of `os.Stat`. Over an existing directory it comes up, or
  panics on another error of `os.Stat`.
- `OnSessionCreated` is two steps, one per read of the connection's session;
  `WriteFile` may fail, and the session stays bound (specification 4.3). A
  session file is abstracted to the key of the session its contents were
  taken from, which is what `OnSessionLookup` hands to a restore together
  with the key of the name.
- `Parse` may fail on a file that exists: it was written by a server that
  ended in the middle of `ioutil.WriteFile`, or cannot be read. The model
  does not keep torn files apart; any `Parse` may fail.
- Sections 4.3 and 4.4 of the specification disagree on whether
  `OnSessionClosed` runs before or after the session pointer is set to nil.
  `OnSessionClosed` of the default manager takes the name of the file from
  `client.SessionKey()` (line 155), so the model follows 4.4: with the
  pointer nil already, it would remove the file of the empty key and leave
  the file of the session.
- What `server.CloseSession` returns (the connections, the errors and their
  number) feeds the text of an error only and is not kept.

### ShutdownGate

| Variable | Code |
|---|---|
| `shutdown`, `currentOps` | the fields of `server`; the counter is kept modulo `CounterModulus` (2^32 in the code) |
| `shutdownRdy` | the channel has been closed |
| `httpServer` | `"none"` for a headless server (`httpServer == nil`), else idle, serving, closed or failed |
| `connected` | peers with an upgraded connection |
| `running` | messages whose handler is in progress |
| `outcome[o]` | what became of the message: replied, handled, `ReplyShutdown`, dropped |
| `pc[p]`, `result[p]` | where caller `p` is in `Shutdown`, and what it returned |

`ShutdownBegin` is lines 158-165 (flag and counter under `opsLock`),
`ShutdownAwait` line 166, `shutdownHTTPServer` lines 129-137. `HandleMessage`
and `HandlerDone` are the two critical sections of section 4.5 of the
specification. The signal is a latch: once given it stays, and every waiter
passes. The source shows only the receiving side (`<-srv.shutdownRdy` on a
`chan bool`); a latch is what closing the channel gives. With a single send
instead, a second concurrent caller of `Shutdown` would wait forever.

### ClientDispatch, Frames

A frame is a sequence of bytes. Its first byte, the message type, is written
by its name (`"MsgReplyUtf16"`); the eight bytes of a request identifier and
the bytes of a payload are numbers. A JSON text is abstracted to a sequence of
the one value it carries, a session key or an error code, so that
`json.Unmarshal` is the test `Decodes` and the extraction of that value.
`Frames` builds the frames the way section 4.1 of the specification lays them
out; `ClientDispatch` takes them apart the way `handleMessage` does, with the
table `SliceFrom` of the offsets of lines 79-126.

| Variable | Code |
|---|---|
| `wire` | the frames written by the server and not yet read, in order |
| `connected` | the connection is up |
| `st[i]`, `outcome[i]` | the request manager's entry of request `i` (`"pending"` while the waiter is registered) and what the call returned |
| `restoring[i]` | the key request `i` restores, until its caller has published the session |
| `session` | `clt.session`, abstracted to its key |
| `hook` | the hook called last: `OnSessionCreated` with its session, `OnSessionClosed`, `OnServerSignal` |
| `panicked` | the reader ran into a slice out of range |
| `atServer`, `srvSession` | the environment: requests not answered yet, the session the server holds |
| `answer[i]`, `frameSession` | history variables for the properties: what the server answered to `i`, and the session as the frames dispatched so far leave it |

| Action | Code |
|---|---|
| `EmptyMessage` | `handleMessage` 70-72 |
| `ReplyMessage` | 74-97 with `handleReply` 65-67 |
| `FailureMessage` | 98-105, 108-109 with the five handlers of 44-63 (table `FailureErr`) |
| `ErrorReplyMessage` | 106-107 with `handleFailure` 33-42: a payload that does not parse fails the request with a zero-valued `ReqErr` |
| `SignalMessage` | 110-124 |
| `SessionCreatedMessage` | 125-126 with `handleSessionCreated` 9-22: a payload that does not parse changes nothing |
| `SessionClosedMessage` | 127-128 with `handleSessionClosed` 24-31 |
| `StrangeMessage` | 129-134 |
| `SlicePanics` | a slice of 79-123 on a message shorter than its offset |
| `Submit`, `Timeout`, `RestorePublish`, `Recycle` | a caller: submits a request or a restoration, gives up at its deadline, makes the session of a restoration's reply the client's; its identifier is free again |
| `Disconnect`, `Connect` | the connection is lost (`FailAll`), and set up again |
| `ServerAnswers`, `ServerCreatesSession`, `ServerClosesSession`, `ServerSignals`, `Stray` | the server: answers a request with any reply of its type of request, changes the session, signals, or writes a frame no encoder produces |

Modelling decisions:

- Each case of the switch is an action of its own, so that a run shows which
  cases it reached; `handleMessage` is their disjunction.
- The request manager is modelled from section 4.6 of the specification.
  Identifiers are handed out in the order of `Ids`. The identifier of a
  request that returned is free again (`Recycle`) once nothing of that
  request is on its way (`Quiet`: the server has answered or lost it and no
  reply to it is in flight), as with a counter of 64 bits that comes back to
  a value long after it was used; a generator that reused the identifier of
  a request that timed out at once would hand the late reply of the old
  request to the new one.
- The answers to a restoration are those `handleSessionRestore` writes
  (`src/unnamed/part_001` 12-87): the session as Utf8 JSON, or
  `SessionsDisabled`, `MaxSessConnsReached`, `SessionNotFound`, `InternalError`.
- A hook is recorded by its name. The payload of a signal is cut out by the
  same `Body` as that of a reply and checked by `FramesDecode`.
- The extraction of the identifier, whose code is not in the source, is
  `message[1:9]`.
- After a panic of the reader nothing moves (`Halted`).

### RequestReply and the refinement

`RequestReply` says what a request is for its caller, without frames, reader
or request manager: a request is submitted or rejected, the server answers it
once, and the call ends by `Deliver` with that answer or by `Abandon` with
`TimeoutErr` or `DisconnectedErr`; nothing changes the outcome of a call that
has ended, until `Retire` frees its identifier for a later request.
`ClientDispatch` instantiates it as

    RR == INSTANCE RequestReply WITH Ids <- ReqIds, Answers <- Results, status <- st

with `outcome`, `answer`, `Gone` and `None` standing for themselves, and the
run `client_dispatch` checks `CallerSeesAnswer == RR!Spec`. Every step of the
reader that ends a request must then be a `Deliver`: the outcome the handler
computed from the bytes of the frame equals the answer the server meant for
the request of that identifier. Steps on the wire, the session and the hooks
are stuttering steps of `RequestReply`; the loss of the connection is one
`Abandon` of all pending requests.

### ClientServer

The composition has the variables of both modules and three of its own:

| Variable | Meaning |
|---|---|
| `link` | the connection of the server the client is attached to, `None` while the client has none |
| `serving` | the restoration the reader of that connection is handling |
| `working` | the request whose handler runs `CreateSession` on that connection |
| `login[i]` | history variable for `LoggedInOnReturn`: the session the handler of request `i` created |

    S == INSTANCE ServerSessions
    C == INSTANCE ClientDispatch
             WITH session <- cltSession, srvSession <- LinkSession, ...

`srvSession`, which `ClientDispatch` alone leaves to an arbitrary server, is
here `session[link]`, the pointer `ServerSessions` keeps; the environment
actions of `ClientDispatch` (`ServerAnswers`, `ServerCreatesSession`,
`ServerClosesSession`) are replaced by the steps of the real server:

| Action | What happens |
|---|---|
| `Client(step)`, `Recycle(i)` | a step of the client alone: `handleMessage`, `Submit`, `Timeout`, `RestorePublish`; its identifier is free again |
| `Connect(c)` | the server accepts connection `c`, which becomes the client's |
| `ConnectionLost`, `ReadError` | the client loses the connection, at any moment or because the server closed its end; it fails what it waits for. The server has not noticed |
| `ServerNotices(c)` | the reader of a connection the client left gets its read error |
| `RestoreArrives(i)`, `RestoreStep(c)` | the steps of `handleSessionRestore`; the step that ends it writes `fulfillMsg` or `failMsg` (tables `FailureType`, `ReplyMessage`), to the client when `c` is its connection, to nobody otherwise |
| `HandlerCreates(i, k)`, `Persist(c)` | a request handler calls `CreateSession`: bind and register, `MsgSessionCreated` to the client, then the two steps of `OnSessionCreated`, then the reply |
| `HandlerReplies(i)` | a request handler replies without touching the session |
| `CloseSessionBegin(k)`, `CloseSessionNext(c)` | `server.CloseSession`, with `MsgSessionClosed` to the client when its connection loses a session |
| `NewDefaultSessionManager`, `Exit`, `PanicExit` | the server starts, ends, and ends after a panic |

A frame the server writes is taken by the connection when fewer than
`MaxWire` frames are in flight (`Write`); the writer waits otherwise. A
connection the client has left stays open at the server, with its session and
its place in the registry, until `ServerNotices`; a restore in progress on it
runs on. The closure of a session by the client is not part of the
composition, the client side of it not being modelled.

## 3. Runs

| Run | Module, cfg | Result | States |
|---|---|---|---|
| `sessions` | `MCServerSessions`, `sessions.cfg` | pass | about 630 000 |
| `restore_race` | `MCServerSessions`, `restore_race.cfg` | violation | |
| `close_stale` | `MCServerSessions`, `close_stale.cfg` | violation | |
| `persist_mixup` | `MCServerSessions`, `persist_mixup.cfg` | violation | |
| `missing_directory` | `MCServerSessions`, `missing_directory.cfg` | violation | |
| `shutdown` | `MCShutdownGate`, `shutdown.cfg` | pass | about 12 000 |
| `client_dispatch` | `MCClientDispatch`, `client_dispatch.cfg` | pass | about 3 200 000 |
| `client_liveness` | `MCClientDispatch`, `client_liveness.cfg` | pass | about 1 300 000 |
| `client_server` | `MCClientServer`, `client_server.cfg` | pass | about 690 000 |
| `session_order` | `MCClientDispatch`, `session_order.cfg` | violation | |
| `short_frame` | `MCClientDispatch`, `short_frame.cfg` | violation | |
| `protocol_error` | `MCClientDispatch`, `protocol_error.cfg` | violation | |

Run one with `tlc -workers 2 -config sessions.cfg MCServerSessions`.

**sessions** (no cap or a cap of one, fixed when the server is built; two
connections, two keys, the server ending and restarting over its files)
checks `TypeOK`, `RegistryConsistent` (a bucket is never empty and lists only
open connections whose session has its key) and `BoundIsRegistered` (an open
connection with a session is in that session's bucket, except in the window
between lines 74 and 80 of a restore). They hold in every interleaving.
`CapRespected` says the cap holds although the check of line 23 is unlocked:
`register` checks again under the lock. It is a property of the registry's
guard; what the unlocked check costs is the panic that `restore_race` shows.
`ClosedSessionStaysClosed` is about the ways a session could come back once
nothing of it is left (no file, no connection that holds it, no restore that
found it): by `CreateSession` only. A closure before or during the lookup of
a restore is seen by the lookup, because `Parse` reads the file again after
`os.Stat`; `OnSessionCreated` on a connection that changed its session writes
under the name of the session the connection holds; a restart finds the
files that were there. The one way the code does bring back a closed session
is left out of `Closed` on purpose, and recorded as a finding: a restore
whose lookup succeeded binds and registers the session at line 74 of
`part_001` whatever happened to it since line 31. The property does not
catch that case.

**restore_race** checks what the panic message of line 81 takes for granted,
`RegisterAfterCheckSucceeds`, and TLC finds it violated: two connections
restore the same key, both see a bucket with a free place, and the second
`register` fails. The server panics where the specification promises a
`MaxSessConnsReached` reply.

**close_stale** checks `CloseSessionClosesItsKey` and TLC finds it violated: a
connection of the snapshot whose session was closed by its client and that
created another session loses that other session.

**persist_mixup** checks `FileHoldsItsSession` and TLC finds it violated: the
client of a connection restores session k1, whose file exists, while a
handler of the same connection creates session k2. `OnSessionCreated` reads
k2 (121), the reader sets the session of the connection to k1 (`part_001`
74), and `OnSessionCreated` names the file after the key the connection has
now (126): the file of k1 is overwritten with the creation time and info of
k2, and k2 has no file. A later restore of k1 is answered with the data of
k2.

**missing_directory** checks `StartCreatesDirectory`, what the comment of
`NewDefaultSessionManager` says (line 73 of `part_000`: the directory is
created if it does not exist yet), and TLC finds it violated in one step: the
constructor creates the directory and then tests, at line 93, the error of
the `os.Stat` that found it missing. The first start over a missing directory
panics; the next one, over the directory the first left, comes up.

**shutdown** checks `TypeOK` (the counter never leaves the range of the
messages in flight), `DrainedBeforeStop`, `NothingStartsAfterShutdown`, and
`ShutdownReturns` for two concurrent callers. That the second caller
returns rests on the signal being a latch (section 2); with a single send on
`shutdownRdy` it would wait for ever, and the sender is not in the source.

**client_dispatch** (two requests, two frames in flight) checks `TypeOK`,
`CallerSeesAnswer` (the refinement of `RequestReply`; that what a call
returned is never changed by a reply after the deadline or after the loss of
the connection is part of it) and `FramesDecode` (what `handleMessage` cuts
out of a frame in flight is the identifier, encoding and payload the server
put in). They hold for every order of answers, timeouts, connection losses,
frames of the server's own and reuses of an identifier that `Recycle` allows.

**client_liveness** checks `AnsweredRequestReturns` under a reader that is
scheduled: once the server's answer is written, the request returns without
its deadline having to pass, because every path of every handler ends in the
request manager, `handleFailure` on a payload that does not parse included.

**client_server** (one client, two connections, one key, a cap of one)
checks `CallerSeesAnswer`, `CallReturns` and `LoggedInOnReturn` of the
composition.
`CallerSeesAnswer` is the refinement of `RequestReply` again, now end to
end: what a call returns is what `handleSessionRestore` or the request
handler decided for that very request, through `failMsg` or `fulfillMsg`, the
frame, `handleMessage` and its handler; and what the server writes for a
request that was given up, or to a connection the client left, ends no call.
`CallReturns` says that a call that was sent returns: with the answer of the
server, or with `DisconnectedErr` when the server ends, by the panic of line
81 included. The run reaches the client that reconnects and restores while
the connection it left holds the only place of the session (refused with
`MaxSessConnsReached`) or is itself between check and `register` (the panic
of `restore_race`, here brought about by one client), the server that ends
between `MsgSessionCreated` and the file, and the restart that answers
`SessionNotFound` to the key the client was given.

`LoggedInOnReturn` is what `TestClientOfflineSessionClosure` relies on when
it reads `client.Session()` right after the login request (`part_003` 100-107):
when the request whose handler created a session returns with its reply, the
client has that session, or the server closed it in between and
`OnSessionClosed` was the last hook to run. It holds because `CreateSession`
writes `MsgSessionCreated` before the handler replies, the connection keeps
the order, and `handleSessionCreated` sets `clt.session` on the reader before
`handleReply` wakes the caller.

**session_order** checks `SessionInFrameOrder` and TLC finds it violated: the
server answers a restoration and then closes the session; the reader fulfils
the request, then runs `handleSessionClosed`; the caller, woken by the reply,
then writes the session of the reply. The client holds a session the server
has closed.

**short_frame** checks `ReaderSurvives` and TLC finds it violated: a signal of
one byte passes the check of line 70 and `message[2:]` (line 118) is out of
range.

**protocol_error** checks `AnswerEndsRequest` and TLC finds it violated: the
server answers a request with `MsgReplyProtocolError`, `handleMessage` has no
case for it and drops it as a strange message; the caller waits for its
deadline.

Every property of a passing run has a mutant in `PROJECT.json`: a definition
next to the one it replaces, changed the way a bug would change the code (no
re-check in `register`, no deregistration in `setSession`, no registration
after `setSession`, a lookup
that trusts its `os.Stat`, `handleSessionCreated` calling the hook without
storing the session, no flag in `Shutdown`, no fast path in `Shutdown`,
no wait, a counter decremented twice, the Utf16 offset taken for 9, two
failure handlers mixed up,
`handleFailure` returning on a parse error, the session text stored
unparsed, `handleSessionRestore` returning without a reply when the
session is not found), under which TLC finds
the property violated.

## 4. Bounds

- Two connections are what every race here needs: both races found have two
  parties, and a third connection multiplies the states (9 million for three
  connections, cap 2) without a new kind of step. Two keys let a connection
  change from one session to another, which `RegistryConsistent`,
  `close_stale` and `persist_mixup` need; `restore_race` needs one.
  `persist_mixup` needs one connection only: the two handlers are of the
  same connection.
- `Caps` is `{0, 1}` in `sessions`: unlimited, or the smallest cap (with
  two connections a larger one is never reached). The cap is chosen when the
  server is built and kept over its restarts.
- One `server.CloseSession` call at a time: two calls share no local state.
- The number of restarts is not bounded; the state of a restarted server
  differs from that of a first start only in the directory and its files.
- In `ShutdownGate`, two requests and a signal make the counter go above one
  so that a handler which is not the last one finishes under the flag; two
  callers exercise the shared signal. `CounterModulus = 8` stands for 2^32:
  it exceeds the number of messages, so increments never wrap in the model
  just as 2^32 handlers never run at once in the program, and a decrement
  below zero still wraps to a value out of range.
- Symmetry over connections and keys is used in `sessions`, which
  checks invariants and an action property only.
- In `ClientDispatch`, two requests give a reply that overtakes a timeout while
  another request is pending, and a loss of the connection that fails two
  requests at once; two frames in flight put a frame of the server's own
  between an answer and its dispatch. `client_dispatch` has one payload, of
  two bytes, which Utf16 allows and whose frame is longer than every offset;
  `client_liveness` has the empty payload too, whose frame ends exactly at
  the offset. One key, one error code and one text that is not JSON are
  enough, since the client never compares two of them. The stray frames are
  the empty message and a signal of one byte. `client_liveness` has one
  request and three frames in flight: the answer waits behind two other
  frames.
- In `client_server`, one call of the client at a time (one identifier, used
  again and again) meets a server with two connections, so that the
  connection the client left and the one it has now are both there; one key
  and a cap of one make the two compete for a place. Two frames in flight
  let a session notification wait behind a reply. The client's payloads are
  the empty one: the server's handler does not look at them. With one call
  at a time the caller of a restoration cannot publish its session while a
  login request returns; with two calls `LoggedInOnReturn` would meet the
  race that `session_order` shows.

## 5. Fairness

`ServerSessions` is checked for safety only and assumes no fairness.
`ShutdownReturns` assumes that handlers in progress return (the specification
leaves a handler that never returns an open question: `Shutdown` then never
returns either) and that a caller of `Shutdown` that can continue does.

`AnsweredRequestReturns` assumes weak fairness of `handleMessage` only: the
reader loops on the connection and reads what has arrived. Nothing is assumed
of the callers' deadlines, of the server or of the connection, so the property
does not hold by a timeout that is bound to come.

`CallReturns` assumes weak fairness of the reader of the client
(`handleMessage`), of the reader of each connection of the server
(`RestoreArrives`, `RestoreStep`), of its workers (`HandlerReplies`,
`Persist`), of the read error on a connection the server closed
(`ReadError`) and of the end of a process that panicked (`PanicExit`): the
goroutines are scheduled, the file system answers, a read on a closed socket
fails, and a Go program whose goroutine panics exits. Nothing is assumed of
the deadline of the call, of the loss of a connection that is up, of a new
start of the server or of `server.CloseSession`.

`shutdown` switches deadlock checking off: a server that was shut down and
has no connection left has stopped.

## 6. Not modelled

The HTTP server, TLS, the WebSocket upgrade and socket I/O (library code);
the wording of errors and logs; the value `server.CloseSession` returns; the
payload handed to a hook. The tests are not modelled as code; what they
assert is checked as properties where the operations they use are modelled
(`LoggedInOnReturn`, `CallerSeesAnswer`, `FramesDecode`, the properties of
`shutdown`), and concurrent `Connect`, the disconnection hook and the
protocol violations of requests exercise code that is not in the source.
Session creation time and info are modelled only as far as telling whose
they are.

Of the client core, whose code is not in the source: autoconnect and the
reconnection loop with its silent restoration, `Close`, and the closure of a
session by the client. In `ClientServer` the client connects again and
restores as two separate steps of its user.

Of the codec: request frames and the parsing on the server. The source holds
neither; the reply frames are modelled because `handle.go` takes them apart.
A reply shorter than its identifier is not among the stray frames:
`handleMessage` hands it to `extractMessageIdentifier`, which is not in the
source, so what the reader does with it cannot be read from the code.

A restoration with the empty key, which `handleSessionRestore` does not
refuse (line 21 of `part_001` takes the key from the payload as it is) and
which would find the file that `OnSessionCreated` writes under the empty key
after a closure between its two reads: the request that carries it is parsed
by code that is not in the source.

The reuse of a request identifier while a reply to its previous request is
still on its way: `Recycle` waits until nothing of the old request is in
flight (`Quiet`). The identifier generator is not in the source; the
specification says an identifier is reused after its request terminated.

`ShutdownGate` is not composed with the client. The scenario of
`src/test/gracefulShutdown_test.go` (a request in progress is answered, a late
request gets `ReplyShutdown`, a late connection is refused) is covered on
the server side by the `shutdown` run and on the client side by the
`MsgReplyShutdown` case of `client_dispatch`.

The client's copy of the session is not claimed to agree with the server's:
it does not after `session_order`, after a restoration that timed out while
the server bound the session, and after a reconnect, where the client keeps
its key over a connection that has no session (specification 8, scenario
S5).
