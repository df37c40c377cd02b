# A TLA+ model of rttys

rttys lets a browser open a terminal on a device behind NAT. A device program
(`src/rtty-client/main.go`) keeps one TCP connection to the server; browsers
reach the server over HTTP and WebSocket; the server relays between them.
Besides terminals it relays command execution, file transfer, HTTP requests to
the device's own web server, and *tunnels*: public ports, or tokens, that lead
to a port of the device.

This directory models the parts of it whose correctness rests on the order in
which goroutines, timers, messages and database statements happen. Contents:

1. [The system](#1-the-system): components, state, interactions, hard parts
2. [The modules](#2-the-modules): which models what, and how it corresponds to the code
3. [The runs](#3-the-runs): what TLC checks, bounds, fairness
4. [What the runs found](#4-what-the-runs-found)
5. [The proofs](#5-the-proofs)
6. [Limits](#6-limits): abstractions, what is only model-checked, what is not modelled
7. [Plan](#7-plan)

## 1. The system

### Components

| Component | Code | State | Operations |
|---|---|---|---|
| Session registry | `broker.go`, `device.go`, `user.go` | `br.devices`, `br.sessions`, per connection: `registered`, `closed`, `sid`; two loops per connection; 3 s login timers, 100 ms reject timers | register, unregister, login, login ack, logout, `Close` |
| Terminal data relay | `broker.go` `termMessage`/`userMessage` arms, `WriteMsg` | send channels of capacity 256 (device, user), 1000 (broker) | relay a terminal message either way, window size, file control |
| Command execution | `command.go`, `broker.go`, client `handleCmd` | `commands` by token, a context per waiting request | post, respond, time out |
| Tunnel lifecycle | `tunnel.go`, `tunnel_api.go`, `proxy.go`, `main.go` | table `tunnel`; `tunnelProxyServers` by public port; the bound sockets | create or renew, delete, clean up every 30 s, restore 5 s after a start |
| Token proxy | `tunnel_api.go` `handleTokenProxy`, `http.go`, client `handleHTTP` | `tunnelProxyConns` by stream, a channel of capacity 1 per stream; the client's `tunnels` | ask, take a chunk, time out, sweep |
| Web and public-port proxy | `http.go`, `proxy.go` `handleTunnelProxyConn` | `httpProxyCons` by source address, `httpProxySessions`, the writer's 4096-byte buffer | accept, forward a request, deliver a response, close |
| File transfer | `device.go` `fileProxy`, `api.go` `/file/:sid`, client `handleFile` | a pipe per session, the client's open files | start, data, ack, cancel, end |
| Liveness of device connections | `device.go` `writeLoop`, client `heartbeatLoop` | `ninactive`, `active` | tick, heartbeat, give up |
| HTTP sessions and accounts | `cache/cache.go`, `api.go`, SSO in `tunnel_api.go` | expiring items, table `account`, device bindings | sign in (SSO: by an outside token), up, out; bind, unbind; expire |
| Database pool | `database.go` | `databasePool` by driver | look up, open, clean up |
| Message codecs | `broker.go`, `device.go`, `proxy.go`, client | none | frame and parse commands, tunnel messages, addresses |
| UI; configuration, logging, TLS set-up | `ui/`, `config/`, `log/`, `main.go` | none of interest | |

### How they interact

* One goroutine, `broker.run()`, owns `br.devices` and `br.sessions`. Everything
  else posts to its channels: `register`, `unregister`, `loginAck`, `logout`,
  `cmdReq`, `cmdResp`, `termMessage`, `userMessage`, `fileMessage`, `httpReq`,
  `httpResp`. `select` serves ready channels in **arbitrary order**, so two
  messages of one sender that go to different channels may overtake each other.
* Each connection has a read loop and a write loop; each posts an `unregister`
  when it returns, so the broker sees two per connection.
* HTTP handlers run in their own goroutines. They read `br.devices`, post to the
  broker, and wait for an answer that the broker's goroutine delivers through a
  table (`commands`, `tunnelProxyConns`, `httpProxyCons`).
* The tunnel table is changed by handlers, by the cleanup goroutine and by the
  restoration goroutine; only the choice of a free port is under a mutex.
* The device program starts one goroutine per command, file message and tunnel
  message, and keeps its tables when it reconnects.

### What is hard, and what makes each component correct

* **Registry.** Two live connections with one identifier; an unregister that
  overtakes the register it follows; an answer, a hang-up and the end of a shell
  in three channels; timers that read a flag and act later. Correct: the flag
  and the table agree, a session runs on the registrant, a shell is known to
  somebody who will end it, logins are resolved, lost peers are closed.
* **Commands.** A response before its token is stored, or with the timeout; a
  lost connection. Correct: one reply, earned; late responses are dropped; every
  caller returns.
* **Tunnels.** Check-then-act over SQL, a listener table and sockets, by four
  kinds of goroutine; a restart that keeps the table only; ports that another
  process may hold. Correct: a live tunnel is listened on unless its port was
  refused, a target has one tunnel unless requests overlapped, a closed listener is
  not taken for a serving one.
* **Token proxy.** Concurrent responses over one connection, a one-slot channel,
  an end of stream that races its chunks' reader, sweeps; a tunnel that can be used
  before the device is told of it; a client that handles messages in any order. Correct: the reply is the start of the right response,
  the table holds waiting streams only, every request returns.
* **Relay.** The broker blocks on a slow peer's channel while its own channels
  fill, `Close` tests and closes in two steps, and three goroutines post a shell's
  output and its end. Correct: keys, and each stream of output, arrive in order and
  without gap, the broker waits only where somebody will make room, a channel is
  closed once.
* **Web and public-port proxy.** Connections are keyed by an address that the peer
  may reuse; an answer's goroutine outlives the device's connection; messages do not
  say of which kind they are. Correct: a response goes to the connection that asked, an entry
  lasts as long as its connection, a replaced session's connections are closed.
* **File transfer.** A goroutine per piece, at both ends. Correct: a download's
  pieces arrive in order and before the end, and its request returns; an upload's are
  stored once, and none overtakes more than one other.
* **Heartbeat.** A counter that ticks raise and the server's own heartbeats set
  back. Correct: only a silent device is given up, and a vanished one is.
* **Sessions and accounts.** A sweep that decides on what is then renewed; checks
  and the statements that rely on them. Correct: a session lives as long as it is
  used and not after its sign-out, one administrator, rows keep their owners.

The hazards are listed one by one, at their lines, in `PROJECT.json`.

## 2. The modules

| Module | Models | Instance for TLC | Theorems |
|---|---|---|---|
| `Broker` | the registry: the control arms of `broker.run()`, connections and their loops, timers, the device's shells | `MCBroker` | `BrokerProofs` |
| `SessionDirectory` | the abstract directory of owners and sessions that `Broker` implements | | `BrokerProofs` |
| `Relay` | terminal data through bounded channels; `Close` in its steps | `MCRelay` | `RelayProofs` |
| `Command` | command execution | `MCCommand` | `CommandProofs` |
| `Tunnel` | the tunnel lifecycle | `MCTunnel` | `TunnelProofs` |
| `TokenProxy` | requests to `/proxy/:token` | `MCTokenProxy` | `TokenProxyProofs` |
| `HttpProxy` | web and public-port connections, by source address | `MCHttpProxy` | `HttpProxyProofs` |
| `FileTransfer` | downloads and uploads | `MCFileTransfer` | `DeviceProofs` |
| `Heartbeat` | the inactivity counter | `MCHeartbeat` | `DeviceProofs` |
| `Accounts` | HTTP sessions, accounts, owners of devices | `MCAccounts` | `AccountsProofs` |

The modules are separate specifications: each keeps of the others only the
interface it depends on. `Command` and `TokenProxy` have `online`, what they see
of `Broker`'s `devices`; `TokenProxy` has `tun`, what it sees of `Tunnel`'s
rows; `Tunnel` has `online` by target; `FileTransfer` has `sess`, whether the
session is in `br.sessions`. In each, these change at any moment, which is more
than the component they belong to would do. `Relay` begins where `Broker`'s
sessions are confirmed and keeps of the registry what data depends on.

Variables marked *history* in a module record what has happened, so that a
property can name the circumstances under which it holds; no guard reads them.
Operators marked *mutant* are plausible mistakes in the operator after them: with
each in its place, the run of the property it was written for fails.

### Broker

`devices`, `sessions` are the broker's tables, `registered`, `sidSet` (that is,
`user.sid # ""`) and `closed` fields of the connection structs. `phase` is how far
a connection is in `listenDevice`/`readLoop` or `serveUser`; `loops` are the
goroutines still running. `registerQ`, `unregisterQ`, `loginAckQ`, `logoutQ`
are the broker's channels, `outbox` the device's send channel, the wire and the
device's buffer in one. An action of the broker takes the head of **one** of the
four channels, any of those that are not empty: `select`.

| Action | Code |
|---|---|
| `Accept`, `PostRegister` | `listenDevice`, `serveUser`, `readLoop` on `msgTypeRegister` |
| `ReadLoopEnds`, `WriteLoopEnds`, `KillInactive` | the deferred `br.unregister <- ...` of the four loops |
| `AdmitDevice`, `RefuseDevice` | `register` arm, device |
| `OpenSession`, `RefuseUser` | `register` arm, user |
| `UnregisterDevice`, `UnregisterUser` | `unregister` arm |
| `ConfirmSession`, `DeviceBusy`, `StaleLoginAck` | `loginAck` arm |
| `EndSession` | `logout` arm |
| `RejectTimer`; `LoginTimerReads`, `LoginTimerCloses` | the two `time.AfterFunc`; the second tests and acts in two steps, between which the broker may run |
| `DeviceLogin`, `DeviceLogout`, `ShellExits` | client `handleLogin`, `handleLogout`, `startShellSession`'s goroutine |

A user connection registers once, so its session id is identified with it.

`SessionDirectory` has two tables and four operations: an identifier is claimed
when free, a session is opened on the owner, ended, and a release ends all
sessions of the identifier. `Broker` implements it under the mapping
`owner <- devices`, `session <- sessions`,
`opened <- {u : timer[u] # "idle"}` (a login timer exists once a session was
opened).

### Relay

`send` are the clients' send channels and `userQ`, `termQ` two of the broker's,
with capacities (256 and 1000 in the code). The broker is one goroutine: what is
left of the message it serves is `toClose` and `toWrite`, and while `toWrite`
waits for a full channel (`Waits`) it serves nobody. `WriteMsg` to a closed channel
panics and is recovered: the message is lost (`Lost`). `Close` is `Test` (the flag)
and `Shut` (flag, channel, connection); the broker runs it from `BrokerCloses`, a
timer from `TimerCloses`, and of two that have both passed the test the second
panics and, being recovered nowhere, ends the process: `crashed`.

A shell prints on two streams, each read and posted by a goroutine of its own
(`pipeOutput`): its pieces are numbered per stream when printed, `pending` says which
streams have one that is not yet on the connection, and `Output` posts them in any order.
A third goroutine reports the end of the shell and waits for neither; `cmd.Wait` closes
the pipes under the other two, so the tail of a stream may be lost (`LosesTail`) or
overtaken by the report.

| Action | Code |
|---|---|
| `ServeKey`, `ServeOutput` | `userMessage` and `termMessage` arms |
| `UnregisterDevice`, `UnregisterUser`, `ServeLogout` | the arms that close |
| `WriteToUser`, `WriteToDevice`, `WriteToNobody`, `WriteLoopEnds` | the write loops |
| `TickUser`, `TickDevice`, `Ping` | their tickers, which send to the channel that the same loop drains |
| `Type`, `Output`, `ShellReads`, `ShellPrints` | `user.readLoop`, `device.readLoop`; the client's shell, whose pipe its read loop fills |

### Command

A request is identified with its token. `pc` is the handler's place,
`replies[r]` what was written to its gin context, `cancelled` whether
`context.CancelFunc` was called, `commands` the `sync.Map`. `handleCmdResp` is two
steps, `LoadCmd` (look up) and `HandleCmdResp` (write): the handler may return
in between. In the device program a command is a goroutine (`running`) that
outlives the connection.

### Tunnel

Every SQL statement and every operation on the listener table or on a socket is
one step. A tunnel is named after the handler that inserts its row, a listener
after the goroutine that opens it. Another process may hold any port at any time, so
`Listen` may always fail and `Allocate` may return any free port or none. `server` is `tunnelProxyServers`, `bound` the
operating system's view. `StartTunnelProxyServer` is `StartLoad`, `Listen`,
`StartStore`; `StopTunnelProxyServer` is `StopFind`, `StopClose`, `StopDrop`;
`handleTunnelCreate` is `CreateLookup`, then `Renew`, `Reread` or `Allocate`,
`Evict`, `Insert`, then the start, and `Undo` if it fails. `CleanExpiredTunnels`
is `CleanSelect` and `CleanMark`, and one stop per row read. The restoration reads
the rows (`RestoreList`) and decides on each (`RestoreNext`). Time is `Expire`: a
row's deadline passes. `Restart` loses everything but the rows; SQLite and MySQL
statements are atomic. `overlaps` counts the operations that began while another
was in progress: it bounds interleavings, and tells what holds for one operation
at a time (`Serial`) from what holds in general. Two histories name what the code
cannot prevent: `refused`, the ports on which a renewal or the restoration failed to
listen, both of which leave the row active (`tunnel_api.go:136`, `proxy.go:534`); and
`together`, the pairs of create requests of one target of which each had looked for
a row before the other inserted its own.

### TokenProxy

A request is its stream. `pending` is `tunnelProxyConns`, `respCh` the stream's
channel of capacity 1. `HandleResp` is `handleHttpProxyResp`: the end of a stream
deletes it from the table, a chunk is offered to the channel and dropped if it
is full. `handleTunnelCreate` is `InsertTunnel`, from which on the token can be used, and
`AnnounceTunnel`, which posts the create message; `announcing` are the tunnels between
the two, and `early` (history) the requests that were posted meanwhile. `DeleteTunnel` and `CleanTunnel` include the sweep over the streams,
which panics on a stream of the tunnel, because it has no `conn`: gin recovers
the handler's panic, and `utils.ErrorHandle` turns the cleanup goroutine's into
`log.Fatal`. The device program has `jobs`, messages that no goroutine has handled
yet, which are handled in any order; `targets`, its table `tunnels`; `outgoing`,
what a response's goroutine has still to write.

### HttpProxy

`cons` is `httpProxyCons` of a device: source address to connection. `doHttpProxy`
is `Connect`, `Refuse`, `WebStore`, `WebServe`, `WebLeaves`, and its watcher goroutine
`WatcherWakes`, `WatcherDeletes`; `handleTunnelProxyConn` is `Connect`, `Refuse`,
`PortServe`, `PortLeaves`, `PortCloses`. `Post` puts a request on its way to the
device program, whose goroutine answers it with `WriteChunk`, `WriteError`,
`WriteEnd`. `HandleResp` is `handleHttpProxyResp`, which finds the connection by its
address (`Closes`, `Delivers`), but first tries every message as tunnel data and keeps a
chunk whose bytes can be read so (`Swallows`); the device program may likewise take a
message for one of a tunnel (`TakenForTunnel`). `LoseConnection` loses messages that no
goroutine has begun to answer and the last pieces written; the goroutines of the others
write on to the next connection. `holed` (history) are the messages of whose answers a
chunk was lost in one of these ways. `CloseSession` and `DeleteSession` are the two steps
with which `httpProxyRedirect` replaces the browser's session. `shared` (history)
are the connections that had their address at the same time as another, or while
something of another with that address was under way.

### FileTransfer

A transfer is numbered by the order in which the device begins it. `entry` is
`br.fileProxy` of the session, `writers` the goroutines of `fileProxy.Write`, which
all wait at the pipe; `GetLoads`, `GetReads`, `GetBreaks`, `GetEnds` are
`GET /file/:sid`, `WriterFails` a writer that finds its pipe closed.
`BrokerFileMessage` is the `fileMessage` arm. `page` is the upload dialog of
`Rtty.vue`; `HandleInfo`, `HandleLookup`, `HandleWrite`, `HandleEnd`, `HandleAbort`
are the arms of the client's `handleFile`, each in a goroutine of its own, with the
look-up of the file and the write to it apart. The command on the device that
starts a transfer is not in the repository: `BeginUpload`, `BeginDownload`,
`StopDownload` and `NextPiece` send what the broker and the page are written for.

### Heartbeat

Time passes in steps, `Second` of them a second. `Elapse` is a step, in which the
ticker may fire; `ServeTick` and `Kill` are the two outcomes of a tick in
`writeLoop`; `WriteBlocks` and `WriteReturns` keep the loop in `conn.Write`, so that
ticks come late or are dropped. `silence` is the time since `dev.active`, `since` the
time since `lastHeartbeat`.

### Accounts

Handlers are `req`: the statement that comes next, and what their locals hold.
`/signup` is `SignUp`, `CountAccounts`, `CountName`, `InsertAccount`; `httpAuth` is
`Authorize` (`Have`) and `Renew` (`Active`); `/bind` is `Bind`, `CheckTarget`,
`SetOwner`; `/unbind` is `Unbind`, `SetOwner`; `/delete` is `Delete`, `DeleteRow`.
`live`, `owner`, `expires` are the cache; `BeginSweep`, `LookAtItem`, `DeleteItem`,
`EndSweep` are `DeleteExpired`. `Register`, `CountRows`, `UpdateRow` are the broker's
`register` arm with `UpdateDb`.

## 3. The runs

| Run | Question | Result |
|---|---|---|
| `broker` | two connections that claim one identifier, one user | `RegistryConsistent`, `SessionOnRegistrant`, `RefusedStaysOut`, `ShellAccounted`, `NoHangUpOnLiveSession`, `ImplementsDirectory` hold |
| `broker_live` | one device, one user, fair scheduling | `LoginResolved`, `ConnectionsReaped`, `HangUpEndsShell` hold |
| `broker_ghost` | a lost device's identifier becomes free | violated, see section 4 |
| `relay` | one user and one device whose channels are full at once, any of whom may go; a shell with two streams | `TypeOK`, `RelayInOrder`, `CrashTakesTimer`, `BrokerWaitsOnlyFor` hold |
| `command` | three requests, waiting or not, a device that comes and goes, fair handlers | `OutputIsEarned`, `TwoRepliesOnlyAtTimeout`, `LateResponseDropped`, `WaiterAnswered` hold |
| `tunnel` | three creates, a delete, cleanups, the restoration and a restart | `TypeOK`, `NoDeadListener`, `OneTunnelPerTarget` hold; `LiveTunnelServed` holds for one operation at a time |
| `token_proxy` | one request, up to two chunks and an error, tunnel operations in their steps, lost connections and restarts of the client, fair handler | `ReplyStartsResponse`, `OnlyWaitingStreams`, `TunnelKnown`, `RequestReturns` hold |
| `token_crash` | the server survives its cleanup rounds | violated, see section 4 |
| `http_proxy` | a web and a port connection over two addresses, and a connection to the device that is lost in the middle of answers | `TypeOK`, `ReplyIsOwn`, `EntryLastsAsConnection`, `RevokedConnectionsClose` hold |
| `files` | two transfers of one session, of either kind | `TypeOK`, `DownloadInOrder`, `UploadOvertakesOne`, `NoPieceTwice`, `EndedDownloadReturns` hold |
| `heartbeat` | silence, late ticks and blocked writes | `KilledOnlySilent`, `GoneIsClosed` hold |
| `accounts` | two concurrent requests, the sweep, a device that registers | `SignedOutStaysOut`, `UsedSessionKept`, `OneAdmin`, `BoundToUser` hold |

The type invariants of `Broker`, `Command`, `TokenProxy`, `Heartbeat` and `Accounts`,
and three more properties of `Accounts` (`OnlineHasRow`, `OwnerKept`,
`SweepLeavesNoneExpired`), are proved (section 5) and not run.

Several of these name the circumstances under which they hold (`Serial`, `refused`,
`together`, `early`, `holed`, `~hurried`, `~crowded`, the named exceptions of
`BrokerWaitsOnlyFor`): without them they fail, and section 4 says how.

`ConnectionsReaped` says that a connection whose peer is lost is closed; that a
refused one is closed too is `RefusedStaysOut`: its timer is armed until then.

`CHECK_DEADLOCK FALSE` everywhere: a connection, a request or a tunnel operation
happens once in these models, so behaviours end when all have happened. That
nobody is stuck before is what the liveness properties say.

### Bounds

* `broker`: two devices and one user. A conflict takes two connections of one
  identifier; a session involves one user, and users share nothing but the
  device. Each connection registers once; a device that reconnects is the other
  connection. The channels are unbounded; the number of messages is finite
  because each connection acts once. The theorems of section 5 hold for any
  number of each.
* `relay`: every capacity is 1, so that one message fills a channel and every way
  to wait for another goroutine is reached. Two keys (`MaxKeys`) are one that fills
  the pipe, or the device's channel beside a heartbeat, and one that the broker holds;
  two pieces (`MaxPrints`) fill the user's channel and make the broker wait, and are of
  one stream or of both; one peer, shell or inactive device goes (`MaxEnds`). The user
  may have a timer.
* `command`: three requests: one that is held by the broker, one that meets its
  timer, one that does not wait.
* `tunnel`: two creates of one target and one of another (a renewal, and a tunnel
  beside it), two ports, one restart (the table before it and after it), and one
  operation that begins while another is in progress (`MaxOverlaps`): pairs of
  operations interleave step by step. The two creates of one target are symmetric, and
  so are the ports, of which `Allocate` may choose any; a VIEW leaves out the locals of
  goroutines that have returned.
* `token_*`: `MaxChunks` chunks, two in `token_proxy`, and an error after them (a first
  one, one that finds the channel full, one after it), `MaxQueue` messages waiting for the
  device (guards `Post`; a request is always posted), `MaxDrops` lost connections and
  restarts (a loss and a restart, or two losses). What concurrent requests do to
  each other is not a matter of this run but of the theorems `PiecesOwn` and
  `RepliesStart`.
* `http_proxy`: two connections are one that uses an address and one that uses it
  too, or later; two addresses, so that they need not. Two chunks and an error or
  end (`MaxChunks`) show order and gaps; one message per connection (`MaxPosts`);
  one place in `br.httpResp` (`RespCap`), so that writers wait. The device's connection
  may be lost any number of times. A VIEW leaves out what was received by connections
  that are closed or share their address, which no action reads and no property asks.
* `files`: two transfers (`MaxTransfers`), so that what is left of one meets the
  next; three pieces (`Size`), so that one can be overtaken by two, and empty files.
* `heartbeat`: four steps a second (`Second`), so that a tick can be late by a part
  of its period; silence is counted to 50 steps (`MaxSilence`), beyond the 40 that
  `KilledOnlySilent` compares with.
* `accounts`: two users (an administrator and another), one device, one session,
  two requests. A session lives one unit of time (`TTL`) and the clock runs to 2
  (`MaxTime`): accepted, expired, and swept. The theorems hold for any numbers.

### Fairness

* `Broker`: weak fairness for each arm of the broker **per connection**. A message
  at the head of its channel stays there until served, and Go's `select` picks at
  random among the ready arms, so a ready arm is served; the loops and timers
  are goroutines that the runtime schedules; the device program reads its
  connection. No fairness for peers that connect, send, leave or type `exit`,
  except that a peer whose connection the server has closed notices.
* `Relay`: the broker, and each write loop, whose peer reads what it is sent
  (`BrokerWaitsOnlyFor` is about peers that do); shells read their input, and what
  they have printed is posted.
* `Command`: the handler and the broker; the device may never answer.
* `TokenProxy`: the handler and its timer alone.
* `HttpProxy`: the watcher, and the handler of a connection that is closed, whose
  read fails. Devices and browsers owe nothing.
* `FileTransfer`: the broker's arm, and the handler that reads a closed pipe.
* `Heartbeat`: time passes, a tick is served, and a blocked write returns (to a peer
  that has vanished, with an error in the end).
* `Tunnel` and `Accounts` have no liveness property: what could be said (a cleanup
  comes) restates a timer.

## 4. What the runs found

Two runs end with a counterexample to what a document or comment says;
`PROJECT.json` quotes it.

| Run | Behaviour |
|---|---|
| `broker_ghost` | A device that leaves right after its register message: the broker may serve `unregister` first. The register then enters a dead connection into `br.devices` for good, and every reconnection is an "ID conflict". |
| `token_crash` | A cleanup round that meets a waiting request of an expired tunnel panics on its nil `conn` (`proxy.go:483`) and ends the server. |

The models contain more behaviour that a reader may not expect. It is in the
reachable states of the runs, and the properties name it as the circumstance
under which they do not hold; no run is spent on it.

* **Registry.** With a duplicate identifier the **later** device is refused
  (`RefuseDevice`), while `docs/rtty-client-usage.md:126` says that it replaces the
  earlier one. A user that leaves before the device's answer is served has
  `sid = ""` (`broker.go:159`), so its session stays and its shell goes on.
* **Relay.** What a shell writes to stdout and to stderr reaches the browser in no
  order between the two, and the report of its end may overtake both; then, or when
  `cmd.Wait` closes the pipes, the last output is lost. The login timer and the broker may both pass `Close`'s test: the
  second panics and ends the server; `CrashTakesTimer` says that it takes just
  these two. `BrokerWaitsOnlyFor` names three ways for the broker to be stuck on a
  full channel: the write loop has ended and its `unregister` waits behind the
  broker; the write loop sends its own ping into the full channel that only it
  drains; the broker waits for a device whose read loop waits for a shell, which
  waits for its output to be posted to the broker.
* **Tunnels.** Without `Serial`, `LiveTunnelServed` fails (a renewal that overlaps the
  cleanup of its tunnel takes the listener that the cleanup then closes). It also fails
  for one operation at a time when another process holds the port: a renewal that
  cannot listen answers with an error and a restoration logs it, and the row stays active
  with nobody listening (`refused`). Two creates of one target that both find no row
  make two tunnels (`together`). The
  restoration may delete the row of a tunnel created in the 5 s before it, if its
  device has left since; the listener keeps the port.
* **Token proxy.** The caller gets the first chunk of a response only
  (`TakeResponse`). A request that the device program handles before the message
  that creates its tunnel, or after a restart of the program, goes to the
  default port (`rtty-client/main.go:338`). It may even be queued before that message:
  the row can be used from the `INSERT` on (`tunnel_api.go:165`), and the token is listed,
  while the message is posted later (`early`). `TunnelKnown` says that otherwise the
  port is found. Create and revoke handled in the other order, or a revoke sent while the
  device is offline, leave a tunnel in the program's table.
* **Web and public-port proxy.** Two connections whose address is the same, at the
  same time or one soon after the other, receive each other's answers, and the
  end of one removes the entry of the other (`shared`). An answer gets a gap in the middle
  when the connection to the device is lost and made again while it is written, or when
  one of its chunks reads as tunnel data (`holed`); what follows the gap is delivered.
* **File transfer.** The upload dialog has two messages under way after `fileInfo`,
  each handled in a goroutine of its own. So pieces may be stored in another order than
  the file's, though none overtakes more than one other; and the first piece is refused if
  its goroutine looks for the file before that of `fileInfo` has opened it. An upload that
  was broken off leaves a message that is never acknowledged; a file chosen while one is
  owed makes no promise about the order (`hurried`). A download's request does not return when the session
  ends before the transfer does, and what is left of a download (a `Delete`, a
  cancel) may meet the next one of the session.
* **Heartbeat.** The log says "Inactive 3 times" at the fifth inactive tick. After a
  write that blocked past a tick, the count may be left from an earlier silence,
  and the device is given up after 7.5 s of silence (`stalled`).
* **Accounts.** Sign-ups that overlap before the first account exists may all become
  administrators (`crowded`). A session renewed after it had expired, between the
  sweep's decision and the deletion, is lost (`late`).

## 5. The proofs

TLAPS checks these theorems for all values of the constants, from the module's
assumption alone (`BrokerAssumption`: a connection has one identifier, users and
connections are different things; `TokenProxyAssumption`, `CommandAssumption`,
`AccountsAssumption`: `None` is not among the values it is compared with, bounds are
numbers; `HeartbeatAssumption`: a second has at least one step and silence is
counted beyond two intervals; `RelayAssumption`: users, devices and streams differ, `None` is
neither a client nor a write, channels have room for one; `TunnelAssumption`: a
goroutine is of one kind, `None` is neither a goroutine nor a row nor a port;
`HttpProxyAssumption`: a connection is of one kind, `None` is neither a connection nor
an address; `FileTransferAssumption`: the number of transfers is a number, a file has at
least one piece). No set is assumed finite, except that `OneAdmin` speaks of a
cardinality. `DeviceProofs` proves about two separate modules, `FileTransfer` and
`Heartbeat`, whose `Spec` is therefore called `HeartbeatSpec`. Where a theorem's property is also run, the run shows it on the small
instance.

| Module | Theorem | States |
|---|---|---|
| `BrokerProofs` | `TypeCorrect` | `Spec => []TypeOK` |
| | `RegistrySafe` | `Spec => []RegistryConsistent` |
| | `SessionsSafe` | `Spec => []SessionOnRegistrant` |
| | `RefinesDirectory` | `Spec => ImplementsDirectory` |
| | `RefusedSafe` | `Spec => []RefusedStaysOut` |
| | `LiveSessionsSafe` | `Spec => NoHangUpOnLiveSession` |
| | `ShellsAccounted` | `Spec => []ShellAccounted` |
| `RelayProofs` | `TypeCorrect` | `Spec => []TypeOK` |
| | `CrashesTakeATimer` | `Spec => []CrashTakesTimer` |
| | `RelayedInOrder` | `Spec => []RelayInOrder` |
| `CommandProofs` | `TypeCorrect` | `Spec => []TypeOK` |
| | `OutputEarned` | `Spec => []OutputIsEarned` |
| | `TwoReplies` | `Spec => []TwoRepliesOnlyAtTimeout` |
| | `LateDropped` | `Spec => LateResponseDropped` |
| `TunnelProofs` | `TypeCorrect` | `Spec => []TypeOK` |
| | `StoppedIsForgotten` | `Spec => []NoDeadListener` |
| | `NoSecondTunnel` | `Spec => []OneTunnelPerTarget` |
| | `LiveIsServed` | `Spec => []LiveTunnelServed` |
| `TokenProxyProofs` | `TypeCorrect` | `Spec => []TypeOK` |
| | `WaitingOnly` | `Spec => []OnlyWaitingStreams` |
| | `PiecesOwn` | `Spec => []PiecesOwnHandler` |
| | `TunnelsKnown` | `Spec => []TunnelKnown` |
| | `RepliesStart` | `Spec => []ReplyStartsResponse` |
| `HttpProxyProofs` | `TypeCorrect` | `Spec => []TypeOK` |
| | `EntriesLast` | `Spec => []EntryLastsAsConnection` |
| | `RepliesOwn` | `Spec => []ReplyIsOwn` |
| `DeviceProofs` | `TypeCorrect` | `Spec => []TypeOK`, of `FileTransfer` |
| | `PiecesStoredOnce` | `Spec => []NoPieceTwice` |
| | `UploadsOvertakeOne` | `Spec => []UploadOvertakesOne` |
| | `DownloadsInOrder` | `Spec => []DownloadInOrder` |
| | `HeartbeatTypeCorrect` | `HeartbeatSpec => []HeartbeatTypeOK` |
| | `KilledSilent` | `HeartbeatSpec => []KilledOnlySilent` |
| `AccountsProofs` | `TypeCorrect` | `Spec => []TypeOK` |
| | `SignedOut`, `UsedKept` | `Spec => []SignedOutStaysOut`, `Spec => []UsedSessionKept` |
| | `Swept` | `Spec => SweepLeavesNoneExpired` |
| | `OneAdministrator` | `Spec => []OneAdmin` |
| | `OwnersAreUsers`, `OnlineHaveRows` | `Spec => []BoundToUser`, `Spec => []OnlineHasRow` |
| | `OwnersKept` | `Spec => OwnerKept` |

Each strengthened invariant below was checked with TLC on a small instance
before it was proved; the largest ones, of `HttpProxy`, in full on the run's instance
and to a bounded depth on larger ones.

**Broker.** The inductive invariant is `RegistryInv`: `TypeOK`, `RegistryConsistent`
and `SessionOnRegistrant` together. None of the last two is inductive alone: that
an unregister removes a device's own entry, and no other's, needs the flag to
agree with the table; that it takes along the sessions of the entry needs the
sessions to be on the registrant. Steps that leave `devices`, `registered` and
`sessions` alone are dispatched by one lemma; the rest are one step each.

The refinement needs more: that a session is opened at most once per user. The
broker opens one per register message, so `DirectoryInv` adds `QueuedFresh`: a
user in `registerQ` occurs there once, has posted its register message, and has
had no session. Each broker action then maps to one abstract operation or to a
stutter; `UnregisterDevice` of a registered device maps to a release.

A refused device must not be one that is registered. `RefusedInv` adds to
`DirectoryInv` that a registered connection is not in `registerQ` (`QueuedOut`) and
that a refused one is unregistered with its timer armed, or fired and the
connection closed (`RefusedOut`). `NoHangUpOnLiveSession` needs one fact, `SidKnown`: a
confirmed session's user has its `sid`, so that its unregister finds the session to
end.

`ShellAccounted` says that a running shell has its session, a logout on its way,
or a closed connection. Two things could break it. The device's report of a
shell's end could end the session of another shell of the same user; and the
logout could be read before the login it cancels. `ShellInv` rules out the first:
a login is in one outbox, then a shell, then a report in `logoutQ`, at one place
only (`OneLogin`, `OneShell`) and never two of these (`InTurn`), and there is none
of them before the session is opened (`Untouched`). For the second it says that a
login whose session has ended is followed by its logout in the same outbox
(`LoginAccounted`); what the device reads next then keeps the shell accounted for.

**Relay.** A closer that has passed `Close`'s test of a client that is shut already
will crash the server. `CrashInv` says that then the client's timer has fired: the
broker, which alone closes otherwise, tests a client and shuts it without serving
anything in between, so it finds the flag that it has set itself.

`RelayInOrder` is about what has arrived; `RelayInv` is about everything on its way.
Keys are numbered per user and pieces of output per stream, and each of these is a
`Line`: what has arrived, what the channel of the receiving client holds, the write that the
broker waits with, and what the broker's queue holds. Each of the queues holds an
interval of its numbers, in order (`Holds`). They join up as long as the client
takes what it is sent and the broker finds the session; both end for good (a closed
channel, a peer that has gone, a session that has ended), so a loss is followed by
nothing that arrives.

**Tunnel.** `ListenerInv`: a create opens one listener, and the restoration one per
row, of which no two have one public port (`UniquePorts`), so no goroutine opens a second
one on a port (`ListensOnce`); and one that is about to store its listener has the
port bound (`StoresOwn`). A listener is named after its goroutine; so what is in the
table and no longer holds its port is the listener that was closed, not a later one,
and its closer is about to delete it.

`TwinsInv` carries `OneTunnelPerTarget` through every interleaving: a request that is
between its look-up and its `INSERT` is `together` with every row of its target, since
each of them was inserted after it looked (`Twins`); and no step but an `INSERT` adds a
row or changes its target (`TargetsKept`, `SearchedFirst`).

`LiveTunnelServed` holds for one operation at a time. `SerialInv` says that as long as
operations never overlapped there is at most one under way (`OneAtATime`), that table,
sockets and rows agree when nobody works (`Coherent`, `LiveServed`), and for the one goroutine that works how far
it has come: what it read is still so (`Doing`), what a cleanup has marked but not yet
stopped (`Cleaning`), what the restoration has still to open (`Restoring`). A port may be
refused at any of these points; what is claimed of a row is then void until somebody
listens on its port again. The largest part of the proof is that every step of a lone goroutine leads from one of
these descriptions to the next.

**Command.** One invariant, `RequestInv`, carries the three properties. A command is
in one place at a time (`Route`, with `Once` for each queue): so the device runs it
once, and its one response is still to come as long as no output was written.
An entry outlives its handler only if the output was written (`Entry`): the
handler that times out deletes it, the one that is answered does not. So when
the broker takes a response from its channel, either the entry is gone or its
handler waits, which is `LateResponseDropped`; and what the handler and the broker
write between them (`Written`) is one reply, or the two of a timeout that meets a
response that had been looked up.

**TokenProxy.** `WaitingInv` is `TypeOK` with the property itself: the step in which a
handler stops waiting deletes its stream. `PiecesInv` adds that what a channel
holds is of its own stream. `KnownInv` is about order: the row of a tunnel whose
request was checked exists (`CheckedExists`); of every tunnel that exists the program
has been told, or a message in the queue will tell it, or the handler is about to post it
(`CreatedTold`), and that message is ahead of any request in the queue but those that
were posted before it (`CreateAhead`); revokes in the queue or with
the program are of tunnels that were revoked (`RevokesMeant`); while no connection
was lost the device is online, so that nothing is dropped (`NeverOffline`).

`StartInv` carries `ReplyStartsResponse`. A request is in one place, and nothing of
its response is anywhere before the device program handles it (`AskedOnce`); while its
stream is undisturbed the program is connected (`Connected`). If the handler waits and
nothing was offered to it, then the first of the pieces that are on their way to it,
from the program's goroutine over the connection to the broker's channel, is the first
piece of the response (`FirstOnWay`); once one was offered, the channel or the reply
holds that first piece, because the channel's one place is taken by it and later ones
are dropped (`Offered`, `Answered`).

**HttpProxy.** `EntryInv`: an entry is of a connection that has this address and has
not removed it yet (`Entered`), and a connection that is served has its entry unless it
shares its address (`EntryStays`). What could break the second is another connection
of that address, which overwrites the entry or deletes it; but of two that are under
way with one address both are `shared` (`Apart`).

`AnswerInv` adds the order. Each answer is written by one goroutine, chunks by number,
then an error or the end. What is queued of it rises (`QueueRises`), what was received
rises (`ReceivedRises`) and comes before what is queued (`ReceivedBefore`), and neither is
beyond what has been written (`WrittenSoFar`). While a connection is open, does not
share and has its entry (`Intact`), every chunk that was written of an answer without a
hole is received or queued, and none is queued before those it follows (`WrittenWhole`,
`QueueWhole`); a loss makes a hole of what it takes, and only that. Once it is not
intact, a connection never is again and receives nothing more. `ReplyIsOwn` counts the pieces
received before one; `EarlierCounted` gets the count from the rising numbers without
gaps by a bijection.

**FileTransfer.** The invariants count. A message is on its way in a queue, in another,
or with a goroutine, where nothing orders it; `InFlight(S)` is how many messages of `S`
are, and each step moves some of them on.

`TypeInv` needs such a count, because `owed` must not fall below zero: the messages of
uploads that are in flight, and the acknowledgements on their way back, are no more
than the owed ones (`Awaited`). An acknowledgement that the device answers to nothing
would break it.

`PieceInv`: of a piece, one is in flight or stored (`Copies`), and none as long as it
waits to be sent (`Unsent`), in three ways: the reader holds it, it lies beyond the page's
offset in the chosen file, or its upload is not accepted yet. An upload is accepted
once, as it is offered once (`Invitations`); so the page never returns to a file. The
reader that is busy keeps the piece of another file apart from the offset.

`OvertakeInv` holds as long as the page is not hurried. Of owed messages and the piece
that is about to be sent there are two at most, so when a piece is stored, one earlier
piece of its file at most is in flight (`Overtaken`), and none once it has overtaken one. That
no earlier piece is sent later is `HeadInv`: when the page sends a piece, neither it nor one
that follows it is in flight or stored.

A download depends on order twice. The pipe of the session is replaced when the request
for a download is served, and a piece is written to the pipe there is; so `OrderInv`
says that requests and pieces are in the broker's queue in the order of the downloads
(`Ordered`, `Until`), and that before each piece the pipe is its own, or gone, or will be
its own by a request ahead of it (`Followed`, `Known`). Then a goroutine writes pieces to
the pipe of their own download only. And the goroutines must not overtake each other:
`DownloadInv` says that a download that shares no acknowledgement has one token
(`Tokens`), which is an acknowledgement on its way to the device, a piece on its way to the
broker, or a goroutine that waits at the pipe. What the token stands for is the piece
after those the reader has got (`Going`), or the end after the last; and there is no
token until a request reads the pipe.

**Heartbeat.** While no tick is dropped, one of two things holds (`KillInv`). Either
the device has spoken since the server's last heartbeat (`SpokenSince`); then the
silence is at most `SinceAtMost`, less than seven seconds, because the heartbeat
that is due goes out with the next tick served, and the device is not inactive
when that tick sets the count back. Or the count stands for as many ticks of the
silence that lasts (`CountedSilence`): the first counted tick found more than the
threshold and may have been late by a part of a second, and each further one came
a second later. At the fifth this is more than two intervals.

**Accounts.** Three invariants. `SessionInv` says of a session that is neither
signed out nor late that it expires a lifetime after its last use, and that if it
is out of the cache, or the sweep is about to delete it, it had expired
(`LeaseKept`); and that what had expired when the sweep began is still to be looked
at, or doomed (`ToSweep`). `AdminInv` follows sign-ups through their statements:
before there is an account at most one is under way, or the moment is crowded, and
it knows that it is the first (`OneSignsUp`); afterwards nobody believes to be the
first (`AdminChosen`). `DeviceInv` follows a binding and a registration: a target that
was checked is an account that no statement makes an administrator (`Named`,
`BoundToUser`), and what the registration counted is still so when it acts, unless
the row was deleted meanwhile (`RowKept`, `OnlineHasRow`).

## 6. Limits

**Only model-checked**: the liveness properties (`LoginResolved`, `ConnectionsReaped`,
`HangUpEndsShell`, `BrokerWaitsOnlyFor`, `WaiterAnswered`, `RequestReturns`,
`RevokedConnectionsClose`, `EndedDownloadReturns`, `GoneIsClosed`), which are out of the prover's reach: it has no rules for `ENABLED`, on
which fairness rests.

**Abstractions.**

* In `Broker`, `Close` (test, set, close channel and connection) is one step and
  channels are unbounded. What double closing and blocking do is in `Relay`, which
  begins after the registration.
* The maps that HTTP handlers read while the broker writes them (a data race on
  `br.devices` and `br.sessions`) are read atomically. Go's runtime may also end
  the process when it notices such a race; that outcome is not modelled.
* `AllocatePort` is one step although it probes ports one by one; it is under a
  mutex, and the steps that matter, between it and the `INSERT`, are separate.
* A target stands for device, port and protocol; two targets of one device are
  online independently, which allows more than the code does.
* Payloads, tokens, formats and times are abstract. That a time written without
  a zone is read as UTC is not visible here.
* In `TokenProxy` a tunnel's row is four states (`Tunnel` has the details), and
  a lost connection loses a suffix of what the device wrote and any part of
  what it has not handled.
* In `HttpProxy` a request is one message. A larger one becomes several, each of
  which the device program takes for a request (`http.go:137`): that is plain from
  the code, sequential, and left out. What is lost with the device's connection is the
  end of what the program has written to it; the end and the text of an error cannot be
  read as tunnel data, chunks may be.
* In `FileTransfer` the command on the device that starts a transfer is external.

**Not modelled**

* Database pool: one question (a pool closed by the cleanup between a look-up and
  its use), with one failed statement as its outcome.
* Message codecs: byte layouts, sequential; the models take messages as records.
* SSO (a token from outside), which changes nothing but sets an HTTP session as a
  sign-in does, and the terminal's font size, a setting of the page.
* `sendFile` and the `FileSend` and `FileRecv` arms of the Go client's `handleFile`: this
  server never sends the messages that lead there.
* UI views, configuration, logging and TLS set-up: no protocol state.

## 7. Plan

All modules of the plan are written: `SessionDirectory`, `Broker`, `Command`, `Tunnel`,
`TokenProxy`, `Relay`, `HttpProxy`, `FileTransfer`, `Heartbeat`, `Accounts`. Of the code
that is left, `DbPool` and the codecs could be added, for little.

Every invariant and action property that a run checks and finds to hold is also a
theorem. Worth adding: that `TokenProxy`'s four states of a row, and the `online` of the
other modules, are what `Tunnel` and `Broker` allow, as refinements of small interface
modules.
