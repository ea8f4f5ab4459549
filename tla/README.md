# Verification of ZetProxy Turbo

TLA+ models of the proxy in `../src`, the instances on which TLC checks them,
and theorems checked by TLAPS. Paths below are relative to `src/`.

## 1. The system

ZetProxy Turbo is a proxy for a phone. `zetproxyd` runs on the phone and serves
clients on three ports; `relay` runs on a public host and lets clients reach a
phone that has no public address. There are no tests in the repository; the
code, its log messages and `README.md` say what is meant.

| Component | Code | State | Operations |
|---|---|---|---|
| Public relay | `cmd/relay/main.go` | `ctrl`, `lastPhone`, `nextID` under `ctrlMu`; `wait`, `connCID` under `waitMu`; one goroutine per connection | `register`, `connect:`, `data:`, SOCKS5 `CONNECT`, `ping` |
| Phone side of the relay | `internal/tunnel/relay.go` | one control connection, `tunnelStop` | register, read `conn:` lines, dial back and pipe |
| SSH tunnel, configuration | `internal/tunnel/sshtun.go` | `tunnelCmd`, `tunnelStop`, `TunnelURL` | start, watch for 3 s, stop; parse `ZETPROXY_TUNNEL` |
| TCP tunnel | `internal/tunnel/tunnel.go` 148-396 | `connSem`, counters, one goroutine per connection | accept or reject, detect protocol, four handlers |
| UDP sessions | `internal/tunnel/tunnel.go` 408-538 | map `sessions` under `mu`, `ConnsActive`, one goroutine per session | receive, create a session, answer, expire |
| SOCKS5 server | `internal/proxy/socks5.go` | `connSem`, counters, `connLog` under `connLogMu` | accept or reject, handshake, dial, relay, log |
| Relay copy | `internal/pool/pool.go` 126-155 | two goroutines, a `WaitGroup` | copy both ways, half-close, count |
| Buffer pool | `internal/pool/pool.go` 1-124 | three `sync.Pool`s, `PoolStats` | get, put, warm up |
| Statistics | `GetStats` in `tunnel.go`, `socks5.go` | counters (atomic), `lastIn`, `lastTime` (under a read lock) | throughput since the last call |
| Dashboard | `internal/dashboard/dashboard.go` | `metrics`, at most 360 | sample each second, JSON handlers |
| Daemon | `cmd/zetproxyd/main.go` | contexts | read the environment, start, shut down |

How they interact. The daemon starts a tunnel `Server` (TCP and UDP), a
`SOCKS5Server` and the dashboard, which reads the statistics of both. Both TCP
services take a buffer pool's `Relay` as one blocking call once a target is
dialled. The phone side keeps one connection to the public relay. A SOCKS5
client of the public relay leaves an entry in `wait`, has a line written to a
phone's control connection, and waits on a channel; the phone dials the relay
again with `data:<key>`, and the handler of that connection looks the entry up
and sends itself over the channel.

What is hard.

* Interleaving: every lookup that is followed by a use outside the lock
  (`ctrl`, `sessions`, `lastPhone`), the two lock-protected halves of a match in
  the relay, the calls deferred by a handler against the accept loop.
* Timeouts racing answers: 60 s in the relay, 2 minutes against 3 minutes for a
  UDP session, the deadlines of the handshakes.
* Failure: about twenty early returns per TCP handler, each with its own set of
  deferred calls; writes whose error nobody reads; lost control connections.
* Limits: the semaphore, the log, the session map.

What makes each component correct.

* Relay: one data connection for one client, of its own key; no handler blocks
  for ever; nothing is left in the registry or the wait map; each request is
  answered; a registered phone can be found.
* Phone side: a registered phone reads its lines; each line is answered by one
  dial and none waits for a relayed connection.
* TCP services: the limit; exact accounting on every path; every socket closed;
  the handshake ends; the log is true; a pooled buffer has one handler and comes
  back; the protocol is that of the client's own bytes although the buffer has
  held those of others.
* UDP: the map leads only to live sessions; the counter counts them and a client
  has one reader, or it is known why not; a session ends when it is idle and only
  then.
* Relay copy: order, completeness, end after data, independent directions,
  termination.
* Statistics and dashboard: rates that add up while nobody races, totals
  between what was counted at their start and at their end, a ring that never
  goes back.
* Daemon: no capacity that panics or closes a service unawares; a signal ends the
  process; what it opened is closed; a half that fails stops the rest.

## 2. The modules

| Module | Models |
|---|---|
| `RelayBroker` | the public relay |
| `Rendezvous` | what the relay promises: matching requests and answers (abstract) |
| `RelayTunnel` | `RelayBroker` with the phone side, and control connections that fill up |
| `UdpSessions` | the UDP half of the tunnel server |
| `LimitedService` | what a listener with a semaphore promises (abstract) |
| `ConnService` | accept loop, semaphore, counters and deferred calls, the same code twice in the source |
| `TcpTunnel`, `Socks5Server` | `ConnService` with the handlers of each service |
| `FirstRead` | `TcpTunnel` with the pooled buffer of the first read, and the detection on its bytes |
| `Relay` | `BufferPool.Relay` and its byte counts |
| `Dashboard` | `GetStats` of both servers, the collector, `/api/stats` |
| `Daemon` | the process: configuration, start, tunnel, failure, signal, shutdown |
| `MC*` | instances for TLC: sets, inputs and symmetries (`Relay`, `Socks5Server` and `Dashboard` are run as they are, their configurations give the constants) |
| `*Proofs` | the theorems about a module; `RelayBrokerProofs` has those of `RelayTunnel`, `TcpTunnelProofs` those of `FirstRead` too |

`RelayBroker` implements `Rendezvous`, and `TcpTunnel` and `Socks5Server`
implement `LimitedService`. `RelayTunnel` and `FirstRead` are compositions: their
steps are steps of `RelayBroker` and of `TcpTunnel`, now taken by the phone's code
and by what is in a buffer, or leave these alone. That they implement them is
true by the way they are written; it carries theorems over and is not a result.

### RelayBroker

A goroutine's point in its function is a value of `wpc` (clients), `ppc`
(control connections) or `dpc` (data connections); its locals are functions on
the connections (`phone` is `phoneID`, `wkey` is `cid` or `id`, `dest` is
`entry`, `dataCh` the channel). A step is what runs between two points where
another goroutine may run: one critical section, one channel operation, one
write. `PickPhone`, `Enqueue`, `LookupCtrl`, `NotifyPhone`, `ReceiveData` or
`Timeout`, and `Forget` are `handleSOCKS5` in order; `Connect` joins the same
path at `LookupCtrl`, ignores the error of the write and does not delete its
entry, as the code does. `Handshake` stands for all reads of the request, which
succeed or return. `DataArrives` lets a phone dial back with any key that was
given out, again or late. `PhoneGone` ends the peer's side of a control
connection; the relay learns of it in `ControlLost`, or when a write fails.
The handler then has two more steps, its critical section (`Unregister`) and the
deferred close (`ClosePhone`), between which others may still look at it.
A write to a control connection that the relay itself has closed always fails;
one to a connection whose peer is gone may succeed.

### Rendezvous

A client asks, its entry may replace that of an earlier one (`connect:` with the
same id), at most one data connection is matched with it, and it is joined only
to that one. In the mapping a client waits while an entry of `wait` leads to
it, is matched when a data handler has taken that entry (`dest`), and joined
when it has received the connection (`link`).

### RelayTunnel

`RelayBroker` lets a phone be any peer. Here its control connection is held by
`StartRelayTunnel` (`apc`, and `reader` for the goroutine of the read loop), and
a data connection is made by `handleRelayTarget` or `handleRelayData`, which
`Spawn` starts for a line (`hpc`, `owner`, `job`). The handler writes its line
(`DialRelay`), the relay reads it and answers (`LineArrives`), and the handler
waits for the answer without a deadline (`GetReady`), which it may never get.
Names of idle handlers are alike, and `Spawn` takes the one that `FreeName` picks.
`seen` counts the lines a
phone has read of those the relay has written (`sent`); `WritesFit` lets a write
return only while fewer than `CtrlBuffer` lines are unread. A line that was under
way when the connection broke may be read or not.

### UdpSessions

`mpc` is the receive loop's point; `Receive` and `Insert` are its two critical
sections of `mu`, `Dial` the code between them. `hpc` is the point of a
session's handler; `Sweep` is one pass of the cleanup under `mu`. Time passes in
ticks: `idle` is the age of `lastActivity`, `clock` the age of the deadline a
handler waits for or of the moment it became runnable. `MaxLag` bounds how many
ticks late a goroutine acts; a suspended process (a phone) makes it large.
`Sweep` may run at any time, so the phase of the ticker does not matter.
`lastActivity` is written without a lock. On 64-bit builds a reader sees a word
old or new, and both orders are steps of the model; a torn `time.Time` on a
32-bit build is wrong by less than a tick. `swept` is history: whom the cleanup
has ended.

### ConnService, TcpTunnel, Socks5Server

`startTCP`/`handleTCP` and `Start`/`handle` have the same skeleton line by line,
which `ConnService` states once. `stage` is the accept loop's point for a
connection up to `admitted`, then that of its goroutine. Every `return` is
`Return`: it jumps to the first deferred call that applies, and the deferred
calls run one after another (`CloseTarget`, `Release`, `CloseClient`,
`Uncount`), because another goroutine may run between them. `TcpTunnel` adds
the detected protocol, which decides who counts a failed dial and who replies;
`Socks5Server` adds `connLog`, and as history who raised `ConnsFailed` (`counted`)
and for whom `Relay` was called (`relayed`). What the bytes of a request say is a choice of
the model: every branch the code can take is taken.

### FirstRead

A cell is two bytes, so that a read can end within a keyword; `content` is what
a buffer of the pool holds, also from before. `GetSmall` gives any buffer that
is not out, as it was left or fresh, since `sync.Pool` may drop any. `Classify`
is the switch of `handleTCP` with its precedence: for `GET` the length is tested,
for the words after `||` it is not. `PutSmall` is one of the deferred calls, and
runs before the slot is given back. What the rest of a SOCKS5 handshake says
remains a choice, as in `TcpTunnel`.

### Relay

Two sides send chunks, end their stream (`eof`, after which they may go on
reading) or break the connection (`reset`). A copying goroutine reads, writes,
which blocks while the destination has no room, and on the end of its source or
the failure of a write closes the writing half of its destination. `bytes` is
what `relayWithStats` adds to `Stats` when `Relay` has returned.

### Dashboard

A step of a caller is one access to a field that others share: `GetStats`
writes `lastIn`, `lastTime` and the rate under a read lock, so collector and
requests may be inside together. Time is in half seconds, the least interval
over which a rate is computed. The fields of the other direction are treated in
the same way next to these. `AddBytes` adds any amount at once, as a relay does
when it is over. `met`, `raced`, `reported` and `low` are history: who has
overlapped, what has been reported so far, what was counted at the start.

### Daemon

A server is its listening socket; `stored` says whether `Stop` could find it in
its field. `main`, `starter` (the goroutine of `tun.Start`), the servers, `stop`
(the goroutine of the shutdown), `tg` (that of the ssh tunnel) and `killer` are the
points of goroutines; `errCh` and `sig` are the lengths of channels. Integers of a
capacity wrap at `Wrap`, which stands for 2^32. ssh may end at any time, with
either status, and a signal may come at any time and any number of times.

## 3. What TLC checks

Passing runs:

| Run | Instance | Shows |
|---|---|---|
| `broker_socks` | 2 SOCKS5 clients, 2 phones, 2 data connections | one data connection for one client; the send on the channel never blocks; joined by key; the registry and the wait map leak nothing; refinement of `Rendezvous` |
| `tunnel` | 1 SOCKS5 and 1 `connect:` client, 1 phone, 2 data connections, 1 unread line, fair | with the phone's code: a registered phone listens, one dial for a request; both clients are answered, lines served although no handler on the phone need ever move, data handlers return, lost phones leave the registry |
| `udp` | 1 address, 3 sessions, a tick of a minute and a lag of one, fair | although cleanup and handler end the same session: the map leads only to open sessions and no insertion replaces one; the counter is wrong exactly by the sessions that both counted down; a second reader for a client comes only from a swept session's handler; a session whose target is silent ends |
| `tcp` | 3 connections, 2 slots, 2 buffers, 6 first reads, fair | closed sockets; detection by the client's own bytes; stale bytes are never dialled; what is sent on is the client's own; a buffer has one owner and comes back; a stalled handshake gives its slot back |
| `socks` | 3 connections, 2 slots, log of 2 | accounting; the log agrees with the counter of failures and with who was relayed; refinement of `LimitedService` |
| `relay` | 2 chunks each way, window 1, fair | order, end after data, independent directions; ends cross and the call returns |
| `stats` | collector and 1 request, 2 bytes, 4 half seconds, ring of 1 | rates are exact while updates do not overlap, and negative only when they do; a total lies between what was counted at the start of its call and what is counted when it is read; the ring never goes back |
| `daemon` | 7 environments, any number of signals, fair | capacities; what is open after a graceful exit; a signal ends the process; a failure or a cancelled context closes every server |

Every type invariant is proved; those of `RelayTunnel`, which contains that of
`RelayBroker`, and of `Daemon` are also checked in a run. The runs that check
liveness have no symmetry.

Bounds. Every hazard of the relay is between two goroutines of a kind and one of
another, so two of each let each of them happen: two data connections for one
key, two phones of which the newer leaves, two clients that draw a key. That one
`connect:` client replaces the entry of another needs two of them, which no
instance here has; the theorems on the matching cover it. `MaxId` and `MaxCid`
equal the number of actors that draw a number. `CtrlBuffer` is 1, so that the
second line already blocks its writer. In `UdpSessions` the limits are the
code's, 2 and 3 minutes (`udp_expiry` has ticks of 30 s). With a tick and a lag
of a minute the cleanup meets sessions whose handlers are late; three sessions
for one address are what it takes for such a handler to delete the entry of a
second one and a third to be made beside it. What a second address could add is
covered by the theorems, which are for any addresses. Three connections for two
slots reach the full semaphore while one handler leaves, and for two buffers
make the third read into one that was used; the six first reads are one of each
protocol and such that end within a keyword. A log of two entries overflows with
three. In `Relay` a window of one chunk makes a second chunk block, and two
chunks tell order and loss apart. In `Dashboard` one request is enough for an
overlap, four half seconds for two samples and a request between them, and two
bytes, which a server may add at once, for a counter that jumps and one that is
taken twice. In `Daemon` a capacity has 3 bits for its 32 and the default is 3;
the values -1, 0, 1, 3, 4, 8 and 11 are each class of what the conversion does.
Signals have no bound: a state remembers only that one was sent.

Fairness. A goroutine that can run does run, timers and deadlines fire, and a
read on a broken connection returns. Nothing is assumed of clients, phones,
targets, signals, ssh and the network: a client need not send, a phone need not
dial back, a relay need not end. The lines written to a control connection have
no deadline in the code: in `RelayTunnel` a write that does not fit need not
return, and what is shown to be answered is so because the phone reads its
lines. The handlers that it starts for them need do nothing at all, since their
wait for `ready` has no deadline. The one write of the http handler to its
target has none either; it is taken to return because it is shorter than a fresh
socket's buffer.

Runs that are violated, because the code does something else than a document or a
message says:

| Run | What happens |
|---|---|
| `broker_piped` | `handle` returns when it has handed a data connection on, and the deferred `conn.Close()` closes it under the pipe: a client is told that it is connected and gets nothing |
| `broker_refused` | phone 1 and phone 2 register, phone 2 leaves: `lastPhone` is empty and clients are refused although phone 1 is there |
| `udp_expiry` | a session ends two minutes after the last answer, whatever the client sends |
| `daemon_total` | `ZETPROXY_MAX_CONNS` is "total across all services" (`README.md:220`), but the tunnel gets all of it and SOCKS5 another half |

The first two keep the relay from working as described. Further differences are
visible in the models and have no run of their own.

Relay and phone:

* A client's `conn:` line may overtake the `id:` line (`cmd/relay/main.go:98` and
  101); the phone then gives up (`relay.go:54`). `RegisteredPhonesListen` holds
  because it also closes the connection.
* When the control connection is lost nobody registers again, and the tunnel URL
  stays set (`relay.go:67`).
* A phone dials the target of a request whose client is gone, and a SOCKS5 client
  is told of success before the target is dialled.

TCP and SOCKS5 services:

* Between `Release` and `Uncount`, `ConnsActive` may exceed `maxConns`
  ("Configurable max concurrent connections", `README.md:25`).
* The raw handler can never connect: the address it dials begins with the two
  zero bytes by which it was chosen (`tunnel.go:234`).
* A first read of less than 4 bytes is taken for an HTTP request if an earlier
  one is behind it in the buffer, and then is not counted as failed.
* IPv6 targets are dialled without brackets, and a reply for an IPv6 local
  address has the length of one for IPv4.
* A client that leaves before the reply is not logged although its target was
  dialled (`socks5.go:313`; "Track all SOCKS5 connections", `README.md:28`).
* Bytes are counted when a relay is over (`tunnel.go:393`; "Live throughput
  charts", `README.md:24`).

UDP:

* A session that the cleanup has expired is counted down a second time by its
  handler (`tunnel.go:439` and 531), and `ConnsActive` stays too low for good:
  `ActiveDrift` says by how much. The same handler deletes `sessions[key]`
  (`tunnel.go:528`) although it may be the entry of a newer session, after which a
  client has two sockets that read: `OneReaderUnlessSwept` says that nothing else
  leads there. Both need goroutines that are late, two of them together by more than a
  minute, as on a suspended phone.

Daemon and dashboard:

* `/api/config` always says 4096.
* A limit of 2^31 or more becomes negative, and the process panics, or becomes
  another number; a multiple of 2^32 admits nobody, and 1 closes SOCKS5.
* When one half of the tunnel server cannot listen, all servers are closed, but
  `main` waits for its signal and the tunnel stays up.
* An ssh that is started when the shutdown comes in its first 3 s is left behind;
  one that ends with status 0 in these 3 s is taken for a tunnel. The URL is
  never unset.

## 4. What is proved

For all values of the constants that satisfy the named assumptions
(`BrokerAssumption`, `UdpAssumption`, `ServiceAssumption`, `LogAssumption`,
`FirstReadAssumption`, `RelayAssumption`, `DashboardAssumption`,
`DaemonAssumption`: the sets are finite where they are counted, the sentinels are
not members, and `Wrap` is even and at least twice the default):

* `RelayBrokerProofs`: types, registry, one-to-one matching, no blocking send, no
  entry left behind, pairing by key. `TypeOK` needs `Assigned`: a local is read
  only at points after its assignment. The registry needs to know that a
  control connection is in `ctrl` under its own id exactly until it is
  unregistered. The matching rests on `MatchInv`: an entry belongs to a client
  that still waits for it (`EntryOwned`); once a data handler holds an entry,
  no map entry leads to that client (`MatchedGone`); a channel or a link holds
  only a connection meant for that client (`HandedOn`). From it a second data
  connection can never find the same client, and the channel of a client whose
  entry is held is empty; and each step is a step of `Rendezvous` or none.
  `LineInv` is about the lines that are written: that of a SOCKS5 client only
  once (`ToldOnce`), because the client of a line that is there is past the one
  point that writes it (`Told`), and the id only once (`IdOnce`).
* `RelayTunnel`, in the same module: each of its steps is a step of `RelayBroker` or
  none (`TunnelImplementsRelay`), so all of the above holds with the phone side.
  `AgentInv` relates a phone's goroutines to the relay's: the read loop runs only
  after the id was the first line (`AgentPoints`), so by `IdOnce` each further
  line is a key and a handler always gets one; a phone that gives up has closed
  its connection, which is `RegisteredPhonesListen`. `OneDialPerRequest` needs
  that a handler works for a line its phone has read (`Origin`): the line read
  now, written once by `ToldOnce`, cannot be the line of an earlier handler.
  `LinesTaken`, the safety half of `LinesServed`, says that none was skipped.
* `UdpSessionsProofs`: types and the four invariants of `udp` for any lag.
  `LateInv` says that a socket is open while its handler lives and was not swept,
  and that a living session is in the map unless its key was taken by a handler
  that was swept before (`TakenKeys`); a sweep closes as many sockets as it counts
  down because the map leads to each from one address (`EachOnce`).
  That the counter is exact and that there is one reader is false in general and
  proved under `Prompt == ReadTimeout + 2*MaxLag <= IdleLimit` (`SoundWhenPrompt`):
  then no entry is ever old enough for the cleanup (`NothingExpires`), because a
  handler meets its own deadline first, so nobody is swept. With the code's
  numbers that is a lag of up to 30 s.
* `ConnServiceProofs`: lemmas on the shared steps, for any set of connections and
  any limit. The invariant is `ServiceInv`: types, `Accounting` and `Tidy`; each
  step that moves a counter moves one connection into or out of the set it
  counts.
* `TcpTunnelProofs` and `Socks5ServerProofs`: types, `Accounting`,
  `NothingLeftOpen`, and that the service implements `LimitedService`. Every
  handler step is shown to be `Handled`: it moves its connection between two
  stages that hold a slot and touches nothing shared. `LogFaithful` follows from
  `LogInv`: the log after an entry is the end of the longer one (`LogCut`), so
  its old entries are those of connections that are over, whose history no step
  changes any more (`StaysPast`), and the new one is true when it is written
  (`EntryTrue`). `HistoryTrue` ties the history to the stages: only a handler on
  its way out has counted its connection, and none has both counted and relayed it.
* `FirstRead`, in `TcpTunnelProofs`: the detection, whose bytes are dialled and sent
  on, and that buffers come back, for any buffers and any first reads. The
  invariant is that the buffers out of the pool are those in use, each with one
  owner (`Owned`) whose bytes are at its front (`OwnFront`), and that a handler which goes on after the switch has
  taken its client for what its own bytes say (`Classified`). For less than 4
  bytes that needs the handler's first test: no host, no dial.
* `RelayProofs`: types, `InOrder`, `EndAfterAll`, `DirectionsIndependent`, for any
  number of chunks and any window. A goroutine holds at most one chunk
  (`Progress`), and when it has stopped there is a reason for it (`Reason`) which
  no later step takes away.
* `DashboardProofs`: types and the four properties of `stats`, for any number of
  requests and any bounds. `Marked` says that an update which overlaps another is
  known to; while a server has not been raced at most one caller updates it, and
  what that one remembers is what was published (`Chain`), which gives both the
  partition and the sign (`Signed`). `Bracket` bounds a total by what was counted
  at the start and is counted now, which is all that can be said of a sum over two
  counters that jump, and `RingInv` orders the collector's own samples.

* `DaemonProofs`: types, `CapacitySound`, `GracefulMeansClosed`, for any
  environment, any number of signals and any even `Wrap`. The lemma `Converted`
  says what the conversion does to every integer: it keeps what fits, and what it
  makes of the rest is the remainder when it is not negative. A graceful end
  closes what Stop found because Stop has gone past a server only after it closed
  it or found no socket (`Stopped`, `Killed`), and because everything is started
  once (`Started`), so that what is closed is never made again. `errCh` never
  holds more than the servers that failed (`Errors`): its two slots suffice, and
  no goroutine hangs in the send. `StaysClosed` is the safety half of
  `FailureCloses`.

All invariants and the action properties that the passing runs check are proved.
Only model-checked is liveness, which is outside the prover's reach, as is
`ENABLED`: `RequestsAnswered`, `DataHandlersReturn`, `GonePhonesForgotten`,
`LinesServed`, `SilentSessionsEnd`, `HandshakesEnd`, `EndsCross`,
`ExitsAfterSignal`, `FailureCloses`. What a recursive definition computes for
every input cannot be proved either; none is used.

## 5. What is not modelled

* Panics and their recovery in handlers: no statement of the modelled handlers
  can panic on the states the models reach, so the recovering deferred functions
  do not run. The panic of `make(chan, n)` for a negative n is in `Daemon`.
* The bytes of a handshake after the first read: the greeting's methods, the
  address, the length of the reply.
* `connect:` with an id that is not a phone's; handshakes at the shutdown, since
  `Stop` does not wait for handlers.
* The buffer pool's medium and large tiers, warm-up and `PoolStats`: their users
  never look at a byte they have not read, and nothing depends on the counts. As
  it is written, warm-up puts back each buffer before it takes the next, so that
  it leaves about one a tier, and `Reused` counts every `Get`.
* The memory figures and the formatting of the JSON handlers, the HTML page, the
  parsing of `ZETPROXY_TUNNEL` (its four results are inputs of `Daemon`), finding
  and printing addresses.

## 6. What is left

* `Daemon` and `RelayTunnel` could be joined: what a stopped process leaves
  in the relay's registry until its connection breaks.
* Two `connect:` clients in `RelayTunnel`, whose state space needs a coarser
  phone.
