# A TLA+ model of livecontainer-kingcard-proxy

The program is a dylib injected into iOS apps (LiveContainer guests).  It hooks
`connect()` with an extended proxychains-ng and, when the "king card" is on,
runs a forwarder inside the app: an HTTP/HTTPS proxy on 127.0.0.1 that relays
the app's traffic to the carrier's Queen proxy nodes with credentials it
fetches itself.  Everything below is about that code, at `src/`.


## 1. Inventory

### Components, their state and their operations

| Component | Source | State | Operations |
|---|---|---|---|
| Local forwarder | `Tweak/Sources/KPKIngCore.c` 1247–3064 | `struct kp_forwarder`: `running`, `listen_fd`, `active_clients`, `client_fds`, `upstream_fds`, `retained_clients` | accept loop, one detached worker per client, start, stop, free, retain, release, shutdown_clients |
| Request routing | `KPKIngCore.c` 1874–2546 | the king state (GUID, token, key), two proxy pools, the rejection flag | route a plain request or a CONNECT over the pool, direct exchange on 822/824, refresh hook, set and clear of the king state |
| Bytes of a tunnel | `KPKIngCore.c` 1634–1860, 2093–2230 | `kp_reader`, the buffers of the pump | read the head, copy a body, early data, 200, pump both ways, half-close |
| Bootstrap permit | `KPKIngCore.c` 1558–1632, 2762–2784; `LCProxyKing.m` 1247–1325 | one lease with a deadline and a password | grant, consume, pending, revoke |
| Plain HTTP client | `KPKIngCore.c` 482–1234, `KPKQueenCore.c` 25–89 | the locals of a call, the thread's bypass of the hook | fetch of GUID and token, login, probe, posts |
| Traffic log | `KPKIngCore.c` 102–195 | a stream and a size per process, the shared file and its backup | open, rotate, write |
| King life cycle | `LCProxyKing.m` 241–600, `LCProxyConfig.m` 533–800 | `self.forwarder`, `desiredForwarderRunning`, `routePublished`, published port; the serial runtime queue | applyConfig, heartbeat, heal, watchdog, publication, retry |
| Route override and reload | `ProxyCore/src/proxy_override.c`, `libproxychains.c` 1187–1223 | the override port, the port applied to the chain | set, get, apply, reload |
| Credential refresh | `LCProxyKing.m` 610–1906 | `refreshing`, timer and retry, cached state, shared credential log, the new identity asked for | refresh, load, publish a state to the forwarder, retry, reset |
| Foreground and network changes | `LCProxyConfig.m` 364–409, 707–900 | `lifecycleState`, `lastPathState`, the path monitor and its timer | notices of iOS, path handler, network timer, forced and plain applies |
| Async relay | `ProxyCore/src/async_proxy.c` | count of workers, registry of peers | connect of a non-blocking socket through a worker and a loopback pair, close_all |
| Admission | the `lc_` parts of `ProxyCore/vendor/proxychains-ng/src/libproxychains.c` | mode, admissions under way, table of direct descriptors | hooks of connect, dup, dup2, close; set_enabled and its sweep |
| The rest | other files of `Tweak/Sources`, `ConsoleApp`, `Resources`, `Tools` | little or none shared | WebKit configuration, HTTP API, console, crypto, statistics, diagnosis, paths, updater |

### How they interact

The app's `connect()` is hooked by proxychains, which lets it go directly when
the proxy is off (admission), hands a non-blocking one to the async relay, and
otherwise connects through its chain, whose first hop is the forwarder: the port
in the override.  The forwarder's workers relay to the Queen nodes of the king
state.  `LCProxyKing` owns the forwarder: the runtime queue of `LCProxyConfig`
calls `applyConfig`, which rebuilds it; a heartbeat and a watchdog heal it
without waiting for that queue; `selfCheck` and `syncFetchGuid` hold it across
network calls by a pin.  The notices of iOS and of the path monitor put the
applies on that queue.  The credential code calls `kp_forwarder_set_king_state`
and `_clear_king_state` while workers read that state, and is called back
through the refresh hook when a worker runs out of nodes.  `syncFetchGuid`
itself goes through the forwarder, by a permit for one direct tunnel; token and
pool are fetched with the plain HTTP client.

### What is hard, and what makes each component correct

- **Forwarder.**  Threads that block on sockets are woken by `shutdown()` of
  descriptors other threads close; numbers are reused by the whole app; stop
  waits for a bounded time and free must leak rather than free under a worker.
  Correct: registries exact, nobody left blocked after the sweep, free only
  when unused, stop returns, a pinned forwarder is not freed.
- **Routing.**  The pool and the credentials change between any two steps of
  the loop.  Correct: no user traffic goes directly unless a node says so, every
  node gets its chance, one answer per request, the loop ends.
- **Tunnel.**  Short reads and writes, data that comes early, two directions
  that end at different times.  Correct: every byte once and in order, the end
  of a direction told behind its last byte, and the thread can always leave.
- **Bootstrap.**  A permit lives while a call waits, and CONNECTs arrive late
  or twice.  Correct: one tunnel per permit, only for the call that waits.
- **HTTP client.**  Seven calls with many ways to fail.  Correct: nothing stays
  open, the bypass of the hook is given back, redirects in a circle end.
- **Traffic log.**  Processes rotate one file by counters of their own.
  Correct: the files stay bounded and in order.
- **King life cycle.**  Three parties create and retire forwarders, with
  `self.lock` around single steps only.  Correct: each forwarder has one owner,
  what is published is what is installed, and the route recovers from failures,
  suspension and changes of mode.  Three locks, two mutexes and the runtime queue
  are taken inside one another, and stop waits for threads that take them.
  Correct: nobody waits in a circle, and every call gives back what it took.
- **Credential refresh.**  Single flight, retries, a rejection that is taken
  note of before the refresh can still fail, a log shared by the apps, a
  process that is killed in between.  Correct: good credentials come back
  whatever fails, and a rejected identity does not stay.
- **Foreground.**  Notices are missed or doubled, monitors fall silent or
  report out of order.  Correct: dead sockets are renewed on return, and
  connections go the way the network asks for.
- **Async relay.**  Correct: the worker limit, exact bookkeeping of
  descriptors through every failure, and only its own descriptors shut down.
- **Admission.**  A direct connect races with the switch back to the proxy, and
  descriptors are duplicated and reused.  Correct: nothing direct is admitted or
  left in the table after the switch, and no proxied connection is cut.

## 2. Modules

| Module | What it is |
|---|---|
| `Forwarder` | threads, descriptors, registries, pins of the forwarder |
| `Lifetime` | abstract: a shared resource, entered while open, freed when empty |
| `ForwarderProofs` | the proofs about `Forwarder`, the refinement of `Lifetime` included |
| `Bootstrap` | the permit for one direct tunnel at cold start |
| `OneShot` | abstract: a grant good for one use, replaced by a newer one |
| `KingLifecycle` | apply, heartbeat, watchdog, chain and publication |
| `KingProofs` | types, ownership, publication and watch, proved |
| `KingLocks` | the order in which calls and client threads take the locks around the forwarder |
| `Routing`, `RoutingProofs` | the loop over the Queen pool, its types and three safety invariants proved |
| `Tunnel` | the bytes of one CONNECT |
| `HttpClient` | the king card's own HTTP requests |
| `Logs` | the traffic log of several processes |
| `AsyncRelay` | the relay of non-blocking connects |
| `Semaphore` | abstract: a bounded number of holders |
| `AsyncRelayProofs` | the proofs about `AsyncRelay`, the refinement of `Semaphore` included |
| `Admission` | the kill switch: direct connects, their table and its sweep |
| `AdmissionProofs` | its types and three safety invariants, proved |
| `Credentials` | the refresh of credentials |
| `Foreground` | notices of iOS and network changes |
| `RecoveryProofs` | the types of `Credentials`, the types and the recovery of `Foreground`, proved |
| `MCForwarder`, `MCKingLifecycle` | instances of one component for TLC |
| `MCSafety`, `MCFlows`, `MCLive` | several components side by side for TLC |
| `SharedProofs` | the proofs about `Bootstrap`, the refinement of `OneShot` included, about `Logs`, and of the types that `MCSafety` checks |
| `FlowProofs` | the proofs about `Tunnel` and `HttpClient`, and of the types that `MCFlows` checks |

Operators introduced by a comment that begins "Variant:" are mutated forms of
the definition that follows; they are used by no specification, only to see
that each property notices a plausible mistake in the code.

### Forwarder

One value stands for each descriptor number.  `owner` says who has it: nobody,
the host app, the accept thread, a worker as its client or upstream socket.
`CloseFd` frees a number at once and `OpenFd` may give it to anybody, the app
included (`ForeignOpen`).  `shut` is the set of open descriptors on which
`shutdown()` has been called; a worker blocked on one of those can move.

- Accept thread, `kp_forwarder_run`: `LoopTop` (the test of `running`),
  `PollAgain` and `Accept` (poll and accept), `OverLimit`/`Reject`, `Register`
  (slot and `client_fds` in one critical section), `Spawn`, `SpawnFails`,
  `AcceptClose`.
- Worker, `kp_client_thread` and `kp_handle_client`: `ReadHead`, `Dial`,
  `DialDone`, `DialFails`, `Track`/`TrackRefused` (`kp_up_open`), `IoDone`,
  `CloseUpstream`, `NoMoreNodes`, `CloseClient`, `Unregister`.  What travels
  through a socket is left out.
- Owner, `kp_forwarder_start`, `_stop`, `_free`: `StartListening`,
  `StartAccepting`, `Attach`/`Detach` (by LCProxyKing), `Stop`, `Join`, `Sweep`,
  `WaitDrained`, `WaitExpires`, in the order of the code.
- Pins: `Retain` and `Release` of selfCheck, `FetchGuidUnpublished` and
  `FetchGuidGivesUp` of syncFetchGuid.

### Bootstrap

`lease`, `nextLease` and `deadline` are the fields of the forwarder, with time
reduced to before and after the deadline (`TimePasses`).  `Arrive` brings a
CONNECT with any password handed out so far or none; `Consume`, `Refuse` and
`Challenge` are the outcomes of the two critical sections of the worker;
`Grant`, `Revoke` and `ClearKingState` are the calls of LCProxyKing.

### KingLifecycle

`apc` walks through `applyRuntimeSnapshotUnsafe` and the `applyConfig` it
calls; each value is a point where another thread can come in.  `tpc` does the
same for `heartbeatTick` and for the watchdog of `refreshCredentials`, which
share the heal.  A forwarder and its port are one value; freed values are used
again.  `kp_forwarder_stop` and `_free` are one step (`Retire`): how they end is
the subject of `Forwarder`.  Waiting applies are a set of kinds rather than a
queue, as two equal ones in a row do what one does.  Whether the override
reaches the chain depends on the file it was parsed from (`conf`).  The settings
of an apply are a snapshot, the network is not: a plain apply asks for the
effective mode at its start, in applyConfig, for the configuration file and at
the publication, and each time king card or off may have become direct or the
reverse (`ModesNow`).

### KingLocks

A call is a path, the sequence of locks it takes and drops, written as the code
nests them: `Holding(l, p)` is `p` with `l` held, `Section(l)` a critical section
with nothing inside that takes a lock, `OneOf` and `Maybe` a choice of the code.
The data that decide such a choice are left out, so every way is possible.
`dispatch_sync` on the runtime queue waits as a lock does.  kp_forwarder_stop is
two sections of client_lock around the wait for client threads and pins (`Drain`),
which they or the grace period end; it runs inside an apply or on the reaper
queue.  `left` is what a thread has still to do, `lockOwner` who has each lock.

### Routing

One worker per client thread.  `count` is the pool at arrival, `attempt` the
index of the loop; `Pick` and `Sign` look at the king state in critical
sections of their own, with the connect between them.  The ends of an exchange
are `NodeFails`, `Rejected` (820, 821, 823), `BadAnswer`, `ToldToLeave` (822,
824) and `Accepted`.  `gen` numbers the king states, 0 being the cleared one;
the contents of a state are left out.  `steady` and `heard` are history
variables that no guard reads.  Locals are reset when a request ends, which
keeps the state space small and says nothing about the code.

### Tunnel

Bytes are numbered units: the head with its separator, what the client sends
behind it, the answer of the server, and unit 0 for "200 Connection
Established".  `stage` walks through `kp_handle_client`: `ReadHead`, `CopyBody`
and `BodyDone`, `DialSucceeds`/`DialFails`, `SendUnit`/`SendFails` (one turn of
`kp_send_all`, which may write any part), `Greeted`, `SendEarly`, `StartPump`,
`PumpReads`, `PumpEof`, `PumpEnds`.  The ends write, finish, close and read, and
stop shuts both sockets down (`Sweep`).  The search for a Content-Length runs over
a buffer whose end has not been written yet, so `stale` is any of a few lengths,
0 when nothing is found.  `BytesArrive` and `NothingBehindFin` claim nothing of
what the node receives when one is found: those bytes are lost, as `EarlyDataKept`
shows.

### HttpClient

A call is a series of tries; `at` is where the current one is: resolve, next
address, connect, perhaps open a tunnel, ask, read, judge the answer.
`attemptNo`, `route` and `hop` are the three nested loops of the code, which
calls use to different depths (`Routes`, `Follows`, `Attempts`).  `bypass` is the
thread-local that makes its own connects pass by the hook.

### Logs

Files are numbered in the order they are made; `current` and `backup` are what
the two names lead to, `stream` is what each process has open.  The lock of a
process makes its own threads atomic, but a rotation (`RotateBegins`,
`RemoveBackup`, `Rename`, `Reopen`) interleaves with those of other processes.

### AsyncRelay

A job is one call of `lcproxy_async_connect_start` with its worker.  `LoadCount`,
`SwapSucceeds`, `SwapFails` and `Full` are the compare-and-swap loop; then come the
pair, the registration, the thread, the socket, the chain and the pump, each with
its failure, and the cleanup in the order of the code.  close_all holds the
registry lock over its loop (`CloseAllBegins`, `CloseAllStep`, `CloseAllEnds`).
`holder` says who has a descriptor number; the app takes and closes numbers too.
In its pump a relay is at its poll or, from `PeerSends` or `UpstreamSends` to
`WriteDone`, inside a blocking write to the other end (`sending`), where it sees
neither the end of the peer nor the idle limit.

### Admission

A descriptor leads to a socket, so that duplicates share one and a number can be
given out again.  The connect hook is `Admit`, `Look`, `TrackSocket`,
`DirectConnect` and `Leave`, or `RouteByChain`; `Duplicate` and `Copy` are dup and
dup2, `Untrack` and `Close` the close hook.  The runtime queue switches by
`SetEnabled`, `Bar`, `Awaited` and `SweepOne`; `ConfigChanged` sweeps too.
`escaped` is a history variable: the sockets the table does not cover.

### Credentials

`step` walks through `refreshCredentialsWithForce` and `apply` through what an
apply does with the state; each value is a point where the other can come in.
An identity is known to the nodes, replaced by a later one, made up in the
process, or absent; a state is good for longer than the lead time, good now, or
not.  `asked` has the refreshes dispatched by the hook, by the user and by
applies.  `Restart` kills the process at any step, `OtherApp` writes to the log,
`Outage` makes the carrier silent, `Console` is
`resetSharedCredentialsAndRefresh`.

### Foreground

`blocks` is the runtime queue.  `NoteBackground`, `NoteForeground` and
`NoteActive` are the notices, `NotePath` and `CheckNetwork` what the path handler
and the network timer put there, `Apply` an apply, in one step.  The handler
reads the path in one step and posts it in another, since it runs on a concurrent
queue.  `Freeze` kills the sockets and may silence the monitor.  `Return` posts
willEnterForeground or, when that is missed, nothing; `BecomeActive` always posts.

## 3. Runs

| Run | Checks | Result |
|---|---|---|
| `safety` | `SharedTypesOK`; forwarder: `SlotsMatchWorkers`, `UpstreamRegistryOwned`, `NobodyLeftBlocked`, `LifetimeSpec`; permit: `PermitHasWaiter`, `SingleUse`, `TunnelForTheWaiter`; kill switch: `TrackedAreCut`, `NoDirectInProxyMode`, `ProxiedSpared`; logs: `LogsRotate`; locks: `NoCircularWait`, of every call but status | hold |
| `forwarder_live` | forwarder: `PinnedNotFreed`, `StopReturns`, `WorkersExit`; foreground: `RecoveredWhenIdle`, `ModeFollowsPath` | hold |
| `king` | `OneOwnerEach`, `PublishedIsInstalled`, with both healers | hold |
| `king_live` | `Recovers`, `OffStops` | hold |
| `flows` | `FlowTypesOK`; routing: `FailsClosed`, `RefusedByAll`, `OneAnswer`, `Answered`; relay: `RelaysAccounted`, `OwnShutdownsOnly`, `RelayLimit`, `SweptRelaysEnd`; tunnel: `BytesArrive`, `NothingBehindFin`, `SweptTunnelEnds`, `TunnelEnds`; HTTP client: `NothingHeld`, `CallReturns`; kill switch: `SwitchReturns` | hold |
| `credentials` | `Recharged`, `DeadReplaced` | hold |
| `forwarder_unpin` | `PinnedNotFreed` with a caller of syncFetchGuid beside a selfCheck | violated |
| `forwarder_fds` | `NoForeignShutdown` | violated |
| `king_freed` | `NoUseAfterFree` | violated |
| `kill_switch` | `KillSwitch` | violated |
| `cred_local` | `LocalIsBrief` | violated |
| `tunnel_stale` | `EarlyDataKept` | violated |

`MCSafety`, `MCFlows` and `MCLive` run components side by side.  These have no
variable in common; `part`, chosen in the initial state, names the one that
moves.  Every behaviour of each is a behaviour of the composition, and an
invariant about one holds of the others in their initial state.  For liveness no
step that fairness asks for is enabled in a component's initial state, so the
parts that do not run make no behaviour unfair.

### What the violations show

Each property quotes a comment of the sources; PROJECT.json gives the lines.

- `forwarder_unpin`: syncFetchGuid releases a pin it never took, and a
  forwarder that selfCheck is using is freed.
- `forwarder_fds`: a worker closes its client socket before it leaves
  `client_fds`; a sweep in between shuts down a socket of the app that has
  got the number.
- `king_freed`: `isRunning` uses `self.forwarder` without the lock, after an
  apply has freed it.
- `kill_switch`: a descriptor duplicated before its direct connect is not
  tracked; when the connected number is closed, the socket lives on and survives
  the switch back to the proxy.  `TrackedAreCut` says what holds instead.
- `cred_local`: a GUID made up at start-up is kept by every later refresh, since
  the nodes close its connections without a code of rejection.
- `tunnel_stale`: a Content-Length that an earlier request has left on the stack,
  behind the header read now, makes the worker take the first bytes of the tunnel
  for a body.

### Met while modelling, without a run

- `status` locks `self.lock` at `LCProxyKing.m` 1961 and again at 1971, around its
  listen probe.  `NSLock` is not re-entrant, as the comment at 1953 says itself, so
  the handler of the console that asks for the status stops there with the lock
  held, and with it everything that needs the lock.  It happens in every call, so
  there is nothing to explore; `safety` has every call but that one.
- "Kill every old-generation relay before rebuilding the forwarder"
  (`LCProxyConfig.m` 572): `lcproxy_async_close_all` shuts down the peer of a relay
  only.  A pump inside `write_all` (`async_proxy.c` 167) to an upstream that has
  stopped reading stays in `send()`, which has no time limit.  `SweptRelaysEnd` says
  what holds instead: every swept relay ends unless its pump is, from some moment
  on, in that write for ever.
- "Kill sockets that were opened directly" (`libproxychains.c` 266): dup2 puts a
  proxied socket on a number the table lists as direct, and `true_dup2` (1370)
  comes before the entry is removed (1371); a sweep in between shuts the proxied
  connection down.  `ProxiedSpared` leaves out this step and the time in which the
  switch is under way.
- "About twice the limit" (`KPKIngCore.c` 105): every process rotates by its own
  count, so a log that several share can grow, backup included, beyond it.
  `LogsRotate` has the bound that holds: for each file, the limit and one line times
  the number of processes.
- "Keep credential bootstrap closed until both layers agree" (`LCProxyConfig.m`
  567–568): an apply finds no forwarder and reloads the chain without an override;
  a heal installs one; the apply then publishes its port (`LCProxyKing.m` 605), which
  the chain does not have yet.  `PublishedIsInstalled` does not compare with the
  chain; that they agree again is part of `Recovers`.
- "Missing or not listening: rebuild the forwarder" (`LCProxyKing.m` 400): the
  heartbeat asks `isRunning` (446), which stays true when iOS has invalidated the
  listening socket.  Such a forwarder is rebuilt when the app comes to the
  foreground (`Recovers`), not before.
- An answer is used although the king state was cleared during the exchange
  (`KPKIngCore.c` 2464); node and credentials are read in two critical sections
  (2060); a POST is sent again to the next node after ten silent seconds (2255).
- The plain HTTP loop does not note a rejection (`KPKIngCore.c` 2262), although
  `KPKIngCore.h` 231 says the flag is set when a node answers with its codes.
- The flag of a reset is lost when that refresh fails (`LCProxyKing.m` 1582); a
  refresh that fails clears the forwarder although the log may hold a usable
  record (1842); a local GUID after a rejection keeps the source of the earlier
  one (1706); other processes with a cache do not read the log again after a
  reset (644–646); the check of the 20 s limit and the dispatch are two steps
  (742–753).
- A truncated answer of the HTTP client is accepted (`KPKIngCore.c` 671); the debug
  ring keeps the first seven lines of a chunk only (92–93).
- Two processes that rotate one after the other discard the older history
  (`KPKIngCore.c` 165); bounds and order hold (`LogsRotate`).
- A direct connect that fails leaves its entry in the table, and a connect through
  the chain does not take it out (`libproxychains.c` 1444, 1449–1570): the sweep
  of a switch under way can cut the second connection of such a socket.
- `validatedProxyPool` accepts hosts of up to 253 characters, and
  `kp_proxy_pool_set` cuts entries at 63 bytes (`KPKIngCore.c` 1882): a node with a
  long name is skipped, or dialled at a port that has lost digits.
- A full table lets a direct connect go untracked (`libproxychains.c` 604), and
  the sweep closes numbers that the app still holds (679).
- `README.md` 8 says a failed health check after a recovery rebuilds again; the
  code asks for a refresh (`LCProxyConfig.m` 732–747).
- Path handlers run on a concurrent queue, so an older path can be posted behind a
  newer one (853–878); a monitor that is restarted after ten seconds corrects it,
  as `ModeFollowsPath` shows.

### Bounds, and why they are enough

- `MaxClients` and the number of workers: 2, so that the limit is reached, one
  worker exits while another starts, and a slot is taken again.  Four
  descriptor numbers let both workers hold a client and compete for upstreams
  and for numbers with the app; the liveness run has two.  `MaxTries`: upstreams
  one request tries.
- `MaxGrants` 3: a permit, its successor, and one late CONNECT of the first
  while the third is granted.
- `MaxEvents` counts suspensions, changes of mode, and failing steps (creation,
  write, reload) together; with 2 in `king_live` a second failure can hit the
  recovery from the first.  Three forwarders in `king` let the apply hold one
  while a heal and LCProxyKing hold one each; `king_live` has one healer and
  two forwarders.
- `MaxPool` 2 has a first and a last node; `MaxChanges` 2 lets the state be
  installed, then replaced by one with another pool or cleared, under one
  request.
- Locks: two callers and one client thread, each with every path, again and
  again: a circle needs two owners, or an owner that stop has to wait for.  Locks
  of one name in two forwarders are one lock, which adds waits and removes none.
- Relay: two jobs where one is allowed, so that they race for the place, and
  three numbers, so that the app can take the one just closed.
- Tunnel: a head of two units (both halves of the separator), two more of the
  client, two of the server; three units wait inbound and one outbound, so that
  reads straddle the head, and writes are short.  With a stale length the server
  sends nothing, which keeps the run small: the length concerns the other
  direction.
- HTTP client: two attempts, three requests in a chain of redirects, two
  addresses: a first and a last of each.  The code allows four requests.
- Admission: two threads; two descriptors for safety, which is what dup2 needs,
  one for liveness; a table of one entry, so that it is full with the second.
- Logs: two processes, three files (the file, its backup and the one that takes
  its place), a limit of one line.  `MaxSize` is beyond what a file can reach, as
  `LogsAssumption` asks of it and `MaxSizeUnreached` proves, so no line waits
  for it.
- `MaxCredEvents` 1: each of outage, restart, reset, change of settings and
  another app's refresh, at any moment of the others' steps.
- `MaxFgEvents` 1: one stay in the background, change of network, or save.
  `MaxBlocks` 2 holds back timers and handlers, never notices or applies.

### Fairness, and why the code justifies it

- Threads that can run do run (weak fairness of the accept thread, of each
  worker's own moves, of the runtime queue, and of the timers' threads).
- A worker blocked on a socket moves only if `shutdown()` has been called on
  it (`Woken`, `PumpWoken`): peers may stay silent for ever.  The accept thread
  never blocks longer than its 500 ms poll, so `Join` is fair; the wait of stop
  has a grace period, so it ends with either outcome.
- `BeatRequests` is strongly fair: `heartbeatTick` holds a request back for at
  most twenty seconds, so a route that stays broken gets one in the end.
- The return of the app is fair in `king_live` and in `Foreground`: users come
  back.
- In `Routing` every step of the loop has a timeout, in `HttpClient` every step
  has; `Finish` of a relay is not fair: it may last for ever.
- `RelayFairness`: a worker's own steps strongly, because other threads can hold
  the lock, or the numbers, it waits for again and again, but not for ever.  Its
  pump is fair once close_all has shut the peer down and while it is not in a
  write to the upstream: then poll returns, a read of the peer ends, a write to it
  fails, and the idle limit is reached (`PumpWoken`).  Nothing is assumed of a
  write to the upstream.
- `TunnelFairness`: the worker only.  `TunnelEnds` says itself what it needs of
  the ends; `SweptTunnelEnds` needs nothing of them.
- `AdmissionFairness`: the runtime queue and threads inside a hook; threads
  outside of one need never call again.
- `CredFairness`: refresh, applies, timer and retry weakly, and an outage ends.
  Dispatched refreshes strongly: a refresh takes seconds and the timer fires
  every two minutes, so it cannot be taken by single flight every time.  For the
  same reason app traffic between two refreshes, and a forced refresh with the
  rejection noted, happen now and then: otherwise the app would use no network.
- `ForegroundFairness`: the queue, the return and the handler's read weakly; the
  handler's post and the network timer strongly, as `MaxBlocks` holds them back
  in the model while the real queue takes them at any time.

The runs of `KingLifecycle`, and `forwarder_live` and `flows`, set
`CHECK_DEADLOCK FALSE`: with the king card off, no event left and nothing to do,
these systems stop, as do a tunnel or a forwarder that has ended.

## 4. Proofs

All theorems hold for every value of the constants that satisfies the
`ASSUME`s of the modules: positive limits, finite sets of workers, a head that
holds its separator, marker values that are not members of the sets they mark,
and a `MaxSize` beyond what the processes that share a log may write to a file.

- **`ForwarderProofs`.**  `Inv` is inductive: the types; every descriptor in
  use is its user's own (`FdInv`); the registries are functions of the workers'
  places (`RegInv`); the owner has done its steps in order (`StopInv`).  The
  last is what makes "after the sweep" meaningful: with `running` false and
  the accept thread joined nothing can enter a registry.  From `Inv` follow
  `TypeCorrect`, `SlotsCorrect`, `UpstreamRegistryCorrect`,
  `NobodyLeftBlockedCorrect`, `FreedUnusedCorrect`, `UpstreamRoomCorrect`,
  `NoLateRegistrationCorrect` and `ImplementsLifetime`, a refinement shown step
  by step.  Pins: the count is the number of pins taken (`PinInv`) as long as no
  syncFetchGuid is about to give up beside a pin of somebody else (`PinsApart`),
  which is exactly what `forwarder_unpin` shows going wrong.  `PinsCorrect` says
  that a behaviour without that meeting never frees a pinned forwarder, with any
  number of callers of selfCheck and syncFetchGuid, those that give up included.
  `RefreshPinsCorrect` needs no assumption on behaviours: with one caller in all,
  which is the instance of `forwarder_live`, the meeting cannot happen.  That one
  refresh runs at a time is what `refreshing` (`LCProxyKing.m` 1499–1519) sees to;
  a selfCheck beside it is not excluded by the code.
- **`KingProofs`.**  `OneOwnerEach` is inductive with the places
  where a local may hold a forwarder (`HeldWhere`): without them an installation
  could meet a forwarder of its own.  `PublishedIsInstalled` needs that the route
  is closed for the whole of an apply, and that the chain is on once the reload
  of a king apply has passed.  `KingTypesCorrect` needs nothing besides the types.
- **`RoutingProofs`.**  `RoutingInv` says where the index stands (`IndexOf`),
  what was heard before, at and beyond it (`HeardOf`), and that no node is
  skipped while the king state stays (`SteadyOf`).  `TypeCorrect`,
  `FailsClosedAlways`, `RefusedByAllAlways` and `OneAnswerAlways` follow.
- **`AsyncRelayProofs`.**  `RelayInv` says that the counter is the number of
  jobs between increment and decrement, that a job and the descriptors it names
  know each other, that the registry is the peers of the jobs registered, and
  that close_all has only registered peers left to do.
  `RelayTypeCorrect`, `RelaysAccountedAlways`, `OwnShutdownsAlways` follow, and
  `RelayLimitAlways`: each step is one of `Semaphore` or a stutter.
- **`AdmissionProofs`.**  What the sweep reaches depends on where each thread is
  in its hook, so `AdmissionInv` says for each hook what can have become of its
  descriptor under it.  Hooks never work on one number (`Apart`), nor connects on
  one socket (`Aimed`, `Alone`, `Unconnected`); a socket without a descriptor has
  no past (`NoTrace`).  `SwitchOrder` is the order of `lcproxy_control_set_enabled`:
  admissions are stopped, then awaited, then the table is emptied.  `FdsCovered`
  says that every descriptor of a direct connection is in the table, up to the
  step dup, dup2 or close has still to take; since the table is locked for one
  step of a dup2 at a time and the sweep closes numbers under the hooks, it needs
  `Tracked`, `TwinsCovered` and `TwinsFollow`.  `ProxiedSpared` needs that a
  connect on its way to the chain has no number of its socket in the table
  (`RoutesSpared`).  `AdmissionTypeCorrect`, `NoDirectInProxyModeHolds`,
  `TrackedAreCutHolds` and `ProxiedSparedHolds` follow.
- **`SharedProofs`.**  Permit: `BootstrapInv` ties the permit to the waiting call
  and the leases to their counter; its types are `BootstrapTypesCorrect`, and
  `SingleUseCorrect` maps a permit ahead of its deadline to a live token of
  `OneShot`.  Log: no process enforces the bound of a file, for each counts what
  the file held when it opened it and its own lines since.  The invariant says
  that some assignment of strokes explains the files (`Marked`): each line is the
  stroke of one process with one count, and a process that has the file open has
  counted beyond its strokes in it, so it makes none twice.  There are as many
  strokes as processes times counts, which is the bound of `LogsRotateHolds`.
  `SharedTypesHold` is the invariant of the run: each part of `MCSpec` implements
  the specification of its component, whose type theorem applies.
- **`FlowProofs`.**  Tunnel: `IsRun(s, m, n)` says that `s` is the units from `m`
  to before `n`, and the lemmas on runs say what reading, sending and joining
  make of them.  `ServerHas` and `ClientHas` say that what an end has read, what
  its kernel holds, and what the worker has for it are runs that go on from one
  another, up to what the worker has taken; each stage hands the last of them to
  the next (reader, chunk, what came with the 200).  With `FinLast`, that an end is
  told only when nothing of the other one is left, follow `BytesArriveHolds` and
  `NothingBehindFinHolds`.  Of the node they speak only when no stale
  Content-Length was found; the invariant itself says in every case which of the
  client's bytes a body has swallowed.  HTTP client: `HttpInv` says at which steps a socket
  and the bypass are held; `NothingHeldHolds` follows.  `FlowTypesHold` is put
  together as `SharedTypesHold` is.
- **`RecoveryProofs`.**  `CredentialTypesCorrect`; a forwarder that is down has no
  king state, which the types include.  `RecoveredWhenIdle` becomes inductive
  with `Away` (while the app is away its background notice is noted or queued,
  with no notice of a return behind it) and `Owed` (while sockets are dead, an
  apply that renews them is queued, or the background notice is, noted or queued,
  and once the app is active its own notice waits behind that).  The queue may
  have any length.

Every invariant, refinement and action property that a passing run checks is
proved, but two.  `PinnedNotFreed` is proved of the instance of `forwarder_live`
(one caller) and of behaviours without the meeting that `forwarder_unpin` shows,
since it does not hold of all; `NoCircularWait` is model-checked only: `KingLocks`
has one path per call.  `WatchedWhileInstalled`, `FreedUnused`, `UpstreamRoom`,
`NoLateRegistration`, the types of `KingLifecycle`, `Foreground` and `Credentials`,
and `MaxSizeUnreached` are proved without a run of their own.  Also only model-checked: the liveness
properties (`StopReturns`, `WorkersExit`, `ModeFollowsPath`, `Recovers`,
`OffStops`, `Answered`, `SweptRelaysEnd`, `SweptTunnelEnds`, `TunnelEnds`,
`CallReturns`, `SwitchReturns`, `Recharged`, `DeadReplaced`), since fairness and
ENABLED are out of the prover's reach.

## 5. Not modelled

- Formatting, parsing, encryption, the carrier's wire formats: conversions
  without state, tested by vectors in the repository.
- WebKit, the HTTP server, the console, statistics, paths, the updater: no
  protocol of their own between steps, or behaviour that is not in the sources.
- Vendored code (proxychains-ng beyond its `lc_` additions, GCDWebServer,
  fishhook).
- Memory order: `running` and the listening descriptor are atomics in the code
  and plain variables in the model.
- Locks are objects in `KingLocks` only, and there without the data they guard; in
  the other modules a critical section is one step.  `KingLocks` leaves out the
  locks of libproxychains and of the relay's registry, with none of its own taken
  under, exceptions thrown while a lock is held, and calls that only read under
  `self.lock` (`ForwarderStats` stands for them).
- A node entry that fails the tests of kp_proxy_pool_pick_index, and the blocking
  connect of kp_connect_with_timeout where fcntl fails: it ends as the other does,
  with the time limit of the kernel.
- In `Admission`: the classes of descriptors, datagrams and the hooks of send,
  local targets.  In `Credentials`: GUID and token given by the settings, the
  choice among several good lines of the log, and its trimming.  In
  `Foreground`: the backoff between recoveries and the health check after one.
- Behind the hazards without a property: a counter incremented without the
  atomic helper (`KPKIngCore.c` 2440), comparisons with a deadline that is
  exactly now (1620), and those under "Met while modelling".

## 6. Plan

All modules planned are there.  What would come next, in this order:

1. The composition of `Credentials` with `Routing` and `KingLifecycle`: the first
   refines `SetKingState`, `ClearKingState` and `RefreshStarts` of the second and
   shares the apply of the third.
2. An abstract pipe for `Tunnel`, two queues that only grow, as the specification
   of what its invariants say; and of `Admission` that it implements a switch
   with no table.
3. The recovery budget, the backoff and the health check of `LCProxyConfig.m`
   as a refinement of the retry in `KingLifecycle`.
