# plato: a TLA+ model of the instant messaging server

This directory models [plato](../src), a Go instant messaging server, in TLA+:
modules translated from the source, TLC configurations that check them on small
instances, and proofs that TLAPS checks for every value of the constants.
`PROJECT.json` says which lines of the source each definition stands for.

## 1. The system

    client (common/sdk)
       |  TCP, length-prefixed packets (common/tcp)
    gateway  -- accept, epoll, worker pool, connection IDs
       |  gRPC: SendMsg, CancelConn          ^  gRPC: Push, DelConn
    state server  -- sessions, timers, downlink retries
       |  Redis: login slots, routes, max client IDs, last messages

    ipconf    -- tells clients which gateway to use, from the loads in etcd
    prpc      -- gRPC wrapper with discovery on etcd
    bizflow   -- DAG execution engine for business services
    user      -- user domain service: gorm + cache

| Component | State it keeps | Operations | Hard behaviour | What makes it correct |
|---|---|---|---|---|
| State server (`state/`) | table connID -> `connState` (did, three timers, lock), CmdChannel; in Redis the login slots, routes, client ID counters, last messages | login, reconnect, heartbeat, uplink message, ACK, cancel; timer callbacks (heart, reconnect, retry); recovery of the table | one handler goroutine against many timer and recovery goroutines, multi-command updates of Redis without transactions, panics and crashes in the middle, late and lost RPCs | a silent client is logged out; an unacknowledged message is pushed again; memory, slots and routes agree; nothing counted is lost |
| Redis access, routes (`common/cache`, `common/router`) | Redis keys | SADD, SREM, KEYS, DEL, GET, SET, the compare-and-increment script, route records | atomicity of the script | a client ID is counted once |
| Delay queue (`common/timingwheel/delayqueue.go`) | heap, flag `sleeping`, `wakeupC` | Offer, Poll | flag and channel handshake without a lock, timeout racing a wakeup, worker that both receives from and calls into the queue | no lost wakeup, no stuck Offer, expired items handed over once and in order |
| Timing wheel (`common/timingwheel`) | wheels, buckets, current time | AfterFunc, Stop, advanceClock, Flush | Stop racing Flush, bucket reuse, clock jumps | a timer fires once, not early, not after a successful Stop |
| Gateway (`gateway/`) | connection tables, fd table, `tcpNum`, epoll sets, worker pool, CmdChannel | accept, read, close, Push, DelConn | fd reuse, captured loop variable, counter limits, overtaking packets | a push reaches its own connection; the connection limit holds |
| Connection IDs (`gateway/connection.go`) | 16 bit sequence, last timestamp | NextID | overflow within a millisecond, clock steps, several gateways | IDs are never repeated by a running gateway |
| TCP framing (`common/tcp`) | stream position | ReadData, SendData, Marshal, Unmarshal | partial reads and writes | packets arrive whole |
| Client SDK (`common/sdk`) | connID, client IDs, connection | login, send, ACK, heartbeat, reconnect | reconnect while messages are under way | client and server number texts alike; what the server took is shown |
| bizflow (`common/bizflow`) | DAG, per-run channels and counters | AddNode, Run | captured loop variables, closed channels, a pool smaller than the graph | a node runs after its predecessors, a run ends |
| prpc discovery (`common/prpc`) | registered services, leases, cached service lists | Register, UnRegister, GetService, watch | lease loss, stale caches, reads racing watches | a resolver's list converges to the registered one |
| ipconf (`ipconf/`, `common/discovery`) | candidate table, load windows | event handling, Dispatch | snapshot against watch, table shared between goroutines | every report counts once, requests are answered |
| user (`domain/user`) | rows, local and remote cache | Query, Create, Update | cache and database disagreeing, deferred commit, deadlocks | reads return what was committed, an error changed nothing |

`PROJECT.json` lists all components, also those that are not modelled
(configuration, logging, command line, terminal client, load generator: no state
worth checking, or pure I/O), and under `hazards` what can go wrong in each at
which line.

## 2. Modules

| Module | Models | Relies on |
|---|---|---|
| `StateServer` | sessions, timers, messages, recovery of the state server, with the Redis commands and RPCs it uses | a timer fires at most once, and not after a Stop that came in time |
| `DelayQueue`, `AbstractDelayQueue` | Offer and Poll; what they promise | |
| `TimingWheel` | wheels, buckets, Stop, Flush | what `AbstractDelayQueue` promises |
| `Gateway` | connection IDs, accept, epoll, pool, commands, both RPC directions | the state server as a queue with one handler |
| `Sdk` | the client library as the terminal client uses it | the state server as far as a client sees it |
| `Bizflow` | graph engine | the pool runs what it is given |
| `PrpcDiscov` | registration and discovery on etcd | etcd: keys, event log, leases |
| `IpConf` | load reports and ranking of gateways | etcd, as above |
| `UserStorage` | user queries, creations, updates | database: atomic statements, row locks, deadlock detection |

Every module has a type invariant `TypeOK`. That of `StateServer` is checked by a
run; those of `StateServer`, `DelayQueue`, `TimingWheel` and `Gateway` are proved;
the others document the variables and no run lists them. The modules
`...Proofs` hold the theorems (section 12): every module but `IpConf` has one.

The modules compose through assumptions rather than by INSTANCE: each module
models its neighbours by what it sees of them, and the neighbour's own module
shows that and more. `StateServer` takes commands in any order because `Gateway`
forwards packets from a pool; `Sdk` contains the numbering and last message of
`StateServer` and the reordering of `Gateway`; `TimingWheel` takes from
`AbstractDelayQueue` that each bucket is handed over once and not early, which
`DelayQueue` is proved to implement.

What is left: an abstract timer refined by `TimingWheel`; and an end-to-end
composition of `Sdk`, `Gateway` and `StateServer`, whose state space is beyond TLC
at the grain of the present modules.

## 3. StateServer

### State and code

| Variable | Code |
|---|---|
| `loginSlot`, `route`, `maxClientID`, `lastMsg` | the Redis keys of `common/cache/cosnt.go` and `common/router/table.go` |
| `table`, `state` | `cs.connToStateTable` and the `connState` objects it points to; objects have identities, because goroutines keep pointers to objects that are no longer in the table |
| `pc`, `ref`, `req` | `cmdHandler`, the object it loaded, its command; and, for each object, the callback of its `reConnTimer` |
| `heartGo`, `rePushPc`, `rePushRef` | callbacks of `heartTimer` and `msgTimer` that have started |
| `recPc`, `recTodo`, `recRef` | `initLoginSlot`, one goroutine per slot |
| `opened`, `loginAck`, `pushed`, `delConn`, `quiet` | what gateway and clients have seen |
| `torn`, `unrouted` | history: closes that an error or a crash cut short; connections whose close deleted the route of their device after the last login under it |

A Redis command is one step, and so is what a goroutine does in memory between
two of them. The mutex of a `connState` is held across the steps of `close` and
`appendMsg` (`Locked`), and within one step elsewhere. Login is `LoginSADD`,
`LoginAddRecord`, `LoginStore`; close is `CloseStart` (stop the timers, SREM)
to `CloseFinish` (DelConn, removal from the table) with `CloseError` for a
failing command in between; an uplink message is `CompareAndIncr`, `PushMsg`,
`AppendArm`, `AppendSetBytes`; a timer is `...Fires` followed by its callback.
`Crash` may come at any step and also stands for the panics on Redis errors;
`PushPanics` and `ReConnPanics` are the two panics with a cause of their own.
`Start` runs the recovery, concurrently with the handler.

Abstractions:

- The CmdChannel is not a variable. The gateway forwards each packet from a pool
  worker of its own and nobody waits for a command to be handled, so commands
  arrive in any order, late, twice or never in any case; the handler receives
  any command that may have been sent.
- One session per connection: the session ID in the keys of `maxClientID` is
  constant, and `cs.msgID` is never assigned in the code, so every push and ACK
  carries the pair `0_0`.
- The 7 day TTLs do not expire (the script's `expire` even gets nanoseconds).
  `QueryRecord` has no caller and is left out.
- Time is not measured: an armed timer may fire at any moment, also that of a
  client that heartbeats. A Stop that misses a timer which Flush is moving
  (`bucket.go:42-51`, section 5) is a timer that has fired and whose callback comes
  late. One timing fact remains. `RedisFast`: no timer fires while the handler is
  between two Redis commands of one login or append, that is, Redis answers within
  5 s and 100 ms.
- `MaxCallbacks` bounds the callbacks of one kind of timer under way at a time,
  `MaxTimeouts` those of heartTimer and reConnTimer together. With one object 1 and
  2 are no restriction; the theorems hold for all values.

### Runs

`MCStateServer` adds the symmetry of object identities, used where no liveness is
checked.

| Run | Instance | Checks |
|---|---|---|
| `Sessions` | 2 connections, 1 device, 2 objects, failing Redis commands, a callback of each kind of timer at a time; the only crash is the panic of a failed reconnect | `TypeOK`, `EveryConnIsWatched`, `RouteIsOwned`, `NoSilentLogOut`, `RouteLostOnlyByLogOut`, `LogOutForgets` |
| `Messages` | 1 connection, client IDs 0 and 1, 2 objects, 1 crash, at a time one retry and one heart or reconnect callback | `UnackedIsRetried`, `CountedIsPushed`, `SlotsAreServed` |
| `Gone` | 1 connection whose client may leave, 1 message, 1 object, 1 crash, fairness | `GoneIsLoggedOut` |

Why the bounds are enough: the races are between at most two connections of one
device (old and new), two objects of one connection (a login and the recovery),
the handler, the recovery and one callback of each kind of timer (two logouts
that race are one by a callback and one by the handler); two messages are needed for
a newer one to replace an older one; one crash is enough to meet every intermediate
state of Redis, and the recovery starts from each of them. `CHECK_DEADLOCK FALSE` in
`Gone`: the only client may be gone, and then the server has nothing to do.

Fairness (`FairSpec`) says that the Go scheduler runs each goroutine, Redis
answers, a timer that nobody resets expires, and the process is restarted. It
says nothing of clients or the gateway: `GoneIsLoggedOut` holds without any
CancelConn.

### What the code does not do

Run `VAckLatest` violates what a document of the repository says (the finding in
`PROJECT.json`): an ACK of an older push deletes the newer message, since all
pushes carry the same MsgID.

Further behaviour that a reader of the documents would not expect, and that the
properties exempt explicitly:

- A ReConn after the logout of the old connection logs in under device 0
  (`cache.go:113`; `docs/learning/phase3/03-state.md:185` says the old did is kept).
- The logout of a device's old connection deletes the route of its new one
  (`state.go:63`). `RouteLostOnlyByLogOut` says that this is the only way: a logged-in
  device without a route has had another connection of the same device closed after
  its last login (`unrouted`, which a login empties for its device).
- Without `RedisFast` the 100 ms retry timer fires before the message is stored,
  finds nothing, and nobody retries the message (`state.go:92`).
- A crash between counting a client ID and pushing loses the message
  (`server.go:135`; the comment below it wants the opposite order).
- A client that heartbeats may be logged out, in four ways at least: the recovery
  replaces an object that a login has just stored, and the timers of the replaced
  object run on (`cache.go:93`); a heartbeat that comes after the heart timer has
  fired leaves the reconnect timer running (`state.go:128`); Stop misses a timer
  that Flush is moving; a cmdHandler blocked in a Push delays all heartbeats. No
  property forbids it.

## 4. DelayQueue

`DelayQueue` takes what a goroutine does under `dq.mu`, one atomic operation or
one channel rendezvous as a step. Offer is `Offer` (push) and `OfferCAS`, then a
send on `wakeupC` (`offerPc = "send"`); Poll is `ReadNow`, `PeekAndShift` with
the store to `sleeping`, and then one of `Wakeup`, `TimerFires` (with the swap),
`SendC`, `PollExit`. The worker of the wheel is part of the model because it is
both the receiver of `C` and a caller of Offer. The heap is the set it holds:
its root is some item of least priority (`Root`), and a pushed item gets index 0
exactly when it is strictly below all others (`IsFirst`).

`AbstractDelayQueue` says what the comment at `delayqueue.go:85` promises, and
that every expired item is handed over until the wheel is stopped. The
refinement mapping is `pending <- pq`, `head <- pollItem`: an item leaves the
queue when PeekAndShift shifts it.

Run `Queue` (3 items, 2 callers and the worker, times 0 to 2) checks
`WakeupHandshake`, `NoLostWakeup`, and under fairness `OfferReturns` and
`Implements` (the abstract specification with its liveness). Three items let two
callers race for the flag while a third item expires. Fairness: goroutines run
and time passes; nobody has to call Offer or Stop. `CHECK_DEADLOCK FALSE`: when
all items are handed over, or the wheel is stopped, nothing is left to do. After
Stop a caller that won the flag may wait for ever; `OfferReturns` is stated up
to Stop.

The clock does not step back in the model; `time.Now` may, and then Poll only
hands items over later.

## 5. TimingWheel

A timer is in at most one bucket (`bucketOf`), a wheel is a level, `clock` its
currentTime, `top` the number of wheels created so far. `add` is `AddLoad` (read
the clock, choose run, bucket or overflow), `AddOverflow`, `BucketAdd`,
`SetExpiration` and `Offer`, one step each, because it holds no lock across them;
callers, tasks of scheduled timers and the worker all run it. Timer.Stop is
`StopRead` and `StopRemove`, in the loop of the code. The worker is `Receive`,
`ReadExpiration`, `advanceClock` wheel by wheel, `FlushNext`/`FlushBack` per timer
under the bucket's mutex, and `FlushEnd`.

Run `Wheel`: two wheels of two buckets with ticks 1 and 2, two timers (one stopped,
one rescheduled once), times 0 to 3: a delay of 2 goes through the overflow wheel
and cascades, and expirations 1 and 3 share a bucket. `NoTimerStranded` is about
the unlocked hand-over between add and Flush, `StopIsFinal` about Stop, `NotEarly`
and `NoRelock` about the clock; `EveryTimerRuns` is the liveness. Fairness: the
goroutines run and time passes.

Observed: Stop may return false while the worker moves the timer between wheels,
and the timer then runs (the comment at `bucket.go:34` reads false as expired or
stopped). A goroutine that sleeps inside add for longer than its timer's delay
(`overtaken`) can make a timer fire early, and can make Flush reinsert into the
bucket it has locked; with the 1 ms tick of `state/timer.go:12` this is rare but
possible. These are the exemptions of `NotEarly` and `NoRelock`.

With three wheels `NoRelock` needs one more, which the attempt to prove it showed.
add reads currentTime, and creates the overflow wheel from what it has read
(`timingwheel.go:88-101`). If the worker moves the first clock on in between,
the second wheel starts behind it (`Lagging`), and the third, created from the
second, likewise. A bucket of the third wheel may then be flushed while the second
wheel's clock is still so far back that add finds the timer too late for it,
passes it up again and asks for the mutex Flush holds: the worker blocks for ever,
against the comment in `bucket.Flush` that the timer goes to "another bucket
belonging to a lower-level wheel". Nobody has been overtaken. To reproduce it,
leave `Lagging` out of `NoRelock` and run `MCTimingWheel` with `Levels = 3`, ticks
1, 2, 4, `Stopped = {}`, `MaxRuns = 4`, `MaxTime = 6` and `Delays = {1, 6}`: TLC has
the trace in half a minute. In run `Wheel`, with two wheels, nothing lies between
two others and `Lagging` is FALSE: there the run checks `NoRelock` without it.

## 6. Gateway

One acceptor, one epoller with its adding and its polling goroutine, a pool of one
or two workers, cmdHandler, and the state server as a handler behind a channel of its own.
RPCs that wait to enter a full channel are explicit (`stateRpc`, `cmdRpc`), and so
is the circle pool -> state server -> command channel -> pool. Descriptors are
numbers that the kernel hands out again (`fd`, `epoll`, `fdToConn`); a connection
nobody refers to is closed by the finalizer (`Collect`). `eChan` is unbuffered: the
code reads `gateway.epoll_channel_size`, `plato.yaml` sets `epoll_channel_num`.
Closures of cmdHandler run with the current value of the loop variable
(`RunsWith`, go 1.17). `addTask` is the rendezvous on `eChan` alone: the acceptor may
accept again before the adder does `addTcpNum`, `EpollCtl` and the stores of
`AddStore`. `closeConn` finds the connection in the table and `Close` deletes its
entries later, so two workers may close the same connection, the second after a
new one has taken the descriptor.

Run `Gateway` has five loads (see `MCGateway`): a hang-up racing DelConn while
another client takes the descriptor, two workers on two DelConns of one connection
likewise, a limit of zero, three IDs under a clock that goes anywhere with a
sequence of two, and one client with enough packets to fill pool and channels. It
checks `UniqueIDs`, `ConnectionsAreBounded` (the limit is passed by at most one
connection for each acceptor and the one the epoller has received and not
counted), `StaysWatched`, and as liveness `ReadReachesState` and `HangupIsReported`: no circle
of waiting between pool, channels and state server loses a packet or a hang-up.
Fairness covers the gateway's and the state server's goroutines,
not the clients nor the acceptors; timeouts are part of the worker's fairness.

Observed: DelConn does not lower tcpNum, so that the limit shrinks over time; a
closure that runs with a later command closes the wrong connection (exempt as
`swapped`); `remove` after a close, and a second worker's Close, may drop the registration or
the table entry of the connection that has the descriptor now (`late`, which
`StaysWatched` and `HangupIsReported` exempt); a failing EpollCtl or a clock that went
back panics the process; a client that sends half a frame keeps its poller in
ReadData for up to 120 s. A restart with the clock set back may repeat IDs: one
process life is modelled.

## 7. Sdk

The five goroutines of a client (user interface, ReConn, loop, doRecv, heartbeat)
against a server reduced to what a client sees: it takes the text with the next
client ID, acknowledges and pushes it back, keeps the last message until it is
acknowledged, and forgets a connection when its socket ends. `LoopRead` takes a
message and `LoopHandle` shows and acknowledges it; a ReConn may come between
them. Run `Sdk`: two texts,
two connections, at most two packets piling up before the server repeats a push;
two texts are the fewest whose order the pool can change, two dials the fewest with
an old and a new connection. `NumbersAgree`: client and server count alike unless a
Send crosses a ReConn or the pool reorders; `TakenIsShown` and `AckReachesServer`:
whatever loop was doing during a reconnect, the texts of the new connection are
shown and acknowledged. Fairness: the SDK's goroutines and the server's; the
user need not type.

Observed: refused texts are never sent again; a push pending at a ReConn is lost
with the old connection; Close may close recvChan under a sending loop (`ended =
"crash"`); a redial that fails leaves a nil connection; heartbeat's deferred call
of itself goes on after Close; the closing of the old socket races the ReConn in
the server, which then finds no device to keep.

## 8. Bizflow

AddNode in the given order with its panics, Run as the master (`RunRecv`,
`Handle...`, `ExecNext`, `ExecSubmit`), and workers (`WorkBegin`, `WorkRun`,
`WorkCheck`, `WorkPut`). When the master takes an event out of a full channel, the
event of a worker waiting to send goes in and that worker is free (`Queue`). `frames`
holds the loop variable of each call of execNext,
which the closures capture. Run `Bizflow` takes the diamond of the repository's
test with pools of 1 to 3 workers and channels of 0 or 1, the same with failing
nodes, a chain with every kind of error, one node alone, and the graphs AddNode
refuses. `DepsCompletedUnlessSwapped`, `RunEnds` and `WorkersComeBack` are checked.
Fairness: master and workers run.

Observed: in the diamond, C may run twice and B never, and D then panics in
GetNode (`graph.go:56`); masterChanClosed takes events of other workers, and Run
hangs; a pool smaller than the width of the graph can starve; a node that used up
its retries leaves Run waiting; after NonRetryable the channel stays open and
workers may send for ever. `RunEnds` and `WorkersComeBack` name these cases and
show that there are no others.

## 9. PrpcDiscov

Servers: `Register`, the run goroutine (`Run`: registerService or KeepAlive),
`Signal` and `Exit` of a shutdown, `LeaseExpires`. Clients: GetService (`GetService`
reads the map, `Fetch` reads etcd under the mutex and starts the watch), AddListener,
`WatchPut` and `WatchSkip`. The listener that Build calls itself holds no mutex: it
reads the list (`ReadEndpoints`) and tells the resolver in a later step
(`UpdateState`), and a watch may tell a newer list in between. etcd is a set of keys and a
log; a revision is a position in it. Run `PrpcDiscov`: two services; one server
that starts twice with one fault and one dialer; two servers of which one stops
and two dialers; the same with one service name the prefix of the other.
`RegisteredIsCached` relates cache, keys and the events still to come: an endpoint
registered in etcd is cached or its put is still ahead in a watch. Of the reverse
nothing is said, since an endpoint that is gone stays cached for ever.
`EndpointsAreTold` and `ShutdownEnds` are the liveness.
Fairness: run goroutines, dialers, watches and shutdowns; leases expire, and
processes are killed, without it.

Observed: DELETE events are never applied; overlapping first calls of
GetService wipe an entry (`wiped`), and a listener on the wiped service deadlocks;
a failed Grant or Put is never tried again; a lost lease makes KeepAlive spin and
blocks the shutdown; prefixes without a trailing slash mix services; concurrent
dials can overwrite a listener, and Build can put an older list back over a newer
one that a watch has told, which stays until the next event (both are `lost`).

## 10. IpConf

`PutKey` and `LeaseEnds` are the gateways, `WatchService`, `DataSet`, `WatchEvent`
DataHandler, `addNode` and `UpdateStat` the dispatcher goroutine (which holds the
lock in between), `Swap` the goroutine of an endport, and a request is
`getCandidateEndport`, `CalculateScore` per candidate, `Respond`. Run `IpConf`:
two gateways, one of which ends; one whose reports go twice round a window of two;
one without metadata. `WindowSums`: the running sum of a window is that of its last
reports; `NewestCounts`: snapshot and watch leave no gap; `RequestsAreAnswered`: the
lock held across the hand-over starves nobody. Fairness: all goroutines of the service; the gateways need
not report.

Observed: SwapPointer at `endport.go:28` overwrites the first word of the old Stat
instead of the pointer, so ActiveSorce stays 0 and the ranking follows the bits of
an address; a DELETE never removes a candidate; a registration without metadata
panics the process (`data.go:29` tests `ed`, not `event`), and so does a first Get that
fails (`data.go:48`); the average divides by
the window size even when fewer reports came; the scores are shared by concurrent
requests without a lock.

## 11. UserStorage

One step per statement: `QueryCache`, `Find`, `QuerySet`; `Create`; `Begin`,
`UpdateRow`, `Rollback` or `Commit`; `DelCache`. The database keeps rows an open
transaction has updated locked, breaks deadlocks, and may fail any statement. A
row has two columns standing for the parts of the DTO; 0 is the zero value. Run
`UserStorage`: two users; a creation, an update and a query, and one of seven
further requests (an update in the opposite order, one that clears a column, a
second creation, a second query, a query, creation and update of nobody), with one
failing statement. `ReadsAreFresh`, `ErrorChangesNothing`, `OkIsCommitted` (all three
proved) and `RequestsEnd` are checked. Fairness: handlers run and the database answers.

Observed: the cache manager's methods are empty; the errors of SELECT and Commit
are dropped, so users vanish from an answer and an update returns ok without being
committed; zero values cannot clear a column; a repeated creation gives a user two
rows; an update of an absent user returns ok.

## 12. Proofs

`StateServerProofs`

- `TypeCorrect`: `Spec => []TypeOK`. `TypeOK` contains that a goroutine past a
  load holds an object. It is not inductive: the inductive invariant `TInv` adds
  `LiveInv` (objects that goroutines, the table or callbacks refer to have a
  connection), `KeyInv` (the table maps a connection to an object of that
  connection), `ReqInv` (the command fits the handler's step) and `LoginKeyInv`
  (the object of a login under way belongs to the command's connection).
- `WatchedForever`: `Spec => []EveryConnIsWatched`, assuming `RedisFast`. The
  inductive invariant `WInv` adds `LoginInv`: the object that a login is about to
  store still has its heart timer armed. That needs `RedisFast`: if the heart
  timer of the new object could fire and its reconnect timer run out while SADD
  hangs, the logout would find no table entry, and the login would then store an
  object nobody watches. Each action either leaves the watchers alone (the frame
  lemmas `WatchFrame`, `LoginFrame`) or hands the duty on: heart timer ->
  callback -> reconnect timer -> callback -> close.

- `CountedReachesPush`: `Spec => []CountedIsPushed`. It concerns the counter, the
  pushes and cmdHandler's step only, and is inductive with `TInv`: only the CAS
  counts, it goes on to the push, and a panic of `pushMsg` comes after the push.
- `RoutesAreOwned`, `LogOutsAreTold`, `RoutesAreLostByLogOut` and the action
  property `LogOutsAreForgotten` (`Spec => LogOutForgets`) follow from one
  inductive invariant `SessionInv`, under `RedisFast`. Each property speaks of a
  route, a slot or the table, which a login writes and a logout deletes in
  separate Redis commands and in a different order. What holds them together is
  that a connection is logged in once (`FreshInv`), under one device (`OneDid`);
  that no logout of it starts before its login is through (`LoginPrivate`, the
  part that needs `RedisFast`); and that what a close has removed stays removed
  while it goes on (`ClosedInv`). `RouteInv`, `SlotInv` and `LostInv` are the
  properties with the steps of the close spelled out. `LostInv` names the connection
  to blame (`Displaced`): a login sets the route of its device and empties `unrouted`
  for it, and only CloseDelRoute takes the route away, and then puts its own
  connection there.
- `SessionsAreServed`: `Spec => []SlotsAreServed`, under `RedisFast`. `SlotsAreServed`
  is inductive together with `SessionInv`: an entry enters a slot by a login that
  then stores its object, or is read by a recovery that then does; an entry leaves
  the table only in the last step of a close, whose first step took it out of the
  slot. The case to settle is a close by a goroutine of an object that a login or
  the recovery has replaced: it removes the slot before it removes the table entry.
- `RetriesGoOn`: `Spec => []UnackedIsRetried`, under `RedisFast`. `RetryInv` adds
  to `SessionInv` that a callback arms the message timer of its own connection
  (`RePushInv`), that the timer appendMsg has armed is still armed when it stores
  the message (`SetBytesInv`, the part that needs `RedisFast`), and that a server
  that is down has no table and no recovery (`DownInv`).

They hold for any sets of connections, devices, client IDs and objects, any
number of slots, crashes and callbacks at a time, and with failing Redis commands.

`DelayQueueProofs`, for any items, callers and times:

- `QueueTypes`, with `ItemInHand` (Poll holds an item exactly between the shift
  and the send) as the strengthening;
- `HandshakeHolds`: `WakeupHandshake` is inductive given the types;
- `NoWakeupIsLost`: `NoLostWakeup` is inductive given the handshake, which
  provides the sender when a caller loses the race for the flag;
- `Refinement`: `Spec => Abstract!Spec`, step by step (`Simulation`).

`UserStorageProofs`, for any users, requests and failing statements:

- `FreshReads`, `ErrorsChangeNothing` and `OkMeansCommitted` follow from one
  inductive invariant. To the properties it adds which steps belong to which kind
  of request (`Answers`), that a commit is followed by no error (`Commits`), and
  that while a query is under way the current value of every user counts as seen
  (`Current`), which is what `Find` needs to return a seen value.

`GatewayProofs`, for any acceptors, connections, clock readings and width of the
sequence:

- `IDsNeverRepeat`: `Spec => []UniqueIDs`. A new ID differs from the old ones
  because it is above all of them, so the inductive invariant adds `BelowTop`: no
  ID exceeds the generator's last one or, while an acceptor waits for the next
  millisecond with the sequence already wrapped to zero, the last of the
  millisecond. `IDOrder` is the arithmetic: IDs are ordered by stamp, then by
  sequence.

- `LimitHolds` (`ConnectionsAreBounded`), `AddedStaysWatched` (`StaysWatched`) and
  `GatewayTypes` share the inductive invariant `GInv`. That tcpNum bounds the open
  connections is not visible in a number: `CountInv` says there is a set of
  connections of that size which contains every open one no acceptor holds, and
  follows it through add, remove and close; the connection the epoller has received
  and not counted, and one for each acceptor, come on top. `ConnInv` says who owns a connection on its
  way from accept through the adder to the poller, and that live connections have
  descriptors of their own (`FdInv`), so that an epoll registration means one
  connection. `WatchInv` states `StaysWatched` for the steps of the adder and of the
  workers that close too; it holds until `late`, when somebody has used the number of
  a descriptor that was closed before.

`TimingWheelProofs`, for any timers, wheels, delays and goroutines inside add:

- `WheelTypes`: the types, with what each step of add says about its locals.
- `NobodyIsStranded`: `Spec => []NoTimerStranded`. The strengthening is
  `ExpirationInv`: a bucket whose expiration is set is on its way to the worker.
  It is what add relies on when SetExpiration reports no change and the bucket is
  not offered again.
- `StoppedForGood`: `Spec => []StopIsFinal`, for the timers of AfterFunc. `PlaceInv`
  says that such a timer is in one place: a bucket, the hands of one goroutine, run,
  or stopped.
- `NeverEarly` (`NotEarly`, for a first tick of 1 ms, as `state/timer.go:12` has it)
  and `FlushNeverRelocks` (`NoRelock`, for any ticks and number of wheels) share
  two invariants. `PathInv` holds on every path: a timer is in one place
  (`OnePlaceInv`, for scheduled timers too); clocks are multiples of their ticks and
  never go back (`ClockInv`), so what add found out about its timer still holds when
  it fills the bucket (`ChoiceInv`); the bucket that holds a timer is that of its
  expiration (`FiledInv`); and the wheels a reinserted timer was too far for stand
  still (`PassedInv`). `InTimeInv` holds until a goroutine is overtaken: a bucket is in
  one hand on its way from SetExpiration to the end of Flush (`OneHolder`); its
  expiration has not been passed by any clock and is less than a turn ahead
  (`Windows`), so that it determines the bucket's one value (`SameBucket`), and two
  goroutines that set it agree; buckets reach the worker in order and not early
  (`Order`); the worker brings the first clock up to the bucket's expiration
  (`Advance`); and the timer in the worker's hand expires within the bucket's tick
  (`Reinserted`). Why Flush cannot come back: the timer expires within a tick of the
  bucket's expiration E, add passed it up because it is a whole tick beyond the clock
  of the wheel below, and that clock, a multiple of a tick that divides E, has reached E.
  TLC checked both invariants on the configuration of `Wheel` and on three wheels
  before they were proved.

`PrpcDiscovProofs`, for any servers, services, dialers, faults and leases:

- `NoPutIsMissed`: `Spec => []RegisteredIsCached`. A put counts as coming only if
  a watch is there to deliver it (`WatchInv`) and writes the map that is read
  (`MapInv`). It speaks of registrations only, see section 9.

`SdkProofs`, for any number of texts and connections:

- `TextsAreNumbered`: `Spec => []NumbersAgree`. `NumInv` says why nothing is
  refused: the texts under way on the connection in use are numbered without a
  gap from the server's next ID to the ID `getClientID` gives next. `EofInv` and
  `RequestInv` say that nothing resets the server's count in between (a hang-up is
  the last packet of its connection, a login or reconnect names an earlier
  connection), `GenInv` that a Send that is not torn uses the table in use.

`BizflowProofs`, for any graph of finitely many nodes, pool and capacity of eventChan:

- `DepsComeFirst`: `Spec => []DepsCompletedUnlessSwapped`. The engine only counts
  down `depsNum`. `OneOut` says that an item is in one place at most (a worker, the
  buffer, the master's hand), `FiredInv` that there is a set of nodes whose "ok" was
  handled, that none of them is anywhere any more, so that their event stays "ok",
  and that `depsNum[n]` is the number of deps of `n` not yet counted from that set.
  Both hold until a closure runs another item than its own.

The assumptions are the named `ASSUME`s of the modules; TLC evaluates them in
every run. `RedisFast` is a constant of `StateServer`, TRUE when Redis answers a
login and appendMsg before the timer armed for it expires; the theorems that need
it name it as a hypothesis.

Only model-checked: all liveness, which is out of the prover's reach, and with it
`Implements`, the refinement of the fair abstract queue, whose safety part
`Refinement` proves; `WindowSums` of `IpConf`, a sum over a sequence, which needs
induction over data; and `AckConfirmsLatest`, which the code violates. Every other
safety invariant and safety action property of the runs is proved.

## 13. Not modelled

gRPC, etcd, Redis, gorm, the database, the ants pool and Linux epoll themselves:
external, modelled from how the code uses them. Configuration and logging, the
command line, the drawing of the terminal client, the load generator, tracing,
metrics and interceptors: glue or pure I/O. Generated protobuf code: a message is
its fields. The route lookup `QueryRecord` and the gateway's `did2conn` table have
no caller. The pieces a TCP frame arrives in: ReadData blocks until the frame is
whole. TTLs of Redis keys, floating point of the load scores.
