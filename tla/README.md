# A verification of fast-server

TLA+ models of this repository, TLC configurations that
check them on small instances, and TLAPS proofs of their main properties for
every instance. Paths are relative to the repository.

## The system

| Part | Source | State it owns | Who touches it concurrently |
|---|---|---|---|
| HTTP engine | `core/engine.go` | table fd → `Connection`, pooled `Connection` objects | event loop, idle cleaner (a goroutine on a 1 s ticker) |
| Poller | `core/poller` | the kernel's watch list | loop and cleaner through the engine |
| Worker pool | `core/pools/worker_pool.go` | one channel per worker, `closed`, counters | submitters, workers that steal, the closer |
| Other pools | `core/pools`, `core/pool_stats.go` | `sync.Pool`s with counters | everybody |
| HTTP parsing, contexts, pipelining | `core/http` | pooled requests, a read buffer | one goroutine per connection, shared pools |
| Routers | `core/router` | a tree or a map, a cache | set up first, then read |
| Middleware | `core/middleware` | handler list, rate-limit windows | request goroutines |
| WebSocket hub | `core/websocket` | client map, rooms, three channels | hub loop, two pumps per client, callers |
| SSE broker | `core/sse` | client map, channels | broker loop, keepalive, publishers |
| RPC client | `core/rpc/client` | pending calls, `closed` | callers, receive loop, closer |
| RPC server | `core/rpc/server` | tracked connections, active requests | accept loop, connection goroutines, Shutdown |
| RPC framing, codecs, registry | `core/rpc` | none; a service map | connection goroutines |
| File cache, HTTP/2, observability, configuration | `core/sendfile`, `core/http2`, `core/observability`, `config` | maps and counters under locks or atomics | callers |
| SIMD helpers, GC tuning, application shell | `core/optimize`, `core/pools/gc_tuning.go`, `app` | none | — |

What makes it hard: the engine's `connMu` guards the table but not the fields of
a `Connection`; descriptor numbers and objects are reused while another
goroutine may still hold them; channels are closed while others send; decisions
are taken under a lock and carried out after it. `PROJECT.json` lists these
hazards line by line.

## Modules

**`Engine`** — `core/engine.go`. One action per stretch of code between two
accesses to state that the other goroutine writes. `connections`, `conn` (the
fields of every `Connection`), `pool`, and the kernel's `open`, `watched` and
`pending` are the shared state; the program counters `pc` say where the loop and
the cleaner are; `hand`, `hfd`, `got`, `cfd`, `victim`, `toClose` are their local
variables. `closeConnection` is written once and run by either goroutine.
One place is coarser: `ParseRequest` and the three assignments behind it are one step,
so that a close by the cleaner falls before or behind them.
Requests are abstracted to what `checkKeepAlive` distinguishes, time to whether
`idleTimeout` has passed, bytes to counts. Clients, the network and time are
environment actions. A panic ends the process.

**`WorkerPool`** — `core/pools/worker_pool.go`. Every task has a goroutine in
`Submit` (`sub`, `idx`), every worker one in `run` or `trySteal` (`wpc`, `task`,
`tries`), and Close sets `closed` and then closes the channels one by one
(`toClose`). `runs` is a history variable. A send on a closed channel sets
`panicked`.

**`TaskPool`** — what a pool promises: a task is accepted, then executed once, or
rejected after Close.

**`ReadLoop`** — the same engine for one connection, with the bytes: `handleRead`,
`processRequest`, `sendError` and `checkKeepAlive` over `RequestParser`. A read
ends anywhere in what the client has sent, with or without header fields.

**`RequestParser`** — `core/http/parser.go` and `request.go`. `ParseRequest` as an
operator on sequences of delimiters and words, so that every cut and every search of
the code has its counterpart. `Method`, `Path` and `Proto` are places in the read
buffer, because `unsafeString` shares its memory. Request objects come from a pool and
go back to it.

**`FDContext`, `Middleware`** — `core/http/context_fd.go` as operators on a context,
and `core/middleware/pipeline.go` run as the engine's handler on pooled contexts:
request goroutines that overlap (`pc`, `held`, and the parameters that are still to be
filled in, `params`), the queue and the workers of `AsyncPipeline`, the token bucket, a
clock. `ran` is a history variable: which asynchronous middleware ran for a request, and
whether the context it was given was still this request's.

**`RoutePattern`** — what a pattern means, the reference; **`RadixTree`**,
**`RadixRouter`**, **`FastRouter`**, **`CompiledRouter`** — the three routers of
`core/router` as recursive operators on trees, maps and lists. **`Routers`** composes
them: Add gives a route to all three, and lookups fill the cache of `CompiledRouter`.

**`RPCClient`** — `core/rpc/client/client.go`. Every request is a goroutine in
`Call` or `Ping` (`pc`, `id`, `result`), with its Call object (`error`, `reply`,
`done`); `receive` with `handleFrame` (`rpc`, `frame`, `call`) and Close (`cpc`, with
the progress of `pending.Range`) are goroutines of their own. A step is one access
to the mutex, to `pending` or to a field of a Call. `sync.Map.Range` visits what is
there throughout and may visit what is stored meanwhile. The server answers any
sent request at any time, in any order, or never.

**`RPCServer`, `RPCPeer`** — `core/rpc/server/server.go` with the registry: Serve, one
`handleConn` per connection, Shutdown, and Register at any time. `RPCPeer` is what a
server promises on each connection, and what `RPCClient` assumes of its environment;
`ImplementsPeer` says that `RPCServer` implements it. `dropped` is a history variable:
the answers that a waiting client did not get.

**`Hub`** — `core/websocket/hub.go` and `handler.go`: `Hub.run` and its three channels,
`HandleConnection`, both pumps of every client, and the rooms of one name, which
CreateRoom replaces and DeleteRoom empties. Goroutines of the application (`Senders`)
load a client and then send to it (SendTo, Room.Broadcast) or store it in a room (Join).
The maps are keyed by ID, and `IdOf` lets clients share one: an unregistration deletes
what is under the ID and closes the client it was called for. A payload is counted; a
send on a closed channel sets `panicked`, and `victim` is the client.

**`WSConn`** — `core/websocket/conn.go`: one reader, which answers pings, writers and
Close share the buffered writer. Frames go out as first byte, length bytes and payload,
through a `bufio.Writer` (`buf`, `BufSize`) that spills when a payload does not fit and
keeps its first error (`werr`); the socket may be reset at any time.
What comes in is masked bytes (`Payloads` over `Byte`, with `XorByte` as Go's `^`):
`readFrame` decodes the length, refuses a frame of any opcode by it, and unmasks. What
the `bufio.Reader` holds can be read after the socket is closed. `before`, in a frame of
the peer, is a history variable: what the peer had said when it sent the frame.

**`Broker`** — `core/sse`: `Broker.run`, handlers with their streams, a room, and the
senders outside run (keepalive, PublishToClient, Room.Broadcast). A client is one
subscription; `IdOf` lets several share an ID, as after a reconnect. An event is its
place in the order of Publish.

**`SmartPool`** — `core/pools/smart_pool.go`: the counters, the reset on Put and
Optimize around a `sync.Pool` that the collector may empty. `Cleared` are the fields
that `resetFunc` clears, not all of them: that of the engine's request pool leaves
headers and query. A user may share its object with a goroutine that uses it after Put
(`late`).

**`HTTP2Server`** — `core/http2/server.go`: ListenAndServe and Close around their
mutex. `http.Server` is external.

**`EngineProofs`** (also `SmartPool` and `HTTP2Server`), **`WorkerPoolProofs`**,
**`RPCClientProofs`**, **`RPCServerProofs`**, **`PushProofs`** (`Hub` and `Broker`),
**`WSConnProofs`**, **`ContextProofs`** and **`PipelineProofs`** (both `Middleware`) —
the theorems. **`MC...`** — instances. `Hub`, `Broker`, `SmartPool` and `HTTP2Server`
have theorems and no run. Operators named `Action_Something` are variants of an action
with a plausible mistake, which the mutants of `PROJECT.json` put in its place.

## Runs

| Run | Configuration | Result | What it shows |
|---|---|---|---|
| `engine` | `Engine.cfg` | holds | Ownership of Connection objects and descriptors under all interleavings of the event loop and the idle cleaner, with the descriptor number and the objects reused; and connections whose peer goes away or that stay idle are closed. |
| `engine_cleanup` | `EngineCleanup.cfg` | **violated** | The cleaner closes a connection that is no longer idle: it decides under the read lock and closes by descriptor number after it. |
| `workerpool` | `WorkerPool.cfg` | holds | Three submitters, two workers that steal and a Close in every interleaving: tasks run once, none is lost, accepted ones are executed, Close ends the workers, and the pool implements the abstract TaskPool. |
| `workerpool_close` | `WorkerPoolClose.cfg` | **violated** | A Submit that passed the closed check before Close sends on the closed channel and panics. |
| `rpcclient` | `RPCClient.cfg` | holds | One Call and one Ping against receive and Close: Close orphans nobody and drains pending, replies reach their callers, nil means that a reply came, and, when every Write returns, everybody returns. |
| `rpcclient_stall` | `RPCClientStall.cfg` | **violated** | Close waits for the mutex that send holds during a Write without a deadline, so a peer that does not read keeps Close from closing the connection. |
| `rpcserver` | `RPCServer.cfg` | holds | A connection with two frames against Shutdown and two registrations: requests are counted exactly, an open socket has somebody who will close it, the answers are those RPCPeer promises, and Shutdown ends, and with it the connections in its slice. |
| `rpcserver_shutdown` | `RPCServerShutdown.cfg` | **violated** | Shutdown closes the connections before it waits for the requests on them, so a request that was being handled when Shutdown was called loses its answer. |
| `wsconn` | `WSConn.cfg` | holds | A writer, the reader's pongs and Close share one buffered writer, which a large payload overflows: what reaches the wire is whole frames with right lengths, up to one that the end of the socket cuts; fragmented messages come in intact; and Close ends in a closed socket and a reader that has returned. |
| `readloop` | `ReadLoop.cfg` | holds | Requests without body, cut by the reads at every place and parsed into new or used Request objects, with and without header fields, of either protocol version, one as long as the buffer and one longer: each that is handled is handled as it was sent, those with header fields that fit are answered, and the connection is closed only for a reason. |
| `middleware` | `Middleware.cfg` | holds | Four requests on two contexts, with a preflight, a panic, a full queue and two refills: never two responses, none of the handler after an abort, own context only inside Execute, asynchronous middlewares handed over once and run, and no second sees more than twice the rate. |
| `routers` | `Routers.cfg` | holds | Three routes in every order, also behind one that makes a router panic, for the three routers, with lookups in between: what each of them finds is compared with what the patterns mean, under the conditions each needs. |

The constants of each instance are in its configuration.
Bounds. The engine has one descriptor, two objects and three arrivals: the number is
reused twice while the other goroutine still holds it, and at most the cleaner can hold
an object whose descriptor is already closed. A two-byte buffer has partial, filling and
complete reads. Three tasks over two queues of capacity one fill both and force inline
execution, and leave something to steal. A Call and a Ping have every step of the RPC
client and meet each other in the mutex, in `pending` and in Range; `MaxId` leaves an ID
for each. One RPC connection with two frames and two registrations meets Shutdown at
every step, before it is tracked and after; the order of answers needs two frames. In
`WSConn` the buffer has the size of Go's (4096), one of the lengths written overfills it
once (5000) and one is written past it and is the first of the longest encoding (65536);
pongs have short ones. The theorem has all lengths. Two payloads of different length fit
`maxMessageSize` and one does not, and three incoming frames suffice for a ping between
two fragments. Bytes have three bits there. In `ReadLoop` the buffer is as long as a
message with a query and two header fields, others have three, one or none, and three
messages of either protocol version are sent, so that Requests are used again. Four
requests on two contexts include a preflight, one that panics and one with more
parameters than slots; the queue holds one task, and the clock passes two refills. Three
routes, out of eleven that share prefixes, are added in every order. The theorems remove
these bounds for the engine, the worker pool, RPC client and server, the middleware and
WebSocket connections.

Deadlock is not checked where the program may stop: after a panic, when a pool,
server or connection is closed, when all requests have returned, or when the client
has sent all it sends. The routers can always be asked again, so it is checked there.

Fairness. Goroutines that have begun go on (weak fairness of each); nobody has to
begin, and clients, peers and contexts owe nothing. A lock that is released again and
again is obtained: strong fairness of the engine's write lock, since `sync.RWMutex`
blocks later readers once a writer waits, and of `sync.Mutex` in the RPC client and in
`WSConn`, since Go's mutexes do not starve a waiter. Handlers and methods return.
Fairness is assumed only of the steps a property needs: in `Middleware`, of Execute's
loop over its asynchronous middlewares and of the workers. Beyond the code, `LiveSpec`
of the RPC client has each `conn.Write` return, which the network has to provide
(`rpcclient_stall` does without), and `RPCServer` has somebody call Shutdown. In
`ReadLoop`, where the action is costly to evaluate, weak fairness is written out with
its enabling condition. In `WSConn` a write returns when the buffer takes it all or the
socket is no longer open; a peer that does not read may keep any other waiting.

## What the runs show

- The engine's delete-under-lock makes `closeConnection` safe against itself: an
  object is pooled once, a descriptor closed once and by its owner, nothing
  leaks, and no response reaches another client. But the cleaner acts on stale
  decisions: it may close a connection that has become active or belongs to a
  new client under the same number (`engine_cleanup`), and the loop, serving such
  a connection, can panic on a nil request or buffer. `PanicNeedsCleaner` shows
  that this is the only way.
- The pool never loses or repeats a task, drains on Close, and implements `TaskPool`.
  But Submit can panic when it races Close (`workerpool_close`), and runs tasks inline
  when two queues are full, not all as its comment says. That a task runs at most once,
  that a worker leaves nothing behind when it exits and that the counters agree is
  proved only.
- A request without body that `handleRead` handles is handled as it was sent, however
  the reads cut it and whatever the Request was used for before. One that has header
  fields and fits into the buffer is answered. One that has none is not: the parser
  looks for two line ends behind the request line, whose own has gone
  (`parser.go:63-69`), and `handleRead` waits for more until the buffer is full.
- Middleware: no request gets two responses, one that a middleware aborted gets none
  from the final handler, and one that Execute is done with has got one, unless it is
  a preflight: CORS aborts it with `Status(204)`, which writes nothing. A panic of a
  handler ends the program without a response. Recovery is no help, as its deferred
  `recover` is over when it returns, before the next handler is called, although
  `pipeline.go:163` and `QUICKSTART.md:143` say that it recovers from panics and
  `middleware_test.go:131-133` means to test it; the model has what the code does.
  Inside Execute a request has a context of its own. Every asynchronous middleware is
  handed over once and run, and sees its own request while Execute runs (`SeesOwn`); a
  worker that comes later finds the context recycled, with another request, or with a
  nil one, which ends the program. The model has both, and the properties hold up to
  the latter. The rate limiter admits at most twice its rate in any second; not the
  rate itself, as a burst on either side of a refill passes.
- Routers: the radix tree answers with routes that match, and finds every static one,
  for static routes in any order and with parameters when static routes come first and
  no two parameter routes share a prefix. What a parameter route matches it may still
  not find: with `/user/admin` and then `/user/:id`, `/user/adam` goes down the static
  edge and is lost. The fast router finds everything with one wildcard; the compiled
  router answers with routes that match when first bytes tell segments apart; what its
  cache holds matches too, but hides a static route that is added later (`CachedFits`).
  The properties carry these conditions because the code needs them.
- In the RPC client no interleaving of Go, Ping, receive and Close leaves a caller
  waiting, gives a call somebody else's reply, or lets it return nil without one.
  That Close ends at all depends on every Write returning: `send` holds the mutex
  during the Write, and Close needs it before it can close the connection
  (`rpcclient_stall`).
- The RPC server counts its requests exactly from where it counts them, leaks no
  socket, and answers in order. But Shutdown is not graceful: it closes the connections
  before it waits, so requests that were being handled lose their answers
  (`rpcserver_shutdown`). It also misses a connection that is tracked after it took its
  copy, which outlives it, and a request that is counted after it looked.
- WebSocket frames are never mixed and their lengths are right, up to one that the end of
  the socket cuts, and messages come in whole and in order whatever control frames are
  between their fragments. The close frame never goes out, as Close sets the flag that
  WriteFrame refuses on first; that is proved, and not something the code promises.
- Proved of the hub, for clients that share their ID with nobody: a broadcast of `run`
  never sends to one that it has closed, and none that is dead stays in its map. With a
  shared ID both fail: an unregistration that overtakes its registration finds the entry
  of the other client, closes its own, which `run` then stores, and the next broadcast
  panics. SendTo and rooms can panic with any IDs. And `run` can fill its own unregister
  channel and then waits for ever (`StuckIsForever`). Of the SSE broker: published
  events are handed over in order and once, and nobody is cut off by the end of a
  connection with the same ID; but its late removal deletes the newer entry, so a client
  is found under its ID only when nobody else has used it (`SubscribedIsFound`). Of the
  pool: an object has one owner, and comes out clean in the fields that `resetFunc`
  clears, unless somebody used it after Put. Of the HTTP/2 server: nothing serves after
  Close, and Close waits as long as it serves.

## Proofs

All theorems have the form `Spec => []P` (or an action property or refinement)
and rest on an inductive invariant. The assumptions on the constants are ASSUMEs where
the module has a run, which TLC evaluates; for `Hub`, `Broker`, `SmartPool` and
`HTTP2Server` they are hypotheses of each theorem. Bounds of the models are any numbers,
and sets of connections, requests or clients need not be finite.

- `EngineProofs!IInv` adds to the properties what the local variables of both
  goroutines mean at each program point (`LocalsSound`), what holds between the
  delete and the close of a connection (`ClosedSound`), and when fields of the
  connection being served may be nil (`DataSound`). `OneOwner` alone is not
  inductive: that a victim is nowhere else follows only from how it left the
  table. Most steps move neither a connection nor a descriptor from hand to hand
  (`Aside`); for these one lemma (`AsideInv`) leaves only the types and what the
  loop knows of the connection it serves (`LoopSound`) to show. Assumed: the
  special values are not descriptors or objects and buffers are not empty
  (`EngineAssumption`).
- `WorkerPoolProofs!IInv` says where an accepted, not yet executed task is: in one
  place of one queue or in the hands of one worker. `CountersSound` adds that the
  counters are cardinalities of sets of tasks. The refinement maps a task to
  *done*, *pending*, *rejected* or *new*; under the invariant this depends only on
  its run count and on how far its Submit has come (`StatusIsPlain`). Assumed: at
  least one worker and a positive capacity (`PoolAssumption`).
- `RPCClientProofs!IInv` says who will complete a waiting request: its Done channel
  is full, handleFrame or Range has it in hand, or its entry is in `pending` and
  Range has yet to come to it (`WaitersExpected`). The last needs that IDs are
  unique (`IdsSound`), that a frame exists only for a request that was sent
  (`FramesSound`), and that a request in Write has the mutex, so that Close has not
  begun to range (`CloseOrder`). Assumed: calls and pings are different requests
  (`ClientAssumption`).
- `RPCServerProofs!IInv` follows a connection from Accept to its end: it is in `conns`
  exactly while its goroutine runs (`Tracked`), its socket is open only then or in the
  hands of Serve (`SocketsSound`), and Shutdown's slice holds connections that were
  tracked (`SnapSound`), so that a socket closed under a handler was closed by Shutdown
  (`ClosedUnder`). `Counted` adds to the equation of `activeReqs` that the set it counts
  is finite. `AnswersSound` says that the frame in hand has the type that led the handler
  to it and has no answer yet; it carries the refinement, by which a write that reaches
  the peer is an `Answer` of `RPCPeer`, a frame sent is an `Ask`, and every other step
  stutters. `AnswersLostByShutdown` is the other side of `rpcserver_shutdown`: nothing
  but Shutdown loses an answer. Assumed: `NoConn` is no connection (`ServerAssumption`).
- `WSConnProofs!ConnInv` has a part for each side. `WritersSound`: whoever is between
  Lock and Unlock holds the mutex, buffer and end of the wire together have what it has
  written so far and nothing else, unless the writer has failed, and Close's own
  WriteFrame ends at the flag, from which `CloseFrameNeverSent` follows. `WireSound`: the
  wire is a sequence of whole frames, and then what the writer at work has spilled or an
  error has left. `PeerSound` and `ReaderSound`: the
  frames under way lead, one by one, from what the reader has to what the peer has said;
  `MessagesIntact` alone says nothing of a message that is half read. The lemmas
  `LengthReadBack` and `Unmasked` say that `readFrame` inverts what `WriteFrame` and a
  peer do, for every length that an `int` of 64 bits holds and every payload. Assumed:
  lengths are such, and xor with one byte twice is the identity (`WSConnAssumption`).
- `ContextProofs!ContextInv`: a context is in the pool or has one holder (`HeldSound`),
  and holds of its request exactly the parameters filled in so far, each in one slot or
  in the overflow map (`ContextSound`, with `Filled`), whatever it held before Reset.
  `OwnContext` is not inductive: what one request writes could be in another's context.
- `PipelineProofs!PipelineInv`, beside it: who has been sent something at which stage
  (`ResponseSound`); a task in the queue, with a worker or done, in one of these places
  (`AsyncOnce`, inductive as it stands); and, for `TwiceTheRate`, which of the requests
  that passed did so before the last refill and which a second before it (`RateSound`),
  so that the tokens left say how many have passed since. `TasksOwn`, for `SeesOwn`: the
  tasks of a request that Execute is not done with carry the context it holds. Assumed
  for both modules: the middlewares are those of `pipeline.go`, capacity, rate and
  second are positive, and the number of slots is a natural number
  (`MiddlewareAssumption`, `FDContextAssumption`).
- `PushProofs!IInv`, of the hub, is about the clients with an ID of their own
  (`Unshared`) among any others. It adds that such a client passes through the register
  channel once and is closed once (`LifeCycle`), that whoever sends got it from `run`,
  and that during a broadcast the rest of the range is still in the map (`SendersSound`:
  only `run` closes clients, and it is in the range), and that nothing was sent to a
  client before `run` took it, so its writePump cannot have ended (`PumpsSound`, which
  `NoZombie` needs for the unregistration that overtakes the registration). Assumed: IDs
  are IDs, positive capacities (`HubAssumption`).
- `PushProofs!BrokerInv` says that published events ascend in `messages` behind the one
  that run is sending and in every channel behind those that were handed over, where a
  client still in the range has only earlier ones; and when a client can be in the
  channels of run. Assumed: IDs are IDs, positive capacities (`BrokerAssumption`).
- `EngineProofs!PoolInv`, of `SmartPool`, joins `CleanOnGet` and `OneOwner`, neither of
  which is inductive without the other: using an object must not dirty one that somebody
  else has reset (`CleanOnReturn`) or that is in the pool; objects that somebody uses
  after Put are left out (`late`). Assumed: `NoObject` is no object, and what is cleared
  are fields (`SmartPoolAssumption`).
- `EngineProofs!ServesLocked`, of `HTTP2Server`: whoever serves holds the mutex that
  Close needs. Both theorems follow: nothing serves after Close (`NeverServesClosed`),
  and Close has no effect while something serves (`CloseNeverInterrupts`).

Only model-checked: every liveness property, for which fairness and ENABLED are needed;
the routers, which are recursive operators (`SoundWhenOrdered`, `FastComplete`,
`CachedFits`, `SoundIfBytesTell`), and the parser under the read loop (`HandledAsSent`,
`ClosedWithReason`), since what these compute for every input takes induction over data;
and the violated properties.

## Not modelled

NewEngine's set-up and route registration run before the server starts; the kqueue
poller has the contract of the epoll one, and `uring.go` is a stub. The engine's two
request pools are one, since nobody gets from the second. `StandardContext` is not
given to any handler of the engine. `CustomHub` repeats `Hub` with callbacks.
`codegen.go` writes source text. The codecs hand values to JSON, MessagePack and
Protobuf; HTTP/2 framing is `golang.org/x/net/http2`. Content types, the layout of
responses, logs and reports are text. SIMD helpers, GC tuning and the application
shell have no state.

These parts have state and are left out; where their code calls for care we note it.

- The frame codec (`core/rpc/protocol`): lengths are cut to the width of their field
  (`frame.go:103`). RPC client and server are modelled with whole frames.
- Pipelining (`core/http/pipelining.go`) is not called by the server; the requests of a
  batch share the read buffer (`pipelining.go:36`).
- The file cache (`core/sendfile`): a descriptor number is used after the lock that
  kept its file open is released (`sendfile.go:103`).
- Configuration: the goroutines of successive Sets may call a watcher in another
  order (`manager.go:40`).
- Observability: counters that belong together are loaded one after the other
  (`ebpf_tracer.go:242`); nothing in the server depends on them.
- The tiers of the byte and buffer pools (`buffer_pool.go:79`).
- In modelled parts no property bounds a fragmented WebSocket message, of which
  `maxMessageSize` limits the fragments (`conn.go:155`), or says what happens to the
  Reply of a Call that was cancelled, which a late response still fills
  (`client.go:89`); and the models leave out the wrap of request IDs after 2^32
  requests, bodies that arrive in a later read than their head, clients that pipeline to
  the engine, rooms of different names in the hub, the moment between the RPC client's
  Write and its return, with the mutex held, in which only handleFrame can move, and the
  order of the loads in the worker pool's Stats.

`PROJECT.json` gives the reason for every other part, and for each hazard that no
property covers.
