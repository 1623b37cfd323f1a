# ProsperoAI in TLA+

A verification development for ProsperoAI: an inference runtime in C for a
games console, with a wire protocol between the console ("payload") and the
host, an HTTP gateway in front of it, memory management and scheduling for
model execution, GPU back ends, and a desktop application.  The modules here
model the parts whose correctness depends on order, failure, reuse or time.
TLC checks them on small instances, and TLAPS proves the central results for
every instance.

Paths such as `connection.c:499` are below `src/`; the module that models a
line, and the line itself, are paired in `PROJECT.json` under `map`.

## 1. Inventory

### Modelled

| Part | State it keeps | Operations | What makes it correct |
|---|---|---|---|
| Protocol connection (`protocol/connection.c`, results of `frame.c`) | state, capabilities, refusal reason, half-read frame, inbound stream table and ordinals | init, start, send, poll (header, payload, end of stream, dispatch), destroy | both ends agree on the capabilities; frames whole and in order; nothing after a close; the stream table is what the application believes; no exchange of automatic errors without end |
| Remote pool (`gateway/remote.c`) | one pooled connection, busy flag, contexts of the running generate or embed, deadline | create, destroy, acquire, negotiate, generate, embed, poll callbacks, retry, release | nobody receives another call's output, nothing is relayed twice, a complete answer wins over a close, nothing leaks, every call returns |
| Session registry (`scheduler/scheduler.c`, 762-836) | slots with id, priority, active; count; next id | init, create, destroy, active, pick | a dead id never names a later session; no slot is lost |
| Buddy allocator (`memory/allocator.c`) | headers written into the region, free lists, bytes used | init, alloc with split, free with merge | blocks tile the region, stale headers are never believed, refusals are justified |
| KV cache (`cache/kv_cache.c`) | positions, block per position, prefix hashes, owned region, the buddy allocator | init, init_owned, reserve, touch, reset, destroy | positions never share bytes, a hit was recorded, the region is freed once |
| Static planner (`memory/planner.c`) | allocations with lifetimes, free ranges, node pool, cursor, peak | add, build (sweep: release, best fit, extend, pin, finish), free | allocations alive together never overlap; region and peak are right |
| Gateway (`gateway/gateway.c`, `gateway/http.c`, the token loop of `models/model.c`) | connection threads, model entries with their locks, open and broken flags and session, response counter, per-request context with the rolling tail | add models, accept, receive, parse, route, check, take ids, lock, lazy open, apply settings, generate token by token, finish streamed or whole, embeddings, end of the response | one well-formed answer per request, generations that do not mix, distinct ids, stop sequences found as in the whole text, every connection closed |
| Graph, plan and execution (`graph/graph.c`, `scheduler/scheduler.c`, sessions of `models/model.c`) | values and ops, order, memory plan, steps, the region | add value, add op, set output, sort, lifetimes, memory plan, build, kernel table, execute | every step reads what its producers wrote in this run or what was loaded; results survive; the sort is right |
| Bring-up harness and console backend (`payload/main.c`, `gpu/hal/backend_ps5_gc.c`) | memory of seven buffers, command buffer, queue, label, device, verdicts | main, the stages and experiments, `m0_run_gpu`, buffers, submit, wait, reset, shutdown | a pass rests on the experiment's own dispatch, a failure on something that failed, a label on its own submission |
| PS5 lifecycle (`platform/ps5/lifecycle.c`) | the bound port, listener, connections waiting for it | stop_previous, start, listener | PAI_OK means that the instance that served the port is gone; stop_previous returns |

### Not modelled

| Part | Why |
|---|---|
| Session ids of a connection (`connection.c:222-280`), in-memory pipe, ping | in this repository only tests open sessions or use the pipe; ping is a sequential client whose filter by request id is the one `RemotePool` has |
| Frame, message and JSON codecs, PM4 builder, arena, tensor shapes, IR, operator table | functions of their input or tables filled once; the modules carry their outcome |
| Public API | sequential wrappers of the model runner |
| CPU and GPU kernels, sampler, quantization | floating point, out of TLC's reach |
| Kraken codec, GGUF and model containers, tokenizer | byte formats: the input space of a useful check is out of reach |
| `hal.c` and the host reference backend; three experiments nothing calls (`main.c:722-955`) | a table of function pointers; kernels run in place; dead code |
| Desktop application (TypeScript) | its protocol client is the foreign implementation of `ProtoConn`, which may send anything; the rest is presentation and supervision of processes |
| `gwsys.c`, TCP transport, other platform calls, logging, profiler, CLI | thin wrappers and measurement; they are the environment of the modules |

### How the parts interact

The desktop or any HTTP client calls the gateway.  A gateway thread takes the
entry of the model, opens it lazily and generates, locally through the public
API and the model runner, or remotely through the remote pool.  The pool holds a
protocol connection to the payload; requests, tokens and completions are
frames, handed over by callbacks from `pai_proto_conn_poll`, which the caller's
own thread drives.  The model runner uses the graph, the static planner, the
scheduler and the KV cache; the KV cache suballocates with the buddy
allocator.  The lifecycle thread of a payload stops it when the next one is
deployed.

`PROJECT.json` lists the hazards of this code, each at its line, with the
properties that would notice it going wrong, or the reason why none does yet.

## 2. Modules

| Module | Stands for | Uses |
|---|---|---|
| `Handshake` | abstract: what the negotiation promises | |
| `ProtoConn` | two connections and the two byte streams between them | `Handshake` (refinement) |
| `MCProtoConn` | instances of it for TLC | `ProtoConn` |
| `ProtoConn_proofs` | its theorems | `ProtoConn` |
| `RemotePool`, `RemotePool_proofs` | the pool, one caller at a time, a payload and a clock; its theorems | |
| `SchedSessions`, `MCSchedSessions`, `SchedSessions_proofs` | the session registry, its instance, its theorems | |
| `Buddy` | the allocator | |
| `KvCache` | the cache composed with the allocator | `Buddy` (EXTENDS) |
| `MCKvCache`, `KvCache_proofs` | the instance and the theorems of both | `KvCache` |
| `MemPlanner` | the planner | |
| `GraphRun` | graph, plan and repeated execution over one region | `MemPlanner` (EXTENDS) |
| `MCGraphRun` | the instances of the planner alone and of graphs | `GraphRun` |
| `GraphRun_proofs` | the theorems of the planner, the sort and the runs | `GraphRun` |
| `Gateway`, `MCGateway`, `Gateway_proofs` | HTTP threads over the model entries, their instance, their theorems | |
| `M0Matrix` | the experiments of the payload as a table | |
| `M0Harness`, `M0Harness_proofs` | the harness that runs them on the console backend, and the GPU; its theorems | `M0Matrix` (EXTENDS) |
| `Lifecycle`, `Lifecycle_proofs` | overlapping deployments on one port; the theorem | |

Definitions carry the names of the functions they model (`pai_proto_conn_send`,
`conn_handle_ack_client`, `place_reuse` for a branch of a function).  A
definition whose line ends in `\* mutant` is a plausible bug in the definition
after it: no specification uses it, and with it in place of the original the
property it is listed for must fail.

### ProtoConn

Each end has the fields of `pai_proto_conn_t`.  A channel is a sequence of
chunks: a frame travels as a header and, if it has one, a payload, which is how
`conn_send_unchecked` sends it.  A send succeeds, fails, or fails between the
two, which leaves a torn frame on the wire; a header of which only a part was sent,
and the malformed header a receiver makes of it and of what follows
(`connection.c:685`), count as such a torn frame, which ends the connection as well.
An action is one turn of poll's loop
(a header, a payload, an end of stream, and the dispatch of a complete frame
with every reply the handler sends) or one call of the owner.  The bytes of a
chunk are not told apart: a partly received header or payload only makes poll
wait.  CRC and magic are one bit, whether the payload that arrives is the one
announced.  `ForeignSpec` adds a peer that is another implementation and sends
frames of other versions, unknown capabilities and misplaced types.

History variables record what reached the application: frames dispatched,
capabilities agreed on, `on_close` calls, streams it holds open and the tokens
delivered on them.

### RemotePool

One call at a time, since the gateway holds the entry's lock across a call.  An
action is a step of the call between two points where the peer or the clock can
intervene: acquire, negotiate, send, the head of the wait loop, one received
frame with its callbacks, what the loop makes of a poll, return or retry.  The
payload is external: it answers in order, in full, partly, with an error or not
at all, and may vanish, with or without taking frames in flight with it.  The
clock counts the time to the deadline and the age of the call.  Tokens are
non-empty and the caller passes a callback.

### SchedSessions

The table as three functions of the slot.  Callers may pass any id that was ever
handed out.

### Buddy and KvCache

Headers are kept for every offset at which a block may start, so that a stale
header stays where it was until it is overwritten; that is what merging reads.
Free lists are sets (their order only decides which block of an order is taken,
here any).  `held` is what callers own.  A second free of a block is allowed
until its memory is handed out again, to those who were given it since the
allocator was set up (`given`): setting it up anew, as the cache does at a reset,
does not erase old headers.  `KvCache` extends `Buddy`, takes its alloc
action as it is, and keeps the 32-bit addition in reserve.  An init whose tables
cannot be allocated gives back what it obtained and leaves no cache.  `Spec` is the
allocator alone and `KvSpec` the cache with it; the `MemSpec` of `MCKvCache` is
either of them, chosen by whose region it is (`client`).
Statistics are left out of both.

### MemPlanner

`pai_mem_plan_build` is a sweep of steps: release of an expired allocation, then
placement of the next one, by best fit in a free range, at the cursor, or pinned.
The free list is a set of ranges, kept merged as the code keeps it, and its node
pool is finite as in the code: when it is used up a range is dropped.  Overflow of
64-bit offsets and failing mallocs are left out.

### GraphRun

A graph is built op by op (any inputs, any output, cycles included; the bound is
one output for each op).  `pai_graph_topo_sort` is one action for the count of the
inputs, one for each op that the seeding loop looks at (`SortSeed`), one for each
consumer of the op at the head of the queue (`SortScan`), and one for the end, which
fixes the epochs or refuses a cycle (`SortEnds`).  The lifetimes are then computed
for a plain or a persistent plan and handed to `MemPlanner`, whose actions run
unchanged.  The `PlanSpec` of `MCGraphRun` has in addition the planner without a
graph, with pinned and aligned allocations that graphs do not ask for.  A cell of the
region holds the value and the run that wrote it, so that reading stale or
foreign bytes is visible.  The executor goes step by step; a step may be refused
for its element type, its kind or its shapes, which leaves the region as it is,
and the session runs again.  A convert is the exception: it wants one input, does
not compare shapes, and copies as many cells as its input has to where its output
begins (`OpCells`), so that a smaller output spills over its neighbours and a
larger one keeps old cells.  `Sized`, the precondition of `ReadsFresh` and
`ResultsKept`, says that the graph has no such convert; the run has them, and without the
precondition both fail on them.  Shapes are sizes; the memory modes of the
scheduler and their budgets are left out.

### Gateway

A thread per connection, with the steps at which another thread, the client or
a failure can intervene: each receive, the routing and checks, reading and
writing the response counter, taking the entry's lock, opening the model,
applying the settings, each token, the end of a generation, the reply, the
unlock, the end of the response.  A request is a record of what the handlers
test, and text is a sequence of letters, so that stop sequences are matched as
the code matches them, in a tail that is cut as tokens arrive.  A token may be
longer than the tail: it then keeps the beginning of the token, as the clamp at
`gateway.c:529` does, and misses a stop at its end, which `StopExact` excludes by
`Fits`.  A whole reply is trimmed to the JSON object found in it, or refused without
one, and a completion's echo is put in front (`Shown`); escapes inside
strings are left out.  The counter of response ids is a natural number: in the code it is a
`uint32_t`, so that `IdsUnique` speaks of fewer than 2^32 requests.  `wire` is what
the client has been sent.  A remote generation gives tokens and ends well or
badly, which is what `RemotePool` promises of a call; the two are not composed
into one state space.

### M0Matrix and M0Harness

`payload/main.c` is a long sequence of experiments of one form: write inputs,
fill the bytes that will be watched, build a stream, submit, wait for a label or
for changed bytes, read back, report.  `M0Matrix` is the table of them, in the
order main runs them, with the source's offsets and sizes and with the values
told apart only by what they are: a fill, an input, the right result of a
kernel, junk.  Rows that expect the same words share the value: G19 and G20 both look
for 0xA5A5A5A5 in `c[64..67]`, which neither the setup nor the fill of G20 clears.
A buffer is cut at every offset some row names.  `M0Harness` is
the control: reset, up to three kinds of fence, the waits, the verdicts, the
stages that are skipped after a failure.  The GPU is external.  It fetches
submissions from a queue that points at the one command buffer, so that a late
fetch runs the newest stream; it completes a job rightly or not, with or
without its label, or wedges until the device is reopened.

The table stands for some 6900 lines of `main.c`, more than half of the source
lines the project covers, and models them shallowly on purpose: which bytes a
row writes, watches and reads.  What a kernel computes, the packets of each
stream and the expected words themselves are not in it.

### Lifecycle

Every deployment is a main thread and, once started, a listener.  The port has
one bound socket; a connection is refused unless that socket listens, and is
reset when its instance ends.  The first probe, its close, connect, send, wait
for the acknowledgement and each turn of the wait loop are steps of their own.

## 3. Runs

| Run | Instance | Shows |
|---|---|---|
| `conn_negotiate` | one request id, one application send per end, two faults, both owners may destroy | agreement on capabilities, order, nothing after CLOSED, no storm of replies, negotiation ends, a close spreads, refinement of `Handshake` |
| `conn_streams` | two stream slots, two ids, three frames of ten kinds from the server, three foreign frames from each end | table, ordinals and application in step; only known capabilities are ever agreed on |
| `remote_pool` | two calls of either kind, up to two tokens, one clock unit of timeout | nobody gets another call's output, nothing twice, a full answer beats a close, resources returned, two deadlines bound a call, every call returns |
| `sched_sessions` | three slots, five sessions, three priorities | registry exact, no slot lost or overlooked, dead ids stay dead |
| `kv_cache` | eight smallest blocks; used directly with three sizes and two alignments, or by a cache of four positions, with one size that wraps and the hash 0 | tiling with truthful headers, double free recognised, refusals justified; storage disjoint and its region freed once, hits recorded |
| `graph_run` | the planner alone: four allocations out of nine kinds, a pool of two nodes; graphs: four values, up to three ops, ten lists of inputs, two runs, plain and persistent plans | no overlap, everything in the region, peak right; steps read fresh values, results kept, sort exact, the kernel table's check sound |
| `gateway` | two connections, a local and a remote model, 25 kinds of request, two stop sequences, up to three tokens | one answer, own generation, distinct ids, stops exact, every connection closed |
| `payload_matrix` | the whole matrix, two faults, two iterations of every timed series | a pass of a reported experiment or of a timed iteration means it ran, failure blames the GPU, a label means its own submission |
| `lifecycle` | three deployments, two turns of the wait, one stranger, one failing call (a bind that fails on a free port included) | served instances are replaced, stop_previous returns |
| `kv_capacity`, `planner_peak`, `remote_deadline` | the instance of the module's other run, or a cache of more positions | violations: what a comment or a doc says and the code does not do; see the findings |

Why the bounds are enough for what they are used for.  Two faults allow a lost
answer and a lost close in one behaviour.  Three frames are what it takes to open
a stream, end it with data and reuse its slot, or to fill the table and be
refused.  Two calls are what it takes for the answer to the first to arrive
during the second; two tokens, for one to be relayed before a failure and one
after.  Five sessions on three slots fill the table, free a slot and fill it
again.  Three orders above the smallest block allow a merge that cascades past a
stale header.  Four allocations allow two released ranges to merge and be split
again by alignment, with the node pool running out.  Three ops make a chain in
which the storage of the first value is reused by the last, a value with two
consumers, and a cycle; the second run sees what the first left.  Two connections
contend for one entry and one counter, and three tokens of up to two letters
spread a stop of three letters over two cuts of the tail; one more, longer than
the tail, is clamped.  Two faults let one
submission be late and the next one be hurt by it.  Three deployments are one to
be replaced and two that race for it.

`CHECK_DEADLOCK FALSE` is said where the program comes to an end: both
connections closed, the graph run as often as the bound allows, every HTTP
connection closed, main returned, every instance gone.

### Fairness

`conn_negotiate`: weak fairness of each end's poll while it negotiates.
`remote.c:65` and `ping.c:67` poll in a loop until the client is open or closed and
destroy it when their deadline passes; the server is on the other side of the
wire (in this repository only tests serve), and is assumed to poll until it has
answered.  After that nothing is assumed: `remote.c` polls within an exchange only,
never a connection that rests in its pool.  `CloseSpreads` therefore carries its
own premise, that the owner of the other end goes on polling.  Nothing is assumed
of sends or of the application.  `remote_pool`: weak fairness
of the calling thread's own steps and of the clock.  Nothing is assumed of the
payload: the call returns because its wait loop looks at the deadline.
`gateway`: weak fairness of each thread, which stands for the operating system
scheduling it, for a receive that ends by data or by the socket's timeout, and
for a remote call that returns (`CallReturns`); a mutex is given to one of its
waiters, and with two threads weak fairness is enough.  Sends are assumed to
return; `http.c` sets no timeout on them.  `lifecycle`: weak fairness of each
main and each listener.  Nobody has to deploy, to finish its experiments or to
connect, but a stranger that connected is assumed to send something or leave:
the listener's receive has no timeout, and one that does neither would hold up
the next deployment.  `M0Harness` states fairness of the host, its deadlines and
the GPU, which its properties, all of them safety, do not use.

### Findings

Each is a run that TLC must find violated; `PROJECT.json` quotes the line it
contradicts and tells the trace.

* `kv_capacity` (`kv_cache.c:39`): the capacity leaves out header and alignment of a
  block, so reserve fails before the capacity is reached, which the comment at
  `kv_cache.c:29` sets out to prevent.
* `planner_peak` (`planner.c:220`): `peak_live` leaves out pinned allocations, which
  `planner.h:41`, `graph.h:109` and `scheduler.h:73` do not say.  `PeakExact` states what
  is counted.
* `remote_deadline` (`remote.c:441`): the retry gets a whole new deadline, while
  `remote.h:47` says that `timeout_ms` bounds the whole exchange.  `TwoDeadlines` is the
  bound that does hold.

What a property excepts, because the code does not do it.  Each exception names
the case in its definition, and the instance of the run contains the case:

* `HitOnlyIfRecorded` (`kv_cache.c:161`): a position that was never recorded equals a
  hash of 0, and the touch counts a hit, while `kv_cache.h:89` speaks of "the rolling
  hash recorded at `pos`".
* `NoSlotLost` (`scheduler.c:830`): between equal priorities the pick is by slot, not by
  lowest id as `scheduler.h:235` says.
* `ReadsFresh`, `ResultsKept` (`scheduler.c:524-530`): a convert copies its input's size
  whatever the size of its output, without the comparison that COPY and RESHAPE make,
  so that a smaller output is overrun into its neighbours, a loaded parameter for
  one, and the run answers ok.  `Sized` excludes such graphs.
* `GateSound` (`scheduler.c:525`): a convert of several inputs passes the kernel table
  and stops the run half way, which `scheduler.h:186` ("before any memory is touched")
  does not say.
* `StopExact` (`gateway.c:529`): a remote slice longer than the rolling tail hides a
  stop sequence at its end.  `Fits` excludes it.  The JSON scan it speaks of as the
  code has it (`gateway.c:486`) takes a closing brace in front of any object for its
  end.
* `PassMeansRan` (`main.c:3218`): the bandwidth series follows M1D without a reset and
  expects words that M1D expects too; its warm-up may pass on a job of M1D that four
  failures have made late.  The timed iterations wait for their own label, so that the
  VALIDATED line behind them does mean that they ran, and the property says so.
* `FailBlamesGpu` (`main.c:148`): H11, H12 and G19 watch the bytes that hold their own
  input, which `m0_run_gpu` fills, so they fail on a correct GPU;
  `notes/re/940-gpu-empirics.md:144` takes H12 as evidence.

Smaller differences that show in the models and have no property of their own:

* `connection.c:350`: id 0 finds a free slot of the stream table, so that data
  without an open stream is delivered; the table is not disturbed.
* Arena alignment 0 means no rounding (`planner.c:300`), not 16 (`planner.h:32`);
  `scheduler.h` calls ROPE and ATTENTION unsupported, and the executor runs them.
* `http.c:404` sends a second terminal chunk after a streamed response, and the
  `[DONE]` event is written with its terminating NUL.  A body above the limit is
  answered with 400 while `http.h` speaks of the size cap as out of memory.
* A stop sequence that ends in the middle of a token is not found: the tail is
  compared at its end only.  `StopExact` is about stops that end with a token.
* One failed open makes an entry broken for the life of the process
  (`gateway.c:326`).  A completion is sent while the entry is locked, an
  embedding after the lock was given up.  A client that leaves a stream does not
  end a local generation.
* Two deployments at once leave one instance running without the port
  ("stop probes disabled"), which a third deployment cannot stop; `Replaced` is
  therefore about the instances that served the port.

## 4. Proofs

TLAPS checks every theorem below for all values of the constants that satisfy the
`ASSUME`s of its module; the caps on calls, sends, faults, sessions and allocations
are arbitrary natural numbers.  Each is of the form "the specification keeps an
inductive invariant, and the invariant implies the property"; what follows says
which invariant, and why the property needs it.

### What is assumed

* `ProtoConn`: a positive number of slots, request ids that contain 0 and 1,
  capabilities offered and granted among the ones there are.
* `RemotePool`: a positive timeout.  `SchedSessions`: a positive number of slots and
  some integer priorities.
* `Buddy`: `OrdersAssumption`; `PowersAssumption`, the law of exponents for the sizes
  `1 << order`, which the provers do not know; `RequestsAssumption`, in which the
  header fits into the smallest block, as `BUDDY_HEADER_SIZE` does.  `KvCache`: the
  positions of a `uint32_t` would fill more than the region, so that a reservation
  whose sum wraps (`kv_cache.c`, reserve) is refused by the suballocator.
* `MemPlanner`: sizes and alignments are positive and a lifetime is not empty, which
  `planner_add_common` checks.
* `GraphRun`: sizes are positive, inputs are values of the graph, kinds are names.
* `Gateway`: a request takes at least one receive and its parse has one of four
  outcomes; `NoOne` is no connection.  A token has a letter and any length; only
  completions echo;
  stop sequences have a letter and at most `StopMaxLen`, as the parameters are refused
  otherwise (`gateway.c`, the checks of `stop`).  `Lifecycle`: its bounds are natural numbers.
* `M0Harness`: `MatrixAssumption`, which is about the table of experiments and not
  about the constants.  It says what each row's setup has to do for its verdict
  to mean something: results are told from fills and inputs; some byte of every
  read-back is erased before the dispatch, or holds words that no earlier row
  leaves; and a row without a reset expects words of its own.  An earlier row that
  expects the same words does not leave them if it is `Barren`: its own fill lies over
  a part of its input that its dispatch does not write, and resets before it and behind
  it keep its jobs away from every other setup.  G19 is, and that is why G20, which
  expects the words of G19 in bytes nobody clears, is still told apart.  `SupplyAssumption` is
  the same for the input: every byte a dispatch reads is left there by its own setup,
  or by an earlier step that is never skipped, and the host and the dispatches since a
  reset before that step do not write it in between.  The three rows whose input lies
  in the bytes they fill do not meet it and are excepted.  TLC evaluates both on
  the table in `payload_matrix`.  The table grows with `Iters` by repetition of rows
  that are in it already.

### ProtoConn

* `TypeCorrect`: one lemma for every action, on top of lemmas about appending to
  and reading from a channel.
* `NegotiationInvariant`, `CapabilitiesAgree`.  `CapsAgree` by itself is not
  inductive: that the client opens with what the server granted depends on what was
  on the wire before.  `NegotiationInv` adds it in three parts.  `AgreedOnceOpen`: an
  end has agreed on capabilities once it is open and not before.
  `AskedBeforeGrant`: until the server has answered, only HELLOs of the client are
  on their way to it, and a complete one means that the client is waiting.
  `AnswerFirst`: while the client waits, the first frame on its way, or the half-read
  one, is the server's answer, a NACK if nothing was granted and otherwise an ACK
  with exactly what was.
* `HandshakeRefined`: `Spec => HandshakeSpec`.  The state maps to a phase, the
  capabilities agreed on to `agreed`, a HELLO on the wire to `asked`; each action
  is a step of `Handshake` or leaves it unchanged, by `NegotiationInv`.

The rest is proved of `ForeignSpec`, with an implementation that may send anything
at either end.

* `TableMatchesApplication`, `TokensNumbered`: `StreamInv` says of each end that no id
  is in two slots, that the ids in the table are the streams the application holds,
  and that the ordinal of a used slot is the number of tokens delivered on it.
* `CapabilitiesKnown`, `ClosedForGood`: from what a dispatch may assign, and from the
  guards of poll and send on the state.
* `FramesInOrder`: `InOrder` is about one step, and depends on what is still on the
  way.  `OrderInv` says of each direction that the chunks on the way are numbered
  without a gap, and that the receiver can resume: the next header is the one after
  the last frame dispatched, or the payload of the half-read frame comes next, or
  the frame is torn and everything on the way comes after it, so that the payload's
  check fails and the connection closes.
* `RepliesBounded`: the bound alone is not inductive, since a frame on the way may still
  cause a reply.  `ReplyInv` adds to the frames sent those that are still owed: one for
  each chunk on the way that completes a frame that may be answered (`Owed`), the
  HELLO as long as the client is NEW and the answer to it as long as the server has
  not answered.  An answer is never owed another, so that a step either pays with
  what it reads or is charged to an application's frame or to a fault.

### RemotePool

`TokensInOrder`, `OkMeansOwnAnswer`, `NothingLeaks`, `AtMostTwoDeadlines`, from `PoolInv`.
The hazard is an answer of a call that timed out: it is still under way on the
connection the next call uses.  `Channel` says that answers come request by
request, under ids below the next one, the tokens of each in order and then one
terminal frame; `Meets`, that the frame to come next is where the waiting call is in
its answer, or belongs to an earlier request while the call has nothing yet.  The
filter by request id does the rest.  `Deadlines` ties the clock to the attempt, and
`Phases` the flags of the pool to the step of the call.

### SchedSessions

* `RegistryCorrect`, `DeadIdsStayDead`: the table is the set of live sessions and
  `count` its size; since every id in the table is below `next_id`, no id is handed
  out twice, and so no dead id comes back.
* `SlotsAllUsable`: a create that finds `count` at the limit finds every slot in use,
  by the size of the set of used slots; the pick's loop returns a session of the
  highest priority because the scan is a maximum over the slots.

### Buddy and KvCache

* `BlocksTile`, `RepeatedReleaseKnown`, `RefusedOnlyWhenFull` (`Spec`), from `BuddyInv`.
  Its core is that free and used blocks are aligned and disjoint and cover the
  region (`Tile`), with the header of each block telling its order and whether it
  is free (`HeadersExact`).  Splitting and merging exchange blocks for others that
  cover the same bytes, and one lemma says that such an exchange keeps a tiling.
  `NoTwins`, that no two free buddies of one size coexist, is what justifies a
  refusal: if some aligned span of the size were free, it would be one block.
* `HitsRecorded`, `StorageIsSound` (`KvSpec`), from `KvInv`: the core again, because
  the cache only allocates and starts over; every position's block is one of the
  used ones (`StorageOwned`); the owned region is there exactly while the cache is
  (`RegionOwned`), whichever step of an init fails; a hash other than 0 was recorded (`HashesRecorded`).

### MemPlanner

* `LayoutNeverOverlaps`, from `PlanInv`.  `SpaceApart`: free ranges, live allocations and
  pinned ones are pairwise disjoint and below the cursor, so that whatever is placed
  is apart from what is live.  `SweepOrder`: allocations are placed by start and what
  has been released ended no later than the next one starts, so that what is no
  longer live cannot be alive together with anything still to be placed.
  `LayoutSound` is the property for what is placed so far.
* `PeakIsExact`, from `PlanInv` and `PeakInv`: at every step the reusable allocations
  placed so far need at most the peak, and some step needs exactly that.  What was
  placed before an allocation starts no later, so that whatever is alive with it at
  one of its steps is alive at its start too, and there exactly the live ones are: the
  sum that the code takes is the most that the new one adds.  That the peak fits in the region is
  `PackedSum`: pieces that are apart and end below the cursor add up to at most the
  cursor.

Sums are folds over sets, and the fold of the community modules is a function chosen
for its recursion.  The library's induction rules cannot be instantiated, so the lemmas
on sums (`FoldExists`, `FoldUnique`, `SumOrder`, `SumMonotone`) go by a least
counterexample: among the sizes of the sets for which a lemma fails there is a
smallest, and taking one element out contradicts it.

### GraphRun

`GraphOk` says that the graph is well formed: a value knows the op that produces
it, and no op consumes its own output.  On top of it, in layers:

* `SortIsExact`, from `SortInv`.  `Told(c)` is the set of ops whose consumers have been
  scanned as far as `c`.  The counter of `c` is the number of its inputs whose producer is
  not in it, counted by use, and past the seeding `c` is in the queue exactly if that is
  0; so the queue has every op at most once and after its producers.  If the queue
  ends early and the graph had an order, take the op left over that is first in the
  order: its producers are all in the queue and scanned, so its counter is 0 and it
  is in the queue.
* `RunsReadFresh`, `RunsKeepResults`, from `SortOk`, `LayoutInv` and `RunInv`.  `Lifetimes`: a
  value starts at the epoch of its producer and ends after every use, and with the
  last step if it is an output or is kept.  `LayoutInv`: what the planner is given are
  these lifetimes, so that by `LayoutSound` values whose lifetimes meet share no
  cell, also after the offsets are copied and the planner is gone.  `RunInv`: every
  step runs the op of its epoch (the epochs are one-to-one and hence onto), what was
  loaded once is in place between runs and after a step that failed, and while a run
  goes on every value that has been written and is needed from here on (`Needed`) is
  `Intact`.  In a graph that is `Sized` a step writes one value; whatever else is needed after it was needed
  before and lives together with it (`NeededApart`).
* `KernelGateIsSound`, from `GateInv`: a run that passed the table has a kernel for every
  op of the plan, so that the only answers "unsupported" left are the element type and
  the number of a convert's inputs.

### Gateway

* `GenerationsOwn`, from `OwnInv`: a thread past the lock of an entry and before its
  unlock is the entry's holder (`Locks`), so that the settings in the session are its
  own (`Sampled`) and the tokens counted are those it was given (`Counted`).
* `ResponseIdsUnique`, from `IdInv`: the counter is read and written in two steps,
  and under the lock nobody else is between them; every id drawn or sent is below the
  counter.
* `OneResponse`, from `WireInv`: what has been sent to a client has one of four shapes
  (nothing, a plain response, an open stream, an ended one), and where the thread is
  decides which.
* `RepliesStopExactly`, from `TextInv`, for the replies whose tokens are all shorter than
  the tail (`Fits`; what was told so far fits if all of it does, `FitsBefore`), where the
  clamp takes nothing away (`TailWhole`).  The text of the first n tokens is a recursive
  concatenation; that the recursion has one solution, and so that a token adds itself
  at the end, is proved by the least counterexample (`JoinExists`, `JoinAgree`,
  `TextStep`).  While no stop was found, no text so far ended with one and the tail is
  the end of the text and, unless it is all of it, as long as any stop sequence
  (`Rolled`): cutting it before the next token keeps at least that much, because the
  buffer has room for both (`TailGrows`), and then the tail ends with a stop sequence
  exactly if the text does (`TailHits`).  Once one was found the reply stays as it was
  cut, although a remote generation goes on.

### Lifecycle

`PreviousReplaced`, from `LifeInv`: the port has one owner (`OneOwner`), and an instance
that served the port when a later one began is gone or still has its listener
(`StillThere`); so whoever binds the port after it finds it gone.

### M0Harness

* `LabelMeansDone`: the value waited for is in the label only if the job of that very
  submission completed (`OwnLabel`); the label is cleared before each submission and
  no two submissions share a value.
* `VerdictMeansRan`, from `MatrixInv`.  Every job, and every word a kernel left in
  memory, is of a row that has submitted something (`Jobs`, `Words`); after a reset
  only jobs of the experiment itself are queued or running (`Clean`), and of no row
  before the last reset (`Since`); and as long as
  none of them completed, some byte of the read-back says so (`NotYet`).  A job of
  another row can only come where there was no reset, and then leaves other words.
  `Words` also says that the row is not barren: as long as a job of a barren row may
  run (`Live`), the fill stands in its input (`Spoiled`), because by `Since` neither
  another setup nor another job comes between, so that it leaves junk (`BarrenFails`).
  For timed iterations it follows from `OwnLabel` (`TimedInv`).
* `FailureMeansFault`, from `MatrixInv` and `SupplyInv`.  After a reset only jobs of
  the rows from there on are queued or running, however many rows lie between
  (`Since` again); so what one step leaves in memory for a later one stands until that one
  has read it, whatever has failed (`Standing`).  As long as nothing fails the device
  is open, one submission at a time is under way, with the first fence, and only its
  own label ends the wait (`Calm`); so its dispatch finds its kernel and its input, and
  its result is there when the wait ends (`Right`).  A fault of an earlier experiment
  may leave junk, hang the ring or close the device: the reset undoes the last two, and
  `Standing` is why the first does not matter.

### Only model-checked

* Liveness (`NegotiationEnds`, `CloseSpreads`, `CallReturns`, `EveryRequestEnds`,
  `StopReturns`): beyond this prover.

## 5. Plan

1. Abstract specifications: a pool call as one atomic answer or error, refined by
   `RemotePool` and used by `Gateway`; an allocator as disjoint ranges, refined by
   `Buddy`.
2. `GraphRun`: ops with several outputs, and the memory modes of the scheduler.
