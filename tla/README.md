# A verification project for phobos-lang

TLA+ models of the concurrent core of this repository and of two analyses of
its compiler, TLC runs on small instances and TLAPS proofs. Paths below are
relative to `src/`; `server.rs` alone is `phobos-sched/src/server.rs`, `lib.rs`
alone is `phobos-sched/src/lib.rs`, `engine.rs` is `phobos-pod/src/engine.rs`.

## 1. Inventory

phobos is a kernel language with a compiler, a runtime that spreads one
compiled *cluster program* over several GPU nodes, and an inference engine
built on the same compiler. The state that several tasks share, and the
failures, are in the distributed runtime, the inference server and the expert
cache with its host team; this project is about those first. The compilers are
large, sequential and stateless, but two of their analyses reason about threads
that are not: the check that reports data races of a kernel, and the pass that
removes its barriers. Both are modelled.

| Component | State | Operations | Talks to | What is hard | What makes it correct |
|---|---|---|---|---|---|
| **Scheduler** (`server.rs`) | `State` behind one mutex: connections, `last_seen`, completions, failure, down nodes; a `Notify`; the locals of `dispatch()`: plans, counters, `durable`, `recovering` | attach handler per node, watchdog, `submit` with one `dispatch()` per job | nodes over two gRPC streams, the planner by calls | three kinds of task interleave between lock blocks, a wake-up without a permit, recovery during recovery, late reports of nodes given up | every planned instruction is counted once; ok is answered only when storage holds every output; a node's loss is survived; the loop always ends |
| **Planner** (`lib.rs`) | none, pure | lower, segment, validate, recovery plan, fetch manifest | scheduler | ids of a recovery plan, which segment an instruction is in, the peak of resident bytes, serve counts | ids are fresh; dependences precede; the peak is what an execution needs |
| **Pod engine** (`engine.rs`) | one thread: instruction table with dependence counters, ready queue, kernels in flight, parked ALLOCs, FREEs, serves and kernel waiters | a message queue, event polling, issue, stall check | scheduler, tile stores of peers, storage | ALLOCs that wait for FREEs that wait for serves of peers; late answers of I/O; errors that are only printed | dependence order, no buffer reused while in use, a stall reported only when nothing can end it |
| **Tile store and arena** (`phobos-pod/src/tile_store.rs`) | buffers by tile, bump pointer, free lists by size class | alloc, free, upload, serve counts | engine | slabs are never merged or split | slabs in use never overlap |
| **Control stream of a pod** (`phobos-pod/src/server.rs`) | channels | batch completions, heartbeat, forward failures, tile service | scheduler, engine, peers | batching, order of completions and failures | no completion is lost or doubled |
| **PTX cache** (`ptx_cache.rs`) | modules by hash, kernel table, holders | insert, look up | engine | fetch from a peer | |
| **Cluster program compiler** (`phobos-cluster/src/clustergen`) | none | kernel AST to cluster program | compiler, planner | | one compute statement with one output tensor, which the planner and recovery rely on |
| **Instruction set, tile ids, wire format, storage** (`isa.rs`, `tile.rs`, `proto.rs`, `storage.rs`) | none | pack and unpack, convert, file reads and writes | all of the above | widths of the packed fields | packing is injective |
| **Autotuner, plan drawing, job files** (`autotune.rs`, `dot.rs`, `job.rs`) | none | cost model, text | planner | | |
| **Inference server** (`phobos-inference/src/server`) | a bounded queue, one worker, the session kept from the last request; per request a channel and what the client was told | enqueue, take, admit, rewind, prompt pass, decode, cancel, quit | clients over HTTP, model runtime | a full queue, clients that leave, calls that fail, reuse of a session after any of it | every request is answered; a kept session holds the tokens recorded for it; what a client is told of the end is true |
| **Expert cache** (`phobos-gguf/src/backend/device/experts`) | host slots with owners, copies and jobs that use them, a plan of next fills; device slots per block, two copy streams, refills, prefetches | look up, claim, fill, submit to the worker, place, prefetch, refill, cool, resize | the worker thread, the streams of the device, the host team | eviction of a slot in use, copies of two streams to one slot, a refill that outlives its slot, copies that outlive a pass | a slot is never rewritten while something reads it; a kernel reads its own experts; a claim always succeeds |
| **Host team and hand-off** (`phobos-gguf/src/backend/device/simd/team.rs`, `decode.rs`, `experts/handoff.rs`) | epochs, a barrier, parked workers; a row's counters and buffers; a flag and a row in mapped memory per block | run, start, join; three phases of chunks; raise, see, lower the flag | recording thread, device stream | parking against publishing, a worker late for the next job, errors and panics in a phase, flags of earlier steps | jobs do not overlap; phases do not overlap; a step adds its own row; each step ends |
| **Race check of the compiler** (`phobos-lang/src/race`) | a shadow of shared memory: who touched each byte since the last barrier, copies in flight, hazards | one op of each kind, by every active thread; loops with their middle turns skipped | kernel authors, tests | one writer and three readers kept of each byte; ranges for unknown addresses; skipped turns | a kernel called clean has no race; a race reported happened |
| **Barrier elision** (`phobos-lang/src/codegen/lower/membar.rs`) | candidates, kept and added barriers, pending accesses | a walk over the kernel | code generation | the walk goes in emission order, the threads on paths | every two conflicting accesses of two threads have a barrier between them on every path |
| **Runtime and layers** (`phobos-gguf`) | tensors | forward passes | | numeric | out of reach of these tools |
| **Language compiler** (`phobos-lang`, `phobos-mlir`), the rest | none | source to PTX | | | out of reach of these tools |
| **Cache tool, TUI, benches, ONNX importer, Python, website** | files, screens | | | | no protocol state |

`PROJECT.json` lists the same components with their status and, under
`hazards`, each place where the order of steps, a failure or a limit can go
wrong, with the property that watches it or the reason none does yet.

### How the distributed runtime runs a job

A node attaches with `Register` and then sends `Complete`, `Failed` and
`Heartbeat`. `submit` starts a `dispatch()`, which waits until enough nodes
are registered, compiles the leaf kernels, clears what an earlier job left in
the `State`, sends each node the job's manifest and kernels, and registers the
plan: every output supertile belongs to one node, whose instruction list is cut into
segments. `ship_ready` sends a node's segments one after the other as long as
the bytes in flight stay within the budget. The *drain loop* then repeats:
return if every planned instruction is accounted for; fail if a node reported a failure;
abandon what was planned on nodes newly reported down and re-plan the outputs
they had not stored; create the wait; take the completions, or sleep. A
completion retires its instruction; the last one of a segment gives the
segment's bytes back and ships the next. The watchdog looks
for nodes not heard of for the heartbeat deadline; a stream that ends marks
its node down at once.

### How a request is answered, and where its experts come from

An HTTP handler sends its request to the worker with `try_send` and reads the answer from a channel of its own.
The worker takes one request at a time: it tokenises and refuses or admits it, rewinds the session it kept to
what the new prompt shares with it, or makes a new one, feeds the rest of the prompt in batches, and decodes token by
token until the model, a limit, the client or the user ends it. It then keeps the session and the list of
tokens it holds.

A model with experts does not fit the device. Each block has a few device slots; a pinned host cache holds some of
the experts, the files the rest. While a pass is recorded, each block's router is read back at a
sync point; the thread places the experts chosen, copies the missing ones by way of a host slot on the main
stream, or leaves a decode row's misses to a team of CPU threads, which work while the device does its own part and
hand the row over through mapped memory. Between the layers a worker thread fills host slots, and a second
stream prefetches and refills device slots.

## 2. The modules

| Module | Models | How |
|---|---|---|
| `ChainPlan` | the part of `lib.rs` the dispatcher depends on | constants and pure operators: placement, ids, segments, the choice of lost outputs |
| `Dispatch` | `server.rs` for one job, nodes and network as seen from there | a state machine, one action per lock block; extends `ChainPlan` |
| `JobSpec` | what a submitter is promised | the abstract specification that `Dispatch` is checked and proved to implement |
| `Planner` | `lower()` and `segment()` of `lib.rs` | pure operators on a job record: from computes to instruction lists, segments, peak |
| `PodEngine` | `engine.rs`, `tile_store.rs`, the tile service of `phobos-pod/src/server.rs` | a state machine of all pods of a job, which execute the plans of `Planner`; extends it |
| `InferenceServer` | the inference server's handlers, worker and session | a state machine: clients, handlers, worker |
| `ExpertCache` | host slots, device slots, streams and the worker of the expert cache | a state machine: recording thread, worker, two streams, the team as one bit |
| `HostTeam` | the team of CPU threads and the hand-off of a row | a state machine with a step per atomic operation |
| `RaceMemory` | the shadow memory of the race check | pure operators, from a memory to the memory after an operation |
| `RaceCheck` | the check of one kernel, and beside it what really happens | a state machine that writes the kernel while it is checked; extends `RaceMemory` |
| `Membar` | the barrier pass, and the execution of the kernel on every path | a state machine that writes a kernel, decides, and runs it |
| `MCDispatch`, `MCPod`, `MCServer`, `MCExpert`, `MCRace`, `MCMembar` | | values for the constants |
| `ChainPlanProofs` | | lemmas on placement, ranks and ids |
| `Lists` | | what `SelectSeq` of a set does, as a recursive function that proofs can open; used by `PodEngine` and `ExpertCache` |
| `ListProofs` | | lemmas on `Lists`, on `Append`, concatenation and `Tail`, and on sizes of finite sets |
| `DispatchProofs` | | theorems about `Dispatch` |
| `PodEngineProofs` | | theorems about `PodEngine` |
| `ExpertCacheProofs` | | theorems about `ExpertCache` |
| `InferenceServerProofs` | | theorems about `InferenceServer` |
| `HostTeamProofs` | | theorems about `HostTeam` |
| `RaceCheckProofs` | | theorems about `RaceCheck` and lemmas on each operation of `RaceMemory` |

### Dispatch: correspondence with the code

`nodes`, `lastSeen`, `completedIids`, `failure` and `down` are the fields of
`State`. `waiter` is the pending `Notified` future: `notify_waiters()` stores
no permit, so a notification reaches it only once it is created (`"armed"`),
and is then not lost. `pc` names the next block of `dispatch()`; `todo` is
what is left of the loop over nodes that is running. `table` is `iid_seg`, `store_of` and the
instructions in one function from ids to records; `remaining` is the set of
ids that the counters `seg_remaining` stand for (`SegRemaining` is one
counter's set). `total`, `retired`, `abandoned`, `downSet`, `durable`,
`recovering` and the `plans` with `next`, `inflight` are the
locals of `dispatch()`. `silent` and `marked` are the locals of the watchdog's
tick, which takes the lock once to look and once for each node it marks.

A node is its instructions executed (`ran`) and failed (`broken`), its messages under
way (`wire`, `failWire`), and its `health`. A *stalled* node goes on executing but
none of its messages gets out until it resumes: this is the partition or the long
pause that the watchdog takes for a crash. A crash is for good; messages
of a crashed node may still arrive until its stream ends.

Each output is a chain of `ChainLen` dependent instructions: a LOAD
first, the STORE last but one, the FREE last. That is what the dispatcher can tell
apart: it knows of an instruction its segment, its node, and whether it
is a STORE. `stored[k]` counts the updates that storage holds for output
`k`: for a read-modify-write output the LOAD reads the stored value into
the node's buffer and the STORE writes it back with one update
added, so a second execution after a first one was stored
makes it 2; a write-only output is overwritten.

Abstractions worth knowing:

- `Deliver` inserts into `last_seen` and appends the completions in one step; the
  code does so in two lock blocks, and nothing reads both in between.
- A `Complete` message carries everything that finished since the last one. The
  code caps a batch at 100 items; a capped batch is two `Deliver` steps.
- The ids of a batch are processed in any order; the code uses the order of
  arrival. More behaviours, never fewer.
- A node registers once in a job and its id is below the job's width.
- One job runs. What an earlier job left under way is the constant `Stale`;
  as `remaining` is a set of ids and not a counter, `Stale` may hold only ids that no plan of this job
  reaches.
- Where the budget cuts a node's list is a matter of the planner; here a
  segment is `SegLen` instructions and all segments cost `SegBytes`.
- Instructions of recovery plans run from LOADs of storage. With peer fetches on
  (`fetch_enabled`) a FREE may wait for a dead peer; that belongs to the engine.

### Planner and PodEngine: correspondence with the code

`Planner` is `lower()` and `segment()` as functions of a job: a cluster program
already instantiated (computes in program order, tensor modes, tile sizes), the live
nodes, the outputs wanted, the ingest policy and the budget. `Materialize`,
`ComputeInstr` and `Release` are the three parts of the loop over computes;
`AddInstr` is one turn of the loop of `segment()`. `Planned` adds the plan to the job: that is the
`Plan` the scheduler ships and the engines run. `MCPod` makes the jobs of the runs from it, and `PodAssumption`
has TLC check on each run that the plans executed are the ones `Planner` makes.

The state of an `Engine` is the record `eng[n]`: `table` (the ids not completed; an
instruction's counter of dependences is how many of its `deps` are in it), `ready`,
`allocs`, `frees` (`parked_allocs`, `parked_frees`), `running` (`inflight`, with the addresses the launch
captured), `io` (`io_inflight`), `tiles`, `bump` and `slabs` (the tile store and its arena),
`parked` (serve requests parked for a tile), `kernels`, `waiting` and `fetching` (the kernel waiters), and
`completions` not flushed yet. `queue[n]` is the engine's channel; one `On...` action
per message type is its arm of `handle()`. `task` and `kreq` are the spawned I/O tasks
and kernel requests; the `World` actions are the scheduler, storage, the GPU and the peers.

A round of `Engine::run` is `Begin`, `On...` until the queue is empty, `Poll` until no kernel is
finished, `Issue...`/`Launch`/`AwaitKernel` until nothing is ready, `EndRound` with the flush and the stall check. `turn` lets a
round finish before anything else happens. The engine shares nothing but queues,
so what arrives in the middle of a round has the effect of arriving before the round or before
the next one, with one exception that the model keeps: the stall check
asks only whether *this* round received a message (`got`).

What a buffer or a file holds is a tile and the set of computes applied to
it; a kernel that reads anything but what its arguments name leaves the mark 0.
`mem` is by address, so that a slab given out twice or reused too early is seen in the data.

Abstractions worth knowing:

- Ids are triples of op, tile and compute instead of numbers. Tile layouts, manifests,
  addresses of peers and fetch locations are functions of the job, which is constant.
- Kernels in flight finish in any order. The code has a stream per slot and events; more behaviours, never fewer.
- A tile service replies to a `FetchTile` once; `task` goes from `asking` over `asked` and `served` to done.
- Requests for a tile are parked in a set, and served in any fixed order.
- An I/O may fail (`IoError`), at most `MaxIoFail` times.
- Error paths for a tile that the store does not know are not modelled: they would be an
  evaluation error of TLC, and no run meets one. Errors of the GPU driver are not modelled.
- `Cancel` is handled by the engine but no code sends it; `idle` only gates a log line and a heartbeat
  field. Both are left out.
- Pods do not die; a scheduler that loses one is `Dispatch`'s subject. The composition is planned.

### InferenceServer: correspondence with the code

`worker` names the next block of the worker's loop in `server/mod.rs`, `running` the meter's flag, `queue` the
bounded channel, `session` and `held` the kept `Session` and `session_tokens`, `gen` the tokens chosen, `pending` those
whose bytes do not end a character. A session is the tokens its attention rows hold (`rows`), those its recurrent
state summarises (`rec`) and its checkpoint (`saved`); `Truncate` is the trait's `truncate()` for the three kinds of
session: `llama` returns to any position, `qwen35` to its checkpoint, the default nowhere. `handler[r]` is where the
HTTP handler of `r` is, `chan[r]` its channel, `client[r]` what its client has been told. `Post`, `Read`, `Close` are the handler's,
`HangUp` drops it; `Prefill` is one batch of the prompt pass, `Decode` one turn of the decode loop up to the model's
call, `Feed` the call and the token limit after it. `Fail` is an error of any call once a session exists.

- A token is one character or half of one (`Halves`). Text is the tokens it came from.
- The model chooses any token of `Chosen` or the end; sampling is not modelled.
- Not modelled: authentication, JSON and chat rendering, tool calls, the telemetry, a panic of the worker.

### HostTeam: correspondence with the code

`epoch`, `job`, `withCaller`, `finished`, `arrived`, `generation` are `Shared`; `started` is what the team holds on to
between `start()` and the join. `live` is the set of jobs whose closure and buffers exist: the borrow of
`run()`'s caller, or the box in the team. `pc[m]` is the next atomic operation of a member, `seen`, `turn` and
`at` its locals. `work[j]` holds a row's counters and what each element of its buffers is: raw, right, or
wrong because of a failed kernel. `queue` is the device's stream, `recorded` the launches of the segment that is being
recorded, `flag` and `y` the mapped hand-off. Each atomic operation is a step; atomics are sequentially consistent.
`Doze` is the end of a worker's spinning, `Park` the look at the epoch under the lock and the wait, one step as
in the code; `Publish` and `Notify` are the caller's two halves of it.

- The wide passes of `experts_ffn` use the same team by `run()` and add no step of their own.
- Not modelled: a panic of the recording thread itself, and the error path inside `start`.

### ExpertCache: correspondence with the code

`owner`, `hostOf`, `lru`, `done`, `holds`, `planned`, `jobs`, `results`, `received` are the fields of the host cache;
`content` is what a slot's bytes were written for. `per`, `held`, `slotOf`, `fetched`, `arriving`, `predicted`,
`refills`, `tick` are those of the device slots, `resident` what is in them. `main` and `copy` are the two streams, in
order; a copy's number is its event. A copy's `bytes` are those of its source as it was issued, so that a source rewritten
under a queued copy is seen. Its `of` is the expert it is to bring, or none once that is no longer so: the refill's host slot was claimed for another expert before the copy
was issued, or the device slot was forgotten (`Cool`) or filled by the main stream (`Overtaken`) while the copy was under way. Such a copy is
*stray*. `of` and the `stray` of `resident` are auxiliary: no guard reads them, and they let `CopiesInTime` say what holds of all other copies. The team is the bit `team`: `HostTeam` models what it does.
`pc` is the recording thread: it goes through a block's sync point (`Route`, the refills, `Synced`),
its prefetch, its router's choice, and the placing of each row, and `want` is the fill that any of them asks for.

- A complete host cache, which `HostSlots < Blocks * Experts` rules out, is written at load and never claims.
- `traffic` fixes the kinds of the passes of a behaviour, whether a decode row's misses are left to the host, whether routers
  run a block ahead, and how many host slots there are. The worker writes when it likes, also passes later.
- `HostShare` is the most experts of a wide pass that the host takes; 0 is `PHOBOS_MOE_HOST=0`.
- Not modelled: the upload at load, dense weights that share the memory (`residency.rs`), driver errors.

### RaceMemory and RaceCheck: correspondence with the code

The memory of `memory.rs` is a record: the cells, the ranges of accesses of unknown address, the copies in flight,
each thread's newest group, the hazards. Each operation of `Memory` is a function from a record to the next. `RaceCheck` executes ops
as `exec.rs` does, on every active thread in turn, and skips the middle turns of a loop as `control.rs` does. Beside
it `truth` keeps every touch of the epoch and every copy in flight; the properties compare the two.
The kernel is not given in advance: each step chooses the next op, the threads and the addresses.
The code's loops over threads, ops, turns and copies are recursive functions (`Lanes`, `RunBody`, `RunTurns`, `NextEpoch`, `Wait`), of
which section 3 can reason.

- Where a thread accesses is chosen and not computed: values, layouts and branch conditions, the greater part of `exec.rs`,
  only decide which threads are active and where they access.
- One buffer. Not modelled: clamping of accesses out of bounds, copies of unknown address, a value carried through a loop that
  becomes unknown by a skip, parsing and reports.

### Membar: correspondence with the code

`ir` is the graph of ops and blocks that `membar.rs` walks. `Decide` is the walk: `Leaf` is `leaf()`, `WalkOp` the arms for the
ops with blocks, `Keep`, `AddBefore`, `Between`, `OrderOne` the operations on candidates and pending accesses. The result is the
set of ops whose trailing barrier is dropped and of those that get one ahead. Then the kernel is run on every path, with what each
thread touches computed from layouts and sweeps, independently of what the pass assumes of them.

- The tiles' places are inputs; `plan.rs`, which chooses them, is not modelled.
- Not modelled: pipelined loops, tiles generated lazily, views, scratch ranges, hoisted operands of dots, masked
  slices, control that varies by thread, the layout of matrix fragments.

`Slip...` operators are plausible mistakes in the definition that follows
each; nothing refers to them, and `PROJECT.json` says which property must reject the
specification with which of them in place.

### The runs

Deadlock is not an error in any run: a job, a kernel or a list of passes ends, and a job whose messages are lost
may wait for ever, which the liveness properties are about.

| Run | Instance | Question, and what it shows |
|---|---|---|
| `DispatchZombie` | 3 nodes, 2 outputs, one node may stall, resume and crash, a completion of an earlier job comes in | Ids and counters keep their ranges; every output is at any time durable or expected from a node not known dead; `inflight` is exact, so its subtraction cannot underflow; the books balance although late completions of a node that was given up arrive; `durable` never names what storage lacks; and `Dispatch` implements `JobSpec`: ok only when storage holds every output. |
| `DispatchWakeups` | 2 nodes, 1 output, both may crash, one instruction may fail, read-modify-write, segments of 2 of 3-step chains, budget for one segment, fair | A completion that reached the scheduler is always taken, only outputs of a node given up are computed again, a node has no more of a plan open than the budget, and while nothing fails the job is always answered. |
| `DispatchSecondFailure` | 3 nodes, two may crash, one segment per chain | **Violated** `OkMeansStored`: outputs in `recovering` whose recoverer dies are never planned again. |
| `PodRun` | ten jobs, see below, one I/O may fail, fair | Slabs never overlap, what a STORE leaves is the whole output, a tile is not freed before its peers have it, a node gives up only when nothing on it would be freed any more, and every job ends. |
| `PodFetchDeadlock` | 2 pods, six outputs, peer fetches, arena and budget of the peak and a fifth, fair | **Violated** `JobEnds`: node 0, home of every shared tile, waits for node 1 to fetch a tile before it frees it; node 1's arena is full of buffers allocated out of order, one of which waits for a tile that node 0 has no room to load. Nothing completes and nothing fails. |
| `ServerRun` | 3 requests, a queue of 1, a context of 5, batches of 2, `qwen35`, one failing call, fair | A request is answered from its own prompt, from a session that holds what was recorded; what a client is told of the end is true; everybody is answered. |
| `HostTeamRun` | teams of 1 and 3, 2 steps of no or 2 misses, one panic in any phase, one failing kernel, one pass that ends early, fair | Jobs and phases stay apart, the device adds the row of its own step, an error is reported, and both sides get through, or a worker that died ahead of a barrier strands the others in it. |
| `ExpertRun` | 2 blocks of 3 experts, 2 or 3 device slots each, 2 or 4 host slots, five lists of passes, cool and resize at any time between passes, fair | No copy's source is rewritten under it; a copy that is not stray lands before the kernels that need it and never under one; a batch takes a slot of its own again only when it has every slot that can be taken without waiting; both maps stay each other's inverse, slots do not run out, every pass ends. |
| `ExpertOneRow` | 2 blocks of 3 experts, 1 device slot each, 5 host slots, three decode rows left to the host, look-ahead | **Violated** `NoLateCopy`: with slots for one row only, a late refill is copied into the slot a queued kernel reads. |
| `RaceRun` | 2 lanes of one warp and 1 of another, 2 bytes, up to 6 ops, loops of 2, 5 and 6 turns | A kernel called clean has no race between warps; a race reported is one; an exact access that meets one of unknown address is found. |
| `MembarRun` | 2 threads, four vocabularies of ops, up to 5 ops, loops of 0 to 2 turns | The barriers that are left order every two conflicting accesses on every path, excepted blocks of one op and register tiles whose bytes start elsewhere. |
| `MembarSiblings` | as `MembarRun`, the family with `for` and `ragged` | **Violated** `EveryPathOrdered`: the barrier added for an access in a ragged loop's remainder comes ahead of the loop. |

The four violations are disagreements of the code with its own comments and documents,
quoted under `findings`.

### Configurations beside the runs

Some properties of the runs except a case that the code's comments, documents or tests do not. These
configurations ask for the property without the exception, and TLC finds it violated in seconds. (`ExpertFloor` and `ExpertWide` hold.)

| Configuration | Violates | What happens, and what the repository says |
|---|---|---|
| `PodSizeClasses` (`MCPod`) | `NoStall` | One pod, six outputs, inputs twice as large, an arena of the peak and a fifth. Slabs of freed inputs serve no output, and ALLOCs of later computes take the rest: no FREE to come would help, and `check_alloc_stall()` fails the parked ALLOCs. `phobos-pod/examples/cluster_correctness.rs:154-157`: "The engine parks an ALLOC that would overflow until a FREE makes room, so an arena of peak plus headroom is enough." `PodRun` has a job that stalls like this, and checks that a node gives up only when it must. |
| `HostTeamPanic` (`HostTeam`) | `PanicStillRaises` | A worker that panics in phase 1 or 2 of a started row never enters the barrier. The other worker waits in it for ever, so the guard that raises the flag does not run and `join()` does not return. `phobos-gguf/src/simd/decode.rs:227-228`: "The flag is raised from a guard, so a member that fails or panics still leaves the device a result." `StepsEnd` of `HostTeamRun` names this end. |
| `HostTeamPanicLost` (`HostTeam`) | `PanicReported` | A worker that panics after the second barrier leaves its chunk undone. The panic is caught and dropped (`team.rs:190`), the row is raised without the chunk, and `StartedRow::join()` says ok. `decode.rs:204-205`: "Waits for the row and returns the nanoseconds it took, or what went wrong." |
| `ExpertRefill` (`MCExpert`) | `ReadsOwn` | The host slot of a refill is claimed for another expert after the worker wrote it and before `refill_from()` copies from it (`experts/mod.rs:473`); the other expert's bytes are recorded as the first's. It needs a block with more experts than the host cache has slots. `mod.rs:470-471`: "Copies a refill from host cache slot `slot` into a device slot on `stream`, as [`Experts::fetch`] would have". |
| `ExpertCool` (`MCExpert`) | `ReadsOwn` | `cool_expert_cache()` (`backend.rs:68`) waits for the main stream only. A prefetch on the copy stream is forgotten, the next pass fills its slot on the main stream, and the prefetch lands on top. `mod.rs:525-526`: "The caller has synchronized the stream, so no copy is still filling a slot." |
| `ExpertOvertaken` (`MCExpert`) | `ReadsOwn` | Decode rows whose misses are copied (`PHOBOS_MOE_HOST_DECODE=0`, or a format the host has no kernels for): `place()` (`mod.rs:342`) does not ask whether the victim is still arriving, and a prefetch that is a pass late lands on top of the miss. `op.rs:248-250`: "Without, the stream waits for the arrivals." |
| `ExpertBatch` (`MCExpert`) | `EachWriteItsSlot` | `claim()` (`host_cache.rs:283`) prefers a slot without a pending event; a slot just claimed has none. With all other copies still queued it is claimed again, and two threads write two experts into it. It needs a block with more experts than the host cache has slots. `host_cache.rs:386`: "SAFETY: each write has its own claimed slot." |
| `MembarRegisters` (`MCMembar`) | `RegisterTilesOrdered` | `same_thread()` (`membar.rs:312-326`) compares shape, pitch and element size of a register tile with an access, not where the bytes start. A write to a tile that overlaps it from another first byte passes for one of the same threads, and gets no barrier. `membar.rs:298-299`: "which the compiler orders, unless both sides reach each element from the same thread"; the test at 716 is named `a_sweep_from_another_first_byte_is_another_thread`. |
| `ExpertFloor` (`MCExpert`) | holds: `CopiesInTime` | At the floor of the host cache's size, with refills that outlast their pass: every copy that is not stray lands in time. |
| `ExpertWide` (`MCExpert`) | holds: `TakenAgainLast` | The same with two fills written at once. |

**Bounds of `Dispatch`.** Chains of three steps with segments of two put a segment border
inside a chain: a segment then ends while the chain's STORE is still to come. With a budget of one segment the second is held back until
the first settles, on every plan. Three nodes are needed for a failure with two survivors and for a
failure during a recovery; the recovered outputs are then placed by
`lin % live` over the survivors, which differs from their first placement. Several chains on a node, which share segments, are left to
the theorems: `BudgetKept`, `PlanWithinBudget` and `InflightIsExact` hold for every number of outputs.
The id that `DispatchZombie` finds left of an earlier job is one that no plan reaches.
`MayCrash`, `MayStall` and `MaxBroken` bound the faults; the nodes are told apart by
their ids in placement and id order, so symmetry reduction would not be sound and is not used.

**Bounds of `PodEngine`.** The jobs of `PodRun` are small matmuls `C = A x B` over tiles, the cluster program of the
scheduler's own tests: `update` reads, adds to and stores `C`; `tight`, `sums` and
`pieces` run in an arena of exactly the peak (`pieces` with a budget that cuts the list, so that
the scheduler ships while the engine runs); `sizes` has tiles of two size classes and an unaligned
size; `classes` has inputs twice as large as outputs in an arena of exactly the peak, and may stall because freed slabs serve only their own size; `starved` has an
arena one tile too small: both must then end with the stall reported, once nothing on the node would be freed any more; `fetch` is two pods that
load an input once and fetch it from its home; `withheld` has a pod that fetches a kernel
from node 0, `orphan` one that knows no holder. Two accumulation steps
are the least with an order between kernels on one output, two pods the least with fetches,
and six outputs the least found at which the deadlock shows, and at which an arena of the peak and a fifth stalls for size classes on one pod.

When the kernel withheld is the *clearing* leaf and not the adding one, `JobEnds` fails as well: `GetKernel` can reach
node 0 before node 0 has its kernel, an empty answer is only printed, and the request is never repeated
(`engine.rs:574`). Only the `withhold` knob, used in
`phobos-pod/examples/cluster_grpc.rs`, leads there, and no document says
what is to happen then, so no run shows it; it is listed as a hazard.

**Bounds of `InferenceServer`.** The prompt `more` continues `ask`, so the kept session is extended or rewound,
to the checkpoint in front of the last turn; `long` fills the context and is refused. One slot in the queue
makes it full while the worker has a request. Batches of 2 cut a prompt at the checkpoint and in front of it. One call
fails; a second failure meets the same states again. The theorems of section 3 have none of these bounds.

**Bounds of `HostTeam` and `ExpertCache`.** Three members are the caller and two workers, of which one can be late; two steps over one
block reuse its flag; two misses with one chunk per phase give each worker of a started row one and make phase 2 wait. The panic may come in
any phase; `StepsEnd` has two ends, and the second is the one that `HostTeamPanic.cfg` shows. Two blocks
let a refill and a prefetch of one meet a row of the other. Three experts in two slots evict; three slots are the
whole block. Two host slots are one more than a row uses, four more than `AHEAD` needs.

The code gives a host cache that does not hold every expert at least `max(256, 2 * per_block + 2 * sets + AHEAD + MOE_USED)` slots (`experts/mod.rs:736`).
The instances of `ExpertRun` are below that floor, which is harsher for all it checks: claims wait more often. What depends on the floor is asked at it: `ExpertFloor`, `ExpertWide`, `ExpertRefill`
and `ExpertBatch` have exactly that many slots, without the fixed 256, and one expert more than slots, as a refill's or a batch's slot can only be
claimed again when a block has more experts than the host cache slots. `NoLateCopy` was found violated as by `ExpertOneRow` at the floor, too (5 experts, 9 slots). `ExpertFloor` writes one fill at a time (`Ahead = 1`):
with two, the wrong expert of `ExpertBatch.cfg` reaches a kernel, and `CopiesInTime` fails for that reason.

`CopiesInTime` excepts stray copies (`ExpertRefill.cfg`, `ExpertCool.cfg`, `ExpertOvertaken.cfg`) and blocks with no slot more than a row takes (`ExpertOneRow`). It holds as well in larger instances, checked once: rows of two experts
in three slots with misses on the host (3.4 million states) or copied (9.5 million), and three decode rows with misses copied and
the residents dropped between them (5.5 million). Without `Cool`, the instance of `ExpertCool.cfg` satisfies `ReadsOwn` and `NoLateCopy`.

**Bounds of `RaceCheck` and `Membar`.** Three threads in warps of two have a pair in one warp and pairs in two. Two bytes have an interval that
covers what neither access does. Six ops are two groups of copies with a wait and a barrier between. Loops of 5 and 6 turns skip
one turn and two. A body walked twice is compared with bodies run up to twice: a third turn adds no
pair of ops, because what is pending is a set. `MembarRun` was repeated once with six ops for the families with loops
(12.1 and 4.6 million states) with the same result.

**Fairness.** The dispatcher and the watchdog are tokio tasks, which run when they
can; a live engine issues what is ready; streams of live nodes deliver. There
is no fairness on faults, on `Resume`, on heartbeats, or on `StreamEnd`: a dead peer need not close its
stream, and the watchdog exists because of it. The watchdog's fairness is over its
step as a whole: it scans as long as a silent node is in `last_seen`.
In `PodEngine` everything is fair but an I/O error: threads run, kernels end, file operations return, and
messages between live processes arrive. Each such step uses up
a part of a finite program, so weak fairness of their disjunction gives each its turn.
In `InferenceServer` the worker thread runs and calls into the model return, and the runtime polls each handler that
has something to read; clients, the user and failures are not fair. In `HostTeam` the recording thread, the device and
each member run on; that a worker stops spinning (`Doze`), an error that ends a pass and a panic are not fair. In
`ExpertCache` the recording thread, the worker, both streams and the team run on; `Cool` and `Resize` are choices of the
caller. `RaceCheck` and `Membar` have safety properties only.

### Observations

What the code does and no run shows, because no document contradicts it or the bounds of the project are spent on something else. Each
property is in its module; the constants are what is changed in the cfg named.

- *Dispatch*, with `Width = 2`, `NKeys = 3`, `ChainLen = 3`, `SegLen = 2`, `Budget = 1`, `SegBytes = 1`, `MayCrash <- FirstNode`:
  `ExactlyOnce` is violated with `Rmw = TRUE`: a STORE done but not yet processed is repeated by recovery.
  `FailsOnlyWhenHopeless` is violated with `Rmw = FALSE`: a send to a node unregistered in between fails the job.
  `BudgetRespected` is violated: bytes in flight are counted per plan, not per node.
  With `NKeys = 2` and `FairSpec`, `FailuresTaken` is violated: a node marked down between the look at `down` and the
  creation of the wait wakes nobody (`server.rs:604`).
- *HostTeam*: `OwnRow` is violated with `MaxAbort = 1`: a flag raised for a row that is never added stays up and releases the next.
- *InferenceServer*: a request queued when the worker leaves is answered with status 200 and "stop" and no text; so is one that a quit cuts off.
- *RaceCheck*: `GatherChecked` is violated by the instance of `RaceRun`: later threads of an op whose range is already covered are not
  checked against the exact accesses (`memory.rs:208`). `RacesAreReal` is violated without `SkipsPairs`: a loop over two slots that
  skips an odd number of turns makes neighbours of turns that never meet. Between lanes of one warp, races are missed when the reader kept has an older stamp
  than one that was not; a thread's own wait or write clears the mark of a later copy to the same byte.
- *Membar*: `EveryPathOrdered` is also violated for a read in a `while`'s condition and a write in its
  body, and for the two branches of an `if` in a loop.

## 3. What is proved

### Dispatch

For every `Width`, `NKeys`, `ChainLen`, `SegLen`, budget and set
of faults that `PlanAssumption` and `DispatchAssumption` allow: at least one node
and one output, chains of at least three steps.

| Theorem | States | Assumes besides |
|---|---|---|
| `TypeCorrect` | `Spec => []TypeOK` | nothing; stale completions included |
| `BooksBalance` | `Spec => []Accounting`: `retired + abandoned + open = total` at every lock block, whatever fails and in whatever order reports and failures come | `Stale = {}` |
| `OkMeansNothingOpen` | when the job is answered ok, no instruction of any plan is expected from a live node | `Stale = {}` |
| `DurableOutputsStored` | `Spec => []DurableIsStored`: recovery never takes an output for stored that is not | `Stale = {}` |
| `OutputsCovered` | `Spec => []OutputCovered`: as long as the job has not failed, every output is durable or expected from a node not known to be down | `Stale = {}`, one suspect |
| `OkMeansAllStored` | `Spec => []OkMeansStored` | `Stale = {}`, one suspect |
| `KeepsPromise` | `Spec => JobPromise`: `Dispatch` implements `JobSpec` | `Stale = {}`, one suspect |
| `RepeatsOnlyTheLost` | `Spec => []RepeatsOnlyLost`: an output is updated twice only if its owner was given up | nothing; stale completions and any number of failures included |
| `InflightIsExact` | `Spec => []InflightExact`: a plan's `inflight` counts the segments sent and not finished, so that the subtraction in `Retire` never underflows | `Stale = {}` |
| `PlanWithinBudget` | `Spec => []PlanKeepsBudget`: the segments of one plan that a node has open stay within the budget, or are a single one | `Stale = {}` |
| `BudgetKept` | `Spec => []BudgetRespected`: so do the bytes in flight for a node | `Stale = {}`, no node crashes or stalls |

`Stale = {}` is the code's own assumption: nothing in `server.rs` keeps a completion of an
earlier job apart from one of this job, and with an aliasing id the books do
run ahead. *One suspect* is `MayCrash \cup MayStall \subseteq {f}` for some node `f`: at most one node may
crash or fall silent. It is sharp: `DispatchSecondFailure` is a counterexample with two.

**The books.** `Accounting` is not inductive: `Retire` adds one to `retired` and removes the id from
`remaining`, which keeps the sum only if the id was in it. The inductive invariant is
`BookInv == Books /\ Pipe /\ StillOpen /\ Accounting`. `Books` bounds the
ids by `iidHigh`. `Pipe` says that a report is of an instruction that was executed and
that an id is in one place at most on its way (a node's wire, `completed_iids`, the
batch). `StillOpen` says that what was not executed, or was and is still on its way, is
open unless its node was given up. So `Known` (the code's check of `down_set`,
`server.rs:617`) and the pipe together give membership in `remaining`.

`StartPlan` needs the fresh ids of `ChainPlanProofs`: an id of a plan over `base` lies in
`base + 1 .. base + |R| * ChainLen` (`IidBounds`, `PlanIidsFresh`), which rests on
`PlacementLive` (work is placed on live nodes) and on `NthExists` (the i-th element of a
finite set exists, from the injection of a set to its ranks).

**Storage.** `StoreInv` adds that what was executed and is a STORE has stored its output, and that
`durable` names only outputs of such a STORE that was taken. It needs `Pipe`: a report is of something executed.

**The promise.** `OkMeansStored` says nothing of a running job, so the invariant has to say how each output gets
into storage: `OutputCovered`. That in turn is kept by recovery only because recovery
reasons from the first plan. `PromiseInv(f)` therefore is the conjunction of the invariants above and

- `OneSuspect(f)`: only `f` is ever silent, marked, in `down` or in `downSet`;
- `FirstPlan`: until a node is down, nothing is in `recovering` and each instruction is on the owner of its
  output, so that the outputs lost with `f` are exactly those that the dispatcher takes for lost;
- `Progress`: there is an answer only at the end, and a plan that was
  registered has instructions, so that `total > 0` and the loop cannot end on an empty plan;
- `OkClosed`: an ok answer leaves nothing open.

At `Recover` the outputs lost are covered by the new plan: each has a STORE there (`NewEntries`, from `TableEntry` and
`IidInjective`: no id of a plan stands for two instructions) on a survivor, and a survivor is not `f`. A second failure would break `FirstPlan`'s role at exactly this step:
this is the finding of `DispatchSecondFailure`. `RefineStep` shows that each step under the invariant is a step of
`JobSpec` or a stutter: `Finish` is `AnswerOk`, `Run` of a STORE is `StoreOutput` or a stutter,
the failing exits are `AnswerErr`.

**Repetition.** `RepeatsOnlyLost` bounds how often an output was stored, which is decided long before the STORE: by what was planned, and by
when each chain's LOAD read storage. `RepeatInv` says that an output is planned anew only once its owner was given up (`OncePlanned`), that the
steps of a chain have consecutive ids and one node (`Chains`), and that a chain runs in order, so that its LOAD comes before its STORE and
each STORE is run once (`LoadedFirst`). It needs nothing of the counters or the pipe, so stale completions are allowed.

**Bytes in flight.** `InflightExact` equates a counter with a cardinality of segments over the ids that are still open. The counter moves when a
segment is sent and when the last id of one retires. `ShipInv` therefore adds that no segment up to the node's last is empty (`Filled`), which is arithmetic on
placement and rank (`SegmentFilled`, with nonlinear lemmas on quotients in `ChainPlanProofs`), and that what was issued was sent (`IssuedShipped`): a segment just sent
has all of its instructions open, so it opens exactly one, and the last retirement of one closes exactly one. `PlanBudget` follows
the guard of `ship_ready`. It bounds one plan; recovery adds a plan with a budget of its own, which is why `BudgetKept` assumes that
no node fails, and `BudgetRespected` is violated when one does (see the observations).

### HostTeam

For every size of team from one member up to any bound, every number of steps, blocks, misses and chunks, every history of errors, panics and passes that end early
(`TeamAssumption`), and nothing besides.

| Theorem | States |
|---|---|
| `TeamTypes` | `Spec => []TypeOK` |
| `JobsNeverOverlap` | `Spec => []JobsApart`: a member is in a job only while its closure and buffers exist, and a job is set only when no member is in another |
| `PhasesNeverMix` | `Spec => []PhasesApart`: no member reads a chunk of the phase before that is not written |
| `OkRowsAreWhole` | `Spec => []OkMeansWhole`: a step told ok had its whole row computed, or a panic is on record |
| `AddsItsOwnRow` | `Spec => []AddsOwnRow`: while no pass was cut off, the device adds the row of the step it adds it for |

The inductive invariants build on each other. `TeamInv` is the protocol of a job: where the recording thread is says which job is set and for
whom (`HostHolds`, `JobHeld`); a worker between jobs has the epoch or is one behind, and is up to date whenever no job is set or the next is about to be published (`WorkersKeepUp`); and
`finished` counts the workers that are through (`FinishedCounts`), so that the join, which waits for the count, lets a job end only when every worker has left it.
`CrewInv` counts the barrier: `arrived` is the number of members waiting in the present generation, the one that opens it is the last, and
nobody is two generations behind (`BarrierCounts`). It also counts those that left a started row, one of which sums it (`LeftCounts`, `OneSums`). `RowInv` says that the whole
crew is in one phase, that what the phases before had to write is written, and that what is claimed in this one is being written by one member or belongs
to one that died (`RowInPhase`); an element that is wrong is on record (`BadIsNoted`). From it follow `PhasesApart` and, with `ToldInv` on the way of an error to the
caller, `OkMeansWhole`. For the device, `StreamInv` says what can be queued, `HandInv` that a flag that is up is that of the one row still to be added, and `SeenRaised` that
an add under way was released by its flag.

### InferenceServer

For every set of requests, every prompt that is not empty, every size of queue, context and batch, every kind of session
and every number of failures (`ServerAssumption`), and nothing besides.

| Theorem | States |
|---|---|
| `ServerTypes` | `Spec => []TypeOK`: the queue stays within its bound, and the worker holds a request exactly while it works on one |
| `KeptSessionTrue` | `Spec => []SessionHoldsHeld`: a kept session holds, in every layer, the tokens recorded for it |
| `OwnPrompt` | `Spec => []AnswersOwnPrompt`: what is fed for a request is its prompt and the tokens chosen for it, whatever was kept or rewound before |
| `ContextHolds` | `Spec => []ContextRespected` |
| `EndsAreTrue` | `Spec => []EndIsTrue`: a client told that its answer is complete was sent as many tokens as it was told, and "stop" was the model's own end unless the server is leaving |

None of them is inductive. For the first four `ServerInv` adds that every layer of the session holds the same tokens and that a checkpoint is of tokens the
session still holds (`SoundSession`), and says what it holds in each phase of the worker: what is recorded (`Resting`), a strict prefix of
the prompt (`Prefilling`), the prompt and the tokens chosen (`Decoding`), all but the last of them (`Feeding`). A request refused
leaves `Resting` as it was; a prompt pass cut off records exactly what it fed.
The step from `Resting` to `Prefilling` is where the argument is: the session is cut to a length that is at most `CommonPrefix(held, ids)`,
and there `held` and the prompt agree (`RewoundFact`). `CommonPrefixFact` needs that the longest common prefix, which is a `CHOOSE`, exists: the lengths
a sequence lacks to a common prefix have a least element (`LeastExists`, from the well-foundedness of the naturals). That a rewind to the checkpoint is no longer than asked for is `TruncateSound`.

`EndIsTrue` relates what the worker counted to what the client has read, with a channel in between from which a client may walk away. `AnswerInv` follows each request:
it is in one place, in the queue, with the worker or off (`OnePlace`), and `Tracked` says for each place what its channel carries. The messages not read yet carry exactly the text that was sent
and not read (`Carry`), only the last of them ends the answer, the usage in it is the length of the text up to it, and a request that left the worker while its client waits has such a message or
was told the end. Lemmas on messages (`Carry...`, `GoesOn...`) say how a message sent or read changes that; they speak of values and not of the
state, so that they apply to the state before a step and after it. Once the server leaves (`Serving` is false) nothing is promised, as the code has it.

### RaceCheck

For every number of threads, warps and bytes, every number of ops, every kind and order of them, every mask and address (`SizesAssumption`, `KernelsAssumption`).
`NoneSkipped` holds until a loop jumps to its last turns; a kernel without a loop of more than four turns never does.

| Theorem | States |
|---|---|
| `CheckTypes` | `Spec => []TypeOK`, with turns skipped or not |
| `CleanKernels` | `Spec => [](NoneSkipped => CleanMeansNoRace)`: of a kernel called clean, no two threads of different warps raced |
| `ReportedRaces` | `Spec => [](NoneSkipped => RacesAreReal)`: a race reported between exact accesses happened |
| `LaterExactReported` | `Spec => [](NoneSkipped => LaterExactFound)`: an exact access after one of unknown address by another thread is reported |

The check forgets and the truth does not, so the invariant `Faithful` says what the little that is remembered stands for. It has a part for each direction.
*Nothing is missed* (`CleanFree`, `Marked`): as long as no race of two warps is reported, each exact write of the epoch has the byte's one writer in its warp,
and each exact read has the first reader in its warp, or there are readers of two warps (`far`). That is why three readers are enough: a write from any warp
then meets one of another. Without the `far` of `Remember` the lemma `RememberMarks` fails. The invariant must be conditional: once a race is reported, a byte's writer says nothing of the others.
*Nothing is invented* (`Logged`, `InFlightTrue`): what a cell remembers is a touch of this epoch, and a cell is marked in flight only if its writer's
copy is. For accesses of unknown address, `RangesCover` says that each is within a range of its op that is its own thread's or shared.

Copies cross barriers, and the check keeps them with a group number where the truth keeps a set for each open and closed group. `Tracked` relates the two: a thread's
group number, less the number of its groups still in flight, is the same offset for all its copies. A commit closes the open set and
a wait drops groups from the front (`CloseTracked`, `WaitKeeps`; `WhichStay` is the arithmetic of the saturating subtraction at `memory.rs:336`). A barrier writes the copies in flight again, in order, and may
so report a pair anew: `PairsTold` says that such a pair was a race when the second copy was made.

Each operation has a lemma that it keeps the types and the invariant (`AccessSound`, `CopySound`, `GroupSound`, `WaitSound`, `BarrierSound`, `WarpSyncSound`).
An op, a body and a number of turns then keep both, by recursion over threads, ops and turns (`LanesSound`, `BodySound`, `TurnsSound`). A recursive function is a `CHOOSE` and says
nothing until it is shown to exist. `FoldExists` shows this once, for functions of a set into itself, by induction over a set
of numbers (`UpTo`, from `LeastExists`), and each recursion is an instance. The types hold across the skip; what the skipped turns could have shown stays with TLC.

### PodEngine

For every number of jobs and nodes, every size of arena, every set of kernels not sent, every bound on failing I/O (`PodAssumption`), and every
plan that is as `PlanAssumption` says. That one states four facts of `lower()` and `segment()`, which TLC evaluates for every job of `PodRun` and `PodFetchDeadlock`.
They are assumed and not derived from `Planner`, whose lists are built by folds.

| Fact | Says | From |
|---|---|---|
| `InOrder` | a node's segments hold each instruction once, and none before what it depends on | the topological order of `lower()`, which `segment()` cuts |
| `Named` | an id tells the tile, and there is one ALLOC, FREE and FETCH of a tile on a node | `lib.rs:640-802` |
| `AllocFirst` | what uses a tile depends on its ALLOC, or on another instruction that uses it | a LOAD, FETCH or first write depends on the ALLOC, computes on those, a STORE on the last write, a FREE on the STORE or all readers (`lib.rs:640-802`) |
| `Counted` | a FREE waits for at least as many serves as there are nodes that fetch the tile | `remote_serves`, `lib.rs:609` |

| Theorem | States |
|---|---|
| `Invariance` | `Spec => []IInv`, the inductive invariant |
| `Types` | `Spec => []TypeOK`: what an engine keeps in any list, runs or has I/O for is in its table; what it completed or reported is not |
| `ArenaNeverOverlaps` | `Spec => []SlabsDisjoint`: buffers and free slabs lie in the arena, and no two of them overlap |
| `NeverFreedEarly` | `Spec => []ServedBeforeFreed`: a tile is freed on its home only when no FETCH of it is asking or waits for the answer |

None of the three is inductive. `IInv` says of each engine, given the ids in the hand of its I/O tasks or told by a message not read (`L`), those
reported (`D`), and a bound on how often each tile may have been served (`B`), that it is `Good`:

- `Orderly`: an id is in one list at most, in the table while it is in one, and in none while its I/O is under way (`Apart`, `InTable`); what is ready, running or
  under way has all it depends on completed (`DepsOk`); an ALLOC is parked only among ALLOCs and a FREE among FREEs (`OpsOk`).
- `Stocked`: the arena is sound (`ArenaOk`, from which `SlabsDisjoint` follows); a tile whose ALLOC completed has a buffer until its FREE has (`TilesKnown`);
  a FREE parked has its buffer, which expects as many serves as the plan says (`FreesKnown`); and no buffer was served more often than the bound, nor freed below its count (`ServesOk`).

`TilesKnown` with `AllocFirst` and `DepsOk` gives that an instruction finds the buffers of the tiles it names, which the code takes for granted (`self.tiles[&tile]`).
One operation of an engine, such as the completion of a load, calls others that go round again: `on_resident` serves what is parked, each serve retries the FREEs, those that succeed retry the ALLOCs.
The lemmas say of each of these that it takes a `Good` engine to a `Good` one (`Moves`, `Completed`), and `IsTried`, `IsServed` go by induction over the list
that is retried: the recursive functions `Tried` and `OnResident` are shown to exist first, as in `RaceCheckProofs`. In the middle of a serve the bound is raised by the serves still to come (`More`).

Between the engines the invariant counts. `Waits(h, t)` are the nodes whose FETCH of tile `t` from home `h` is not answered: not yet issued, asking, or with a request in the queue or
parked at the home. It never grows, because a FETCH is issued once (`RequestsOk`, `Issued`). `Bound[h][t]` is the number of the nodes that fetch `t` and no longer wait. Each serve answers one request, so it raises
the count of serves by one and lowers `Waits` by one node. A FREE that completed had at least as many serves as the plan counts, by `Counted` at least as many as there are peers; with
`ServesOk` the bound is then all of them, and nobody waits, which is `ServedBeforeFreed`. A FETCH that failed no longer waits without having been served: the bound then
exceeds the serves, the FREE never completes, and nothing is freed early. (That the job is then told to fail is `JobEnds`, for TLC.)

### ExpertCache

For every number of blocks, experts and experts in use, every size of both caches and every change of it between passes, every traffic of decode rows, passes of several rows and prompts
with and without look-ahead, refills, cooling and the host team (`CacheAssumption`). A host cache has at least `Used + 1` slots: `host_cache()` never makes one
of fewer than `2 * per_block + 2 * sets.len() + AHEAD + MOE_USED` (`experts/mod.rs:736`), which is more.

| Theorem | States |
|---|---|
| `Invariance` | `Spec => []IInv`, the inductive invariant |
| `Types` | `Spec => []TypeOK`: the order of use names every host slot once, and slots, events and refills are in range |
| `MapsAlwaysAgree` | `Spec => []MapsAgree`: in both caches the map from experts to slots and that from slots to experts are inverse |
| `AlwaysASlot` | `Spec => []NeverOutOfSlots`: no claim finds every host slot held and nothing out with the worker, and no row finds all device slots of its block stamped for itself |

`HostMaps` and `DeviceMaps` are the maps of the two caches, `LruOk` the order of use, `TeamOk` what the host team holds, and the other parts say where the recording thread is and what it has in its hands. Two arguments carry it.

*No slot is lost.* The team holds at most the misses of one decode row, `Used` slots (`TeamOk`, from `DecodeRow`: the row and the misses so far
are no more than the row chose). The cache has more, so a claim finds a slot that is idle, or one with the worker that it can wait for. On the device
a row or group has at most `per` experts (`RowFits`), and slots stamped in this tick hold only experts of it: were all of them stamped, they would hold all experts
of the row, the one to be placed among them, which has no slot. So a victim exists (`ImageFits` is the pigeonhole).

*Maps stay inverse while fills are planned.* A plan names experts for which no slot was claimed yet, and between the plan and its submission the row places others. `PlannedApart` says that what is still planned is distinct, neither held nor resident, and still ahead in the row;
`WantOk` that a fill under way is of an expert its block does not have.

### Only model-checked

- *Liveness.* `Termination`, `CompletionsTaken`, `JobEnds`, `Answered`, `StepsEnd` and `PassesEnd` hold under fairness, which is out of the prover's reach.
- *`StoredWhole`* of `PodEngine` speaks of what is in each buffer through kernels, copies and peers; the invariant for it needs the dependence order of `lower()` for
  data (who wrote a tile last) in place of the four facts above.
- *`StallsAreFinal`* of `PodEngine`: that nothing on the node would be freed any more at a stall needs, besides the four facts, what each FREE still waits for.
- *`SourceStable`, `CopiesInTime` and `TakenAgainLast`* of `ExpertCache` relate the bytes in a slot to the copies queued on two streams. `CopiesInTime`
  does not hold for every cache that `CacheAssumption` allows: it depends on how many copies are queued against the number of host slots (see
  the bounds). A proof would have to count the copies queued and follow each and its event from the fill to the kernel.
- *`BarriersSuffice`* of `Membar`: the pass walks nested blocks with `RECURSIVE` operators, which no theorem may reach.
- *Skipped turns.* That a loop's middle turns can be skipped (`CleanMeansNoRace`, `RacesAreReal` and `LaterExactFound` after a skip) is checked by `RaceRun` for loops
  of five and six turns: a proof would relate the states of the check a period apart.
- *The facts of the plan.* That `Planner` makes plans as `PlanAssumption` says needs induction over the folds that build them. TLC evaluates it for the jobs of the runs.

## 4. Not modelled

Besides what each section names: tokenising, sampling, chat rendering and telemetry; the forward passes of `phobos-gguf` and their tuning;
parsing, types, layouts and code generation of `phobos-lang` and `phobos-mlir`; the cluster program compiler, the autotuner, plan drawing, the leaf
compilation ahead of a dispatch; the terminal interface, benches, the ONNX importer, the Python front end and the website. These are
functions of their input, of which a model checker would see a sliver and a test sees more. They are also most of the repository's lines, so that the share of
the repository that the models stand for is small; the share of its concurrent code is not.

## 5. Plan

Done: `ChainPlan`, `Dispatch`, `JobSpec`; `Planner` and `PodEngine`; `InferenceServer`, `HostTeam`, `ExpertCache`; `RaceMemory`, `RaceCheck`, `Membar`; the proofs of
section 3. Left, in this order:

1. Re-registration and several jobs: connections with an identity, a second dispatcher over
   the same `State`, ids that alias. These are the hazards of `server.rs:775`, `789`, `466`, `565`.
2. A module that composes the scheduler with engines in place of the abstract nodes: pods that die while peers wait for their tiles, an engine shown to
   implement `Run` and `Break` of `Dispatch`.
3. The plan of shared memory (`plan.rs`) in front of `Membar`, so that the tiles that share bytes are those it lets share them.
4. Proofs: `StoredWhole` of `PodEngine` from the data dependences of a plan; `SourceStable` and `CopiesInTime` of `ExpertCache`;
   the skip of a loop's middle turns in the race check.

The number of runs is kept small, one per question: where a later module answers the same
question better, its run replaces the present one.
