----------------------------- MODULE PodEngine -----------------------------
(***************************************************************************)
(* The engines of a cluster's nodes (phobos-pod/src/engine.rs) with their  *)
(* tile stores and arenas (tile_store.rs) and tile services (server.rs),   *)
(* executing a plan of Planner that the scheduler ships segment by         *)
(* segment.                                                                *)
(*                                                                         *)
(* An engine is one thread that goes round: drain the message queue, poll  *)
(* the kernels in flight, issue what is ready, send off completions.  It   *)
(* shares nothing with others but queues, and a message that arrives in    *)
(* the middle of a round might as well have come before it or after it;    *)
(* so `turn` lets an engine finish a round without interleaving.           *)
(*                                                                         *)
(* A definition named Slip... is a plausible mistake in the one after it,  *)
(* and nothing refers to it.                                               *)
(***************************************************************************)
EXTENDS Planner, Lists

CONSTANTS
    Jobs,      \* the jobs to choose from: a function to records of Planner
               \* with their plans, and with arena, the bytes of a node's arena,
               \* and withheld, the <<node, leaf>> of kernels a node is not sent
    MaxIoFail  \* bound: LOADs, STOREs and FETCHes that fail

ASSUME PodAssumption ==
    /\ MaxIoFail \in Nat
    /\ \A j \in DOMAIN Jobs :
        /\ Jobs[j].width \in Nat \ {0} /\ Jobs[j].arena \in Nat
        /\ Jobs[j] = Planned(Jobs[j])

VARIABLES
    jobName,   \* the job, of those in Jobs
    turn,      \* the node in the middle of a round, or Nobody
    phase,     \* where the round is: "drain", "poll" or "issue"
    got,       \* msg_recvd of the round
    queue,     \* the engine's channel, by node
    eng,       \* the engine's own state, by node
    mem,       \* what is at an address of the arena, by node
    task,      \* I/O tasks under way, by node and instruction
    kreq,      \* kernel requests under way, by node and leaf
    stream,    \* kernels on their way from the scheduler, by node
    shipped,   \* number of segments shipped, by node
    reported,  \* completions sent, by node
    failed,    \* failures sent, by node
    stored,    \* the outputs in storage
    ioFailed   \* number of failed I/O tasks

roundVars == <<turn, phase, got>>
ioVars    == <<task, kreq, stored, ioFailed>>
shipVars  == <<jobName, stream, shipped>>
outVars   == <<reported, failed>>

vars == <<roundVars, queue, eng, mem, ioVars, shipVars, outVars>>

-----------------------------------------------------------------------------
(* The job *)

Nobody == -1
Leaves == 0 .. 1

(* A name of their own, of which TLC keeps the value.                      *)
Catalog     == Jobs
Job         == Catalog[jobName]
Pods        == 0 .. Job.width - 1
Segs(n)     == Job.segs[n]
Program(n)  == Job.program[n]
Code(n, id) == Job.code[n][id]
AllIds(n)   == DOMAIN Job.code[n]

(* The ids of instructions, in their order.                                *)
Ids(instrs) == [k \in DOMAIN instrs |-> instrs[k].id]

(* What lower() and segment() see to, and the engines rely on.  The        *)
(* segments hold an instruction once, and after the ones it depends on.    *)
InOrder(job, n) ==
    LET ids(s) == Ids(job.segs[n][s].instrs)
        All    == DOMAIN job.code[n]
    IN /\ Len(job.segs[n]) \in Nat
       /\ Ids(job.program[n]) \in Seq(All) /\ IsInjective(Ids(job.program[n]))
       /\ \A s \in 1 .. Len(job.segs[n]) :
            /\ ids(s) \in Seq(All) /\ IsInjective(ids(s))
            /\ \A r \in 1 .. s - 1 : ToSet(ids(r)) \cap ToSet(ids(s)) = {}
            /\ \A id \in ToSet(ids(s)) :
                    job.code[n][id].deps \subseteq UNION {ToSet(ids(r)) : r \in 1 .. s}

(* An id tells the tile, and an ALLOC, a FREE and a FETCH.                 *)
Named(job, n) ==
    \A id \in DOMAIN job.code[n] :
        LET i == job.code[n][id]
        IN /\ i.tile = id[2] /\ i.leaf \in Leaves /\ i.serves \in Nat
           /\ TileBytes(job, i.tile) \in Nat
           /\ i.op = "alloc" <=> id = Alloc(i.tile)
           /\ i.op = "free" <=> id = Free(i.tile)
           /\ i.op = "fetch" => id = Ingest(i.tile) /\ i.from \in 0 .. job.width - 1

(* All that use a tile come after its ALLOC: they depend on it, or on      *)
(* another that uses the tile.                                             *)
Uses(i) == {i.tile} \cup {arg.tile : arg \in ToSet(i.args)}

AllocFirst(job, n) ==
    \A id \in DOMAIN job.code[n] :
        LET i == job.code[n][id]
        IN i.op # "alloc" =>
            \A tile \in Uses(i) :
                \/ Alloc(tile) \in i.deps
                \/ \E d \in i.deps : /\ job.code[n][d].op # "alloc"
                                     /\ tile \in Uses(job.code[n][d])

(* A FREE waits for as many serves as there are FETCHes of the tile.       *)
Peers(job, n, tile) ==
    {m \in 0 .. job.width - 1 :
        /\ Ingest(tile) \in DOMAIN job.code[m]
        /\ job.code[m][Ingest(tile)].op = "fetch" /\ job.code[m][Ingest(tile)].from = n}

Counted(job, n) ==
    \A id \in DOMAIN job.code[n] :
        job.code[n][id].op = "free" =>
            Cardinality(Peers(job, n, id[2])) <= job.code[n][id].serves

ASSUME PlanAssumption ==
    \A j \in DOMAIN Jobs : \A n \in 0 .. Jobs[j].width - 1 :
        /\ InOrder(Jobs[j], n) /\ Named(Jobs[j], n)
        /\ AllocFirst(Jobs[j], n) /\ Counted(Jobs[j], n)

(* The manifest of a node gives it the addresses of the nodes it fetches   *)
(* from, and a kernel's holder is node 0.                                  *)
KnowsHolder(n) == \E id \in AllIds(n) : Code(n, id).op = "fetch" /\ Code(n, id).from = 0

(* Maps, with a key written and without it.                                *)
Put(f, x, v) == [y \in DOMAIN f \cup {x} |-> IF y = x THEN v ELSE f[y]]
Without(f, x) == [y \in DOMAIN f \ {x} |-> f[y]]

-----------------------------------------------------------------------------
(* The arena: addresses are offsets *)

ALIGN == 256
MIN_CLASS == 256

AlignUp(x) == ((x + ALIGN - 1) \div ALIGN) * ALIGN
SizeClass(bytes) == Max({AlignUp(bytes), MIN_CLASS})

TileClass(tile) == SizeClass(TileBytes(Job, tile))
FreeSlabs(e, class) == IF class \in DOMAIN e.slabs THEN e.slabs[class] ELSE <<>>

SlipForgetPadding(e, class) == e.bump + class - ALIGN <= Job.arena
FitsOnTop(e, class) == AlignUp(e.bump) + class <= Job.arena
CanAlloc(e, class) == FreeSlabs(e, class) # <<>> \/ FitsOnTop(e, class)

(* The last slab freed of the class, or one on top of the bump pointer.    *)
Address(e, class) ==
    IF FreeSlabs(e, class) # <<>> THEN Last(FreeSlabs(e, class)) ELSE AlignUp(e.bump)

AllocTile(e, tile) ==
    LET class == TileClass(tile)
        addr  == Address(e, class)
        buf   == [addr |-> addr, class |-> class, resident |-> FALSE,
                  serves |-> 0, expected |-> 0]
    IN IF FreeSlabs(e, class) # <<>>
       THEN [e EXCEPT !.slabs[class] = Front(@), !.tiles = Put(@, tile, buf)]
       ELSE [e EXCEPT !.bump = addr + class, !.tiles = Put(@, tile, buf)]

FreeTile(e, tile) ==
    LET buf == e.tiles[tile]
    IN [e EXCEPT !.tiles = Without(@, tile),
                 !.slabs = Put(@, buf.class, Append(FreeSlabs(e, buf.class), buf.addr))]

SlipServesIgnored(e, tile) == tile \in DOMAIN e.tiles
ServesSatisfied(e, tile) ==
    tile \in DOMAIN e.tiles /\ e.tiles[tile].serves >= e.tiles[tile].expected

-----------------------------------------------------------------------------
(* What an engine does to its own state e *)

(* An id whose last dependence goes is ready; those of one completion in   *)
(* the order in which they were registered.                                *)
Released(n, left, id) ==
    {i \in left : id \in Code(n, i).deps /\ Code(n, i).deps \cap left = {}}

Complete(n, e, id) ==
    LET left == e.table \ {id}
    IN IF id \notin e.table THEN e
       ELSE [e EXCEPT !.table = left,
                      !.ready = @ \o Only(Ids(Program(n)), Released(n, left, id)),
                      !.completions = @ \cup {id}]

TryAlloc(n, e, id) ==
    LET tile == Code(n, id).tile
    IN IF CanAlloc(e, TileClass(tile)) THEN Complete(n, AllocTile(e, tile), id)
       ELSE [e EXCEPT !.allocs = Append(@, id)]

TryFree(n, e, id) ==
    LET tile == Code(n, id).tile
    IN IF ServesSatisfied(e, tile) THEN Complete(n, FreeTile(e, tile), id)
       ELSE [e EXCEPT !.frees = Append(@, id)]

(* The({F(x) : x \in {e}}) is F(e), for which TLC evaluates e once.        *)
The(S) == CHOOSE x \in S : TRUE

(* Parked ALLOCs and FREEs are tried again in order; what still has to     *)
(* wait is parked anew.                                                    *)
Try(n, e, id) == IF Code(n, id).op = "alloc" THEN TryAlloc(n, e, id) ELSE TryFree(n, e, id)

Tried(n, e, ids) ==
    LET after[k \in 0 .. Len(ids)] ==
            IF k = 0 THEN e ELSE The({Try(n, prior, ids[k]) : prior \in {after[k - 1]}})
    IN after[Len(ids)]

SlipRetryKeeps(n, e) == Tried(n, e, e.allocs)
RetryAllocs(n, e) == Tried(n, [e EXCEPT !.allocs = <<>>], e.allocs)
FreesTried(n, e)  == Tried(n, [e EXCEPT !.frees = <<>>], e.frees)

RetryFrees(n, e) ==
    LET after == FreesTried(n, e)
    IN IF after.frees = e.frees THEN after ELSE RetryAllocs(n, after)

(* serve_now() for one request.                                            *)
Serve(n, e, tile) == RetryFrees(n, [e EXCEPT !.tiles[tile].serves = @ + 1])

(* on_resident(): the requests parked for the tile are served.             *)
Waiters(e, tile) == {w \in e.parked : w.tile = tile}

OnResident(n, e, tile) ==
    LET count == Cardinality(Waiters(e, tile))
        after[k \in 0 .. count] ==
            IF k = 0 THEN [e EXCEPT !.tiles[tile].resident = TRUE,
                                    !.parked = @ \ Waiters(e, tile)]
            ELSE The({Serve(n, prior, tile) : prior \in {after[k - 1]}})
    IN after[count]

-----------------------------------------------------------------------------
(* Data: what a buffer holds is a tile and the computes applied to it.  A  *)
(* compute that read something else than its inputs leaves a 0.            *)

Fresh(tile) == [tile |-> tile, parts |-> {}]
Garbage == [tile |-> <<>>, parts |-> {0}]

At(n, addr) == IF addr \in DOMAIN mem[n] THEN mem[n][addr] ELSE Garbage

Whole(tile) ==
    [tile |-> tile, parts |-> {k \in DOMAIN Job.computes : OutputKey(Job, k) = tile}]

(* A kernel's result, from what is at the addresses it was launched with.  *)
KernelResult(n, id, addrs) ==
    LET args  == Code(n, id).args
        out   == CHOOSE a \in DOMAIN args : args[a].mode # "read"
        old   == IF args[out].mode = "write" THEN Fresh(args[out].tile) ELSE At(n, addrs[out])
        sound == /\ old.tile = args[out].tile
                 /\ \A a \in DOMAIN args \ {out} : At(n, addrs[a]) = Fresh(args[a].tile)
    IN [tile  |-> args[out].tile,
        parts |-> old.parts \cup {IF sound THEN id[3] ELSE 0}]

OutAddress(n, id, addrs) ==
    addrs[CHOOSE a \in DOMAIN addrs : Code(n, id).args[a].mode # "read"]

-----------------------------------------------------------------------------
Idle ==
    [table |-> {}, ready |-> <<>>, allocs |-> <<>>, frees |-> <<>>,
     running |-> <<>>, finished |-> {}, io |-> 0, tiles |-> <<>>, bump |-> 0,
     slabs |-> <<>>, parked |-> {}, kernels |-> {}, waiting |-> <<>>,
     fetching |-> {}, completions |-> {}]

SentKernels(j, n) ==
    Only(<<0, 1>>, {leaf \in Leaves : <<n, leaf>> \notin Catalog[j].withheld})

Init ==
    /\ jobName \in DOMAIN Catalog
    /\ turn = Nobody /\ phase = "drain" /\ got = FALSE
    /\ queue = [n \in Pods |-> <<>>]
    /\ eng = [n \in Pods |-> Idle]
    /\ mem = [n \in Pods |-> <<>>]
    /\ task = [n \in Pods |-> <<>>]
    /\ kreq = [n \in Pods |-> <<>>]
    /\ stream = [n \in Pods |-> SentKernels(jobName, n)]
    /\ shipped = [n \in Pods |-> 0]
    /\ reported = [n \in Pods |-> {}] /\ failed = [n \in Pods |-> {}]
    /\ stored = <<>> /\ ioFailed = 0

-----------------------------------------------------------------------------
(* The world outside the engines, which acts between their rounds *)

Post(n, msg) == queue' = [queue EXCEPT ![n] = Append(@, msg)]

(* A message has a type; what it does not need is left at a default.       *)
Message(type) == [type |-> type, id |-> <<>>, data |-> Garbage, leaf |-> 0,
                  seg |-> 0, tile |-> <<>>, to |-> Nobody]

ReceiveKernel(n) ==
    /\ turn = Nobody /\ stream[n] # <<>>
    /\ Post(n, [Message("Kernel") EXCEPT !.leaf = Head(stream[n])])
    /\ stream' = [stream EXCEPT ![n] = Tail(@)]
    /\ UNCHANGED <<jobName, shipped, roundVars, eng, mem, ioVars, outVars>>

(* The scheduler ships the next segment when the segments in flight leave  *)
(* room in the budget (Dispatch has the details).                          *)
InFlight(n) ==
    {s \in 1 .. shipped[n] : ToSet(Ids(Segs(n)[s].instrs)) \ reported[n] # {}}
InFlightBytes(n) == LET bytes(s) == Segs(n)[s].incremental IN MapThenSumSet(bytes, InFlight(n))

Ship(n) ==
    /\ turn = Nobody /\ stream[n] = <<>> /\ shipped[n] < Len(Segs(n))
    /\ \/ InFlightBytes(n) = 0
       \/ InFlightBytes(n) + Segs(n)[shipped[n] + 1].incremental <= Job.budget
    /\ shipped' = [shipped EXCEPT ![n] = @ + 1]
    /\ Post(n, [Message("Issue") EXCEPT !.seg = shipped[n] + 1])
    /\ UNCHANGED <<jobName, stream, roundVars, eng, mem, ioVars, outVars>>

(* The GPU finishes a kernel, in any order: launches go round the streams. *)
Finish(n, id) ==
    /\ turn = Nobody /\ id \in DOMAIN eng[n].running \ eng[n].finished
    /\ eng' = [eng EXCEPT ![n].finished = @ \cup {id}]
    /\ LET addrs == eng[n].running[id]
       IN mem' = [mem EXCEPT ![n] = Put(@, OutAddress(n, id, addrs), KernelResult(n, id, addrs))]
    /\ UNCHANGED <<roundVars, queue, ioVars, shipVars, outVars>>

(* A LOAD, STORE or answered FETCH ends well.                              *)
Stored(tile) == IF tile \in DOMAIN stored THEN stored[tile] ELSE Fresh(tile)

LoadDone(n, id) ==
    /\ turn = Nobody /\ id \in DOMAIN task[n]
    /\ Code(n, id).op = "load" \/ task[n][id].state = "served"
    /\ LET data == IF Code(n, id).op = "load" THEN Stored(id[2]) ELSE task[n][id].data
       IN Post(n, [Message("IoDone") EXCEPT !.id = id, !.data = data])
    /\ task' = [task EXCEPT ![n] = Without(@, id)]
    /\ UNCHANGED <<roundVars, eng, mem, kreq, stored, ioFailed, shipVars, outVars>>

StoreDone(n, id) ==
    /\ turn = Nobody /\ id \in DOMAIN task[n] /\ Code(n, id).op = "store"
    /\ stored' = Put(stored, id[2], task[n][id].data)
    /\ Post(n, [Message("StoreDone") EXCEPT !.id = id])
    /\ task' = [task EXCEPT ![n] = Without(@, id)]
    /\ UNCHANGED <<roundVars, eng, mem, kreq, ioFailed, shipVars, outVars>>

IoError(n, id) ==
    /\ turn = Nobody /\ id \in DOMAIN task[n] /\ ioFailed < MaxIoFail
    /\ ioFailed' = ioFailed + 1
    /\ Post(n, [Message("IoFailed") EXCEPT !.id = id])
    /\ task' = [task EXCEPT ![n] = Without(@, id)]
    /\ UNCHANGED <<roundVars, eng, mem, kreq, stored, shipVars, outVars>>

(* A FETCH reaches the tile service of the home node.                      *)
AskTile(n, id) ==
    /\ turn = Nobody /\ id \in DOMAIN task[n] /\ task[n][id].state = "asking"
    /\ Post(Code(n, id).from, [Message("Serve") EXCEPT !.id = id, !.tile = id[2], !.to = n])
    /\ task' = [task EXCEPT ![n][id].state = "asked"]
    /\ UNCHANGED <<roundVars, eng, mem, kreq, stored, ioFailed, shipVars, outVars>>

(* A GetKernel request reaches node 0, and its answer comes back.          *)
AskKernel(n, leaf) ==
    /\ turn = Nobody /\ leaf \in DOMAIN kreq[n] /\ kreq[n][leaf] = "asking"
    /\ Post(0, [Message("GetKernel") EXCEPT !.leaf = leaf, !.to = n])
    /\ kreq' = [kreq EXCEPT ![n][leaf] = "asked"]
    /\ UNCHANGED <<roundVars, eng, mem, task, stored, ioFailed, shipVars, outVars>>

KernelArrives(n, leaf) ==
    /\ turn = Nobody /\ leaf \in DOMAIN kreq[n] /\ kreq[n][leaf] = "answered"
    /\ Post(n, [Message("KernelFetched") EXCEPT !.leaf = leaf])
    /\ kreq' = [kreq EXCEPT ![n] = Without(@, leaf)]
    /\ UNCHANGED <<roundVars, eng, mem, task, stored, ioFailed, shipVars, outVars>>

-----------------------------------------------------------------------------
(* A round: drain *)

(* A round with nothing to do changes nothing and is left out.             *)
Stalled(e) ==
    /\ e.allocs # <<>> /\ e.frees = <<>> /\ e.io = 0 /\ e.fetching = {}
    /\ e.running = <<>> /\ e.ready = <<>>

Begin(n) ==
    /\ turn = Nobody
    /\ queue[n] # <<>> \/ eng[n].finished # {} \/ Stalled(eng[n])
    /\ turn' = n /\ phase' = "drain" /\ got' = FALSE
    /\ UNCHANGED <<queue, eng, mem, ioVars, shipVars, outVars>>

(* The next message, if it is of the type.                                 *)
Handling(n, type) ==
    /\ turn = n /\ phase = "drain" /\ queue[n] # <<>> /\ Head(queue[n]).type = type
    /\ queue' = [queue EXCEPT ![n] = Tail(@)]
    /\ got' = TRUE
    /\ UNCHANGED <<turn, phase, shipVars, stored, ioFailed, reported>>

OnKernel(n) ==
    /\ Handling(n, "Kernel")
    /\ eng' = [eng EXCEPT ![n].kernels = @ \cup {Head(queue[n]).leaf}]
    /\ UNCHANGED <<mem, task, kreq, failed>>

(* add_segment(): what depends on nothing unfinished is ready.             *)
OnIssue(n) ==
    /\ Handling(n, "Issue")
    /\ LET ids   == Ids(Segs(n)[Head(queue[n]).seg].instrs)
           table == eng[n].table \cup ToSet(ids)
           free  == {id \in ToSet(ids) : Code(n, id).deps \cap table = {}}
       IN eng' = [eng EXCEPT ![n].table = table, ![n].ready = @ \o Only(ids, free)]
    /\ UNCHANGED <<mem, task, kreq, failed>>

(* The replies to the requests W go out with the tile's data.              *)
Reply(W, data) ==
    task' = [m \in Pods |-> [id \in DOMAIN task[m] |->
                IF \E w \in W : w.to = m /\ w.id = id
                THEN [state |-> "served", data |-> data] ELSE task[m][id]]]

(* One task fewer under way.                                               *)
Ended(e) == [e EXCEPT !.io = @ - 1]

(* A tile is uploaded, its waiters are served, and the LOAD is complete.   *)
OnIoDone(n) ==
    /\ Handling(n, "IoDone")
    /\ LET msg  == Head(queue[n])
           tile == msg.id[2]
       IN /\ mem' = [mem EXCEPT ![n] = Put(@, eng[n].tiles[tile].addr, msg.data)]
          /\ Reply(Waiters(eng[n], tile), msg.data)
          /\ eng' = [eng EXCEPT ![n] =
                        Complete(n, OnResident(n, Ended(@), tile), msg.id)]
    /\ UNCHANGED <<kreq, failed>>

OnStoreDone(n) ==
    /\ Handling(n, "StoreDone")
    /\ eng' = [eng EXCEPT ![n] = Complete(n, Ended(@), Head(queue[n]).id)]
    /\ UNCHANGED <<mem, task, kreq, failed>>

OnIoFailed(n) ==
    /\ Handling(n, "IoFailed")
    /\ eng' = [eng EXCEPT ![n] = Ended(@)]
    /\ failed' = [failed EXCEPT ![n] = @ \cup {Head(queue[n]).id}]
    /\ UNCHANGED <<mem, task, kreq>>

OnKernelFetched(n) ==
    /\ Handling(n, "KernelFetched")
    /\ LET leaf == Head(queue[n]).leaf
           mine == {id \in AllIds(n) : Code(n, id).leaf = leaf}
       IN eng' = [eng EXCEPT ![n].kernels = @ \cup {leaf},
                             ![n].fetching = @ \ {leaf},
                             ![n].ready = @ \o Only(eng[n].waiting, mine),
                             ![n].waiting = Only(@, AllIds(n) \ mine)]
    /\ UNCHANGED <<mem, task, kreq, failed>>

(* A tile that is not resident yet is served when it is.                   *)
SlipDropWaiter(e, request) == e.parked
Park(e, request) == e.parked \cup {request}

OnServe(n) ==
    /\ Handling(n, "Serve")
    /\ LET msg      == Head(queue[n])
           request  == [tile |-> msg.tile, to |-> msg.to, id |-> msg.id]
           resident == msg.tile \in DOMAIN eng[n].tiles /\ eng[n].tiles[msg.tile].resident
       IN IF resident
          THEN /\ Reply({request}, At(n, eng[n].tiles[msg.tile].addr))
               /\ eng' = [eng EXCEPT ![n] = Serve(n, @, msg.tile)]
          ELSE /\ eng' = [eng EXCEPT ![n].parked = Park(eng[n], request)]
               /\ UNCHANGED task
    /\ UNCHANGED <<mem, kreq, failed>>

(* The peer prints the failure when the answer is empty, and that is all.  *)
OnGetKernel(n) ==
    /\ Handling(n, "GetKernel")
    /\ LET msg == Head(queue[n])
       IN kreq' = IF msg.leaf \in eng[n].kernels
                  THEN [kreq EXCEPT ![msg.to][msg.leaf] = "answered"]
                  ELSE [kreq EXCEPT ![msg.to] = Without(@, msg.leaf)]
    /\ UNCHANGED <<eng, mem, task, failed>>

EndDrain(n) ==
    /\ turn = n /\ phase = "drain" /\ queue[n] = <<>>
    /\ phase' = "poll"
    /\ UNCHANGED <<turn, got, queue, eng, mem, ioVars, shipVars, outVars>>

-----------------------------------------------------------------------------
(* A round: poll *)

(* A kernel whose event is there: what it wrote is resident.               *)
Poll(n, id) ==
    /\ turn = n /\ phase = "poll" /\ id \in eng[n].finished
    /\ LET e    == [eng[n] EXCEPT !.running = Without(@, id), !.finished = @ \ {id}]
           tile == id[2]
       IN /\ Reply(Waiters(e, tile), At(n, e.tiles[tile].addr))
          /\ eng' = [eng EXCEPT ![n] = Complete(n, OnResident(n, e, tile), id)]
    /\ UNCHANGED <<roundVars, queue, mem, kreq, stored, ioFailed, shipVars, outVars>>

EndPoll(n) ==
    /\ turn = n /\ phase = "poll" /\ eng[n].finished = {}
    /\ phase' = "issue"
    /\ UNCHANGED <<turn, got, queue, eng, mem, ioVars, shipVars, outVars>>

-----------------------------------------------------------------------------
(* A round: issue *)

(* The next ready instruction, if its op is one of ops; e is the engine    *)
(* without it in the queue.                                                *)
Issuing(n, ops) ==
    /\ turn = n /\ phase = "issue" /\ eng[n].ready # <<>>
    /\ Head(eng[n].ready) \in eng[n].table
    /\ Code(n, Head(eng[n].ready)).op \in ops
    /\ UNCHANGED <<roundVars, queue, mem, stored, ioFailed, shipVars, reported>>

Popped(n) == [eng[n] EXCEPT !.ready = Tail(@)]

IssueAlloc(n) ==
    /\ Issuing(n, {"alloc"})
    /\ eng' = [eng EXCEPT ![n] = TryAlloc(n, Popped(n), Head(eng[n].ready))]
    /\ UNCHANGED <<task, kreq, failed>>

IssueFree(n) ==
    /\ Issuing(n, {"free"})
    /\ LET id == Head(eng[n].ready)
           e  == [Popped(n) EXCEPT !.tiles[id[2]].expected = Code(n, id).serves]
           freed == TryFree(n, e, id)
       IN eng' = [eng EXCEPT ![n] = IF freed.frees = e.frees THEN RetryAllocs(n, freed) ELSE freed]
    /\ UNCHANGED <<task, kreq, failed>>

(* A STORE takes the data along; a LOAD or FETCH has none yet.             *)
IssueIo(n) ==
    /\ Issuing(n, {"load", "fetch", "store"})
    /\ LET id == Head(eng[n].ready)
           io == CASE Code(n, id).op = "load"  -> [state |-> "reading", data |-> Garbage]
                   [] Code(n, id).op = "fetch" -> [state |-> "asking", data |-> Garbage]
                   [] Code(n, id).op = "store" ->
                        [state |-> "writing", data |-> At(n, eng[n].tiles[id[2]].addr)]
           e  == [Popped(n) EXCEPT !.io = @ + 1]
       IN task' = [task EXCEPT ![n] = Put(@, id, io)] /\ eng' = [eng EXCEPT ![n] = e]
    /\ UNCHANGED <<kreq, failed>>

(* A launch captures the addresses of its arguments.                       *)
Launch(n) ==
    /\ Issuing(n, {"compute"})
    /\ LET id   == Head(eng[n].ready)
           args == Code(n, id).args
           addrs == [a \in DOMAIN args |-> eng[n].tiles[args[a].tile].addr]
           e     == [Popped(n) EXCEPT !.running = Put(@, id, addrs)]
       IN Code(n, id).leaf \in eng[n].kernels /\ eng' = [eng EXCEPT ![n] = e]
    /\ UNCHANGED <<task, kreq, failed>>

(* Without the kernel the compute waits, and the first one to wait sends   *)
(* for the kernel, or fails when no address of the holder is known.        *)
AwaitKernel(n) ==
    /\ Issuing(n, {"compute"})
    /\ LET id   == Head(eng[n].ready)
           leaf == Code(n, id).leaf
           new  == leaf \notin eng[n].fetching
           e    == [Popped(n) EXCEPT !.waiting = Append(@, id), !.fetching = @ \cup {leaf}]
       IN /\ leaf \notin eng[n].kernels /\ eng' = [eng EXCEPT ![n] = e]
          /\ kreq' = IF new /\ KnowsHolder(n)
                     THEN [kreq EXCEPT ![n] = Put(@, leaf, "asking")] ELSE kreq
          /\ failed' = IF new /\ ~KnowsHolder(n)
                       THEN [failed EXCEPT ![n] = @ \cup {id}] ELSE failed
    /\ UNCHANGED task

(* flush_completions(), and check_alloc_stall() when nothing goes on: the  *)
(* parked ALLOCs fail.                                                     *)
SlipStallWhileIo(e) ==
    e.allocs # <<>> /\ e.frees = <<>> /\ e.fetching = {} /\ e.running = <<>> /\ e.ready = <<>>
StallFound(e) == Stalled(e)

EndRound(n) ==
    /\ turn = n /\ phase = "issue" /\ eng[n].ready = <<>>
    /\ LET stall == ~got /\ StallFound(eng[n])
       IN /\ failed' = IF stall THEN [failed EXCEPT ![n] = @ \cup ToSet(eng[n].allocs)]
                       ELSE failed
          /\ eng' = [eng EXCEPT ![n].completions = {},
                                ![n].allocs = IF stall THEN <<>> ELSE @]
    /\ reported' = [reported EXCEPT ![n] = @ \cup eng[n].completions]
    /\ turn' = Nobody /\ phase' = "drain" /\ got' = FALSE
    /\ UNCHANGED <<queue, mem, ioVars, shipVars>>

-----------------------------------------------------------------------------
World(n) ==
    \/ ReceiveKernel(n) \/ Ship(n)
    \/ \E id \in DOMAIN eng[n].running : Finish(n, id)
    \/ \E id \in DOMAIN task[n] : LoadDone(n, id) \/ StoreDone(n, id) \/ AskTile(n, id)
    \/ \E leaf \in DOMAIN kreq[n] : AskKernel(n, leaf) \/ KernelArrives(n, leaf)

Engine(n) ==
    \/ Begin(n) \/ EndDrain(n) \/ EndPoll(n) \/ EndRound(n)
    \/ OnKernel(n) \/ OnIssue(n) \/ OnIoDone(n) \/ OnStoreDone(n) \/ OnIoFailed(n)
    \/ OnKernelFetched(n) \/ OnServe(n) \/ OnGetKernel(n)
    \/ \E id \in eng[n].finished : Poll(n, id)
    \/ IssueAlloc(n) \/ IssueFree(n) \/ IssueIo(n) \/ Launch(n) \/ AwaitKernel(n)

Next ==
    \E n \in Pods :
        \/ World(n) \/ Engine(n)
        \/ \E id \in DOMAIN task[n] : IoError(n, id)

Spec == Init /\ [][Next]_vars

(* File reads and writes return, kernels end, messages between live        *)
(* processes arrive and threads run.  Each step but an error uses up some  *)
(* of a finite program, so weak fairness of all of them together is        *)
(* fairness to each.                                                       *)
FairSpec == Spec /\ WF_vars(\E n \in Pods : World(n) \/ Engine(n))
-----------------------------------------------------------------------------
(* Properties *)

(* Every variable keeps its type; what is parked, in flight or under way   *)
(* is an instruction still in the table.                                   *)
TypeOK ==
    /\ jobName \in DOMAIN Catalog /\ turn \in Pods \cup {Nobody}
    /\ phase \in {"drain", "poll", "issue"} /\ got \in BOOLEAN
    /\ \A n \in Pods :
        LET e == eng[n]
            table == e.table
        IN /\ table \subseteq AllIds(n)
           /\ ToSet(e.ready) \cup ToSet(e.allocs) \cup ToSet(e.frees) \cup ToSet(e.waiting)
                  \cup DOMAIN e.running \cup DOMAIN task[n] \subseteq table
           /\ e.finished \subseteq DOMAIN e.running
           /\ e.io \in Nat /\ e.bump \in 0 .. Job.arena
           /\ e.kernels \cup e.fetching \cup DOMAIN kreq[n] \subseteq Leaves
           /\ e.completions \cup reported[n] \subseteq AllIds(n) \ table
           /\ failed[n] \subseteq AllIds(n)
           /\ shipped[n] \in 0 .. Len(Segs(n))
    /\ ioFailed \in 0 .. MaxIoFail

(* No two buffers in use overlap, none overlaps a slab on a free list, and *)
(* all lie within the arena: slabs of several classes are carved from one  *)
(* bump pointer and go back to lists of their own.                         *)
Slabs(e) ==
    {<<e.tiles[t].addr, e.tiles[t].class, t>> : t \in DOMAIN e.tiles}
    \cup UNION {{<<e.slabs[c][i], c, i>> : i \in DOMAIN e.slabs[c]} : c \in DOMAIN e.slabs}

SlabsDisjoint ==
    \A n \in Pods :
        \A s, t \in Slabs(eng[n]) :
            /\ s[1] + s[2] <= Job.arena
            /\ s # t => s[1] + s[2] <= t[1] \/ t[1] + t[2] <= s[1]

(* What is in storage once a STORE is reported is the whole output, all    *)
(* computes applied to what they were meant for: no kernel, copy or serve  *)
(* ever saw a buffer that was not filled yet or was already reused.        *)
StoredWhole ==
    \A n \in Pods : \A id \in reported[n] :
        id[1] = "store" => stored[id[2]] = Whole(id[2])

(* A tile that a peer's FETCH is still to be served from is not freed.     *)
ServedBeforeFreed ==
    \A m \in Pods : \A id \in DOMAIN task[m] :
        task[m][id].state \in {"asking", "asked"} =>
            Free(id[2]) \notin reported[Code(m, id).from] \cup eng[Code(m, id).from].completions

(* "The engine parks an ALLOC that would overflow until a FREE makes room,  *)
(* so an arena of peak plus headroom is enough" (cluster_correctness.rs of  *)
(* phobos-pod): while no I/O fails, no ALLOC is given up.                   *)
GaveUp(n) == \E id \in failed[n] : id[1] = "alloc"
NoStall == Job.arena >= Job.peak /\ ioFailed = 0 => \A n \in Pods : ~GaveUp(n)

(* A node gives up on its parked ALLOCs only when no wait would have helped:*)
(* whatever comes in afterwards, it frees no tile any more.                 *)
StallsAreFinal ==
    [][\A n \in Pods : GaveUp(n) => DOMAIN eng[n].tiles \subseteq DOMAIN eng'[n].tiles]_vars

(* Every instruction is executed, or a failure is reported.                *)
Drained == \A n \in Pods : reported[n] = AllIds(n)
SomeFailed == \E n \in Pods : failed[n] # {}
JobEnds == <>(Drained \/ SomeFailed)
=============================================================================
