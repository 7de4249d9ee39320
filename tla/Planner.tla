------------------------------ MODULE Planner ------------------------------
(***************************************************************************)
(* lower() and segment() of phobos-sched/src/lib.rs: from the computes of  *)
(* an instantiated cluster program to one instruction list per node, cut   *)
(* into segments.                                                          *)
(*                                                                         *)
(* A tile is a pair <<tensor, lin>>.  A job is a record of                 *)
(*   computes   the leaf calls in program order, each with its args, a     *)
(*              sequence of [tile, mode], and the leaf it runs             *)
(*   mode       "read", "write" or "rmw" for each tensor                   *)
(*   bytes      the size of a tile, for each tensor                        *)
(*   width      node ids are 0 .. width - 1                                *)
(*   live       the nodes that get work, ascending                         *)
(*   outputs    the output tiles wanted: all, or those a recovery re-plans *)
(*   homeFetch  TRUE for HomeLoadPeerFetch, FALSE for DirectLoad           *)
(*   budget     bytes a segment may add                                    *)
(* A tile is in the args of a compute at most once, exactly one of them is *)
(* written, and no tile is larger than the budget: lower() and segment()   *)
(* reject what is not so, or the cluster compiler never makes it.          *)
(* An instruction's id is a triple <<op, tile, k>> in place of a number:   *)
(* one node has at most one instruction of each kind for a tile, except    *)
(* for computes, which carry their index k.                                *)
(*                                                                         *)
(* A definition named Slip... is a plausible mistake in the one after it,  *)
(* and nothing refers to it: PROJECT.json says which property of PodEngine *)
(* rejects the plan with which of them in place.                           *)
(***************************************************************************)
EXTENDS Integers, Sequences, FiniteSets, SequencesExt, FiniteSetsExt, TLC

Alloc(tile)      == <<"alloc", tile, 0>>
Ingest(tile)     == <<"ingest", tile, 0>>
Compute(tile, k) == <<"compute", tile, k>>
Store(tile)      == <<"store", tile, 0>>
Free(tile)       == <<"free", tile, 0>>

-----------------------------------------------------------------------------
(* Placement *)

Args(job, k) == job.computes[k].args
ArgTiles(job, k) == {arg.tile : arg \in ToSet(Args(job, k))}

(* The one tile a compute writes.                                          *)
OutputKey(job, k) ==
    CHOOSE tile \in ArgTiles(job, k) :
        \E arg \in ToSet(Args(job, k)) : arg.tile = tile /\ arg.mode # "read"

NodeOf(job, k) == job.live[(OutputKey(job, k)[2] % Len(job.live)) + 1]

ComputesOn(job, n) ==
    LET mine(k) == OutputKey(job, k) \in job.outputs /\ NodeOf(job, k) = n
    IN SelectSeq([k \in DOMAIN job.computes |-> k], mine)

(* The positions in a node's computes cs at which a tile is an argument    *)
(* with a mode in M.                                                       *)
UsesIn(job, cs, tile, M) ==
    {pos \in DOMAIN cs :
        \E arg \in ToSet(Args(job, cs[pos])) : arg.tile = tile /\ arg.mode \in M}

AnyMode == {"read", "write", "rmw"}

(* The nodes that read an input tile.  The lowest of them is its home,     *)
(* which loads it, and serves it to the others when they fetch.            *)
Readers(job, tile) ==
    {n \in ToSet(job.live) : UsesIn(job, ComputesOn(job, n), tile, {"read"}) # {}}

IsInput(job, tile) == job.mode[tile[1]] = "read"

Home(job, tile) == Min(Readers(job, tile))

Serves(job, n, tile) ==
    IF job.homeFetch /\ n = Home(job, tile)
    THEN Cardinality(Readers(job, tile)) - 1 ELSE 0

-----------------------------------------------------------------------------
(* The instructions of one node *)

(* op, tile, deps, and what only some have: the node a FETCH asks, the     *)
(* serves a FREE waits for, a compute's args and leaf.                     *)
Instr(id, op, deps) ==
    [id |-> id, op |-> op, tile |-> id[2], deps |-> deps,
     from |-> 0, serves |-> 0, args |-> <<>>, leaf |-> 0]

(* The instruction that a reader of the tile at pos depends on.            *)
LastWrite(job, cs, pos, tile) ==
    LET writes == {q \in UsesIn(job, cs, tile, {"write", "rmw"}) : q < pos}
    IN IF writes # {} THEN Compute(tile, cs[Max(writes)]) ELSE Ingest(tile)

(* Before its first use a tile is allocated, and filled unless the program *)
(* only writes it.                                                         *)
Materialize(job, n, cs, pos, tile) ==
    LET alloc  == Instr(Alloc(tile), "alloc", {})
        ingest == IF job.homeFetch /\ IsInput(job, tile) /\ n # Home(job, tile)
                  THEN [Instr(Ingest(tile), "fetch", {Alloc(tile)})
                            EXCEPT !.from = Home(job, tile)]
                  ELSE Instr(Ingest(tile), "load", {Alloc(tile)})
    IN IF pos # Min(UsesIn(job, cs, tile, AnyMode)) THEN <<>>
       ELSE IF job.mode[tile[1]] = "write" THEN <<alloc>>
       ELSE <<alloc, ingest>>

(* A compute needs the tile it writes allocated, and what it reads, the    *)
(* output that it updates included, as the last write before it left it.   *)
SlipRmwAsWrite(job, cs, pos, arg) ==
    IF arg.mode # "read" THEN Alloc(arg.tile) ELSE LastWrite(job, cs, pos, arg.tile)
Dep(job, cs, pos, arg) ==
    IF arg.mode = "write" THEN Alloc(arg.tile) ELSE LastWrite(job, cs, pos, arg.tile)

ComputeInstr(job, cs, pos) ==
    LET k == cs[pos]
    IN [Instr(Compute(OutputKey(job, k), k), "compute",
              {Dep(job, cs, pos, arg) : arg \in ToSet(Args(job, k))})
            EXCEPT !.args = Args(job, k), !.leaf = job.computes[k].leaf]

(* After its last use an output is stored and then freed, and an input is  *)
(* freed once all that read it are done.                                   *)
Consumers(job, cs, tile) ==
    {Compute(OutputKey(job, cs[q]), cs[q]) : q \in UsesIn(job, cs, tile, {"read"})}

ReleaseInstrs(job, n, cs, tile) ==
    IF IsInput(job, tile)
    THEN <<[Instr(Free(tile), "free", Consumers(job, cs, tile))
                EXCEPT !.serves = Serves(job, n, tile)]>>
    ELSE <<Instr(Store(tile), "store", {LastWrite(job, cs, Len(cs) + 1, tile)}),
           Instr(Free(tile), "free", {Store(tile)})>>

Release(job, n, cs, pos, tile) ==
    IF pos # Max(UsesIn(job, cs, tile, AnyMode)) THEN <<>> ELSE ReleaseInstrs(job, n, cs, tile)

Block(job, n, cs, pos) ==
    LET args == Args(job, cs[pos])
    IN FlattenSeq([a \in DOMAIN args |-> Materialize(job, n, cs, pos, args[a].tile)])
       \o <<ComputeInstr(job, cs, pos)>>
       \o FlattenSeq([a \in DOMAIN args |-> Release(job, n, cs, pos, args[a].tile)])

NodeList(job, n) ==
    LET cs == ComputesOn(job, n)
    IN FlattenSeq([pos \in DOMAIN cs |-> Block(job, n, cs, pos)])

-----------------------------------------------------------------------------
(* Segments *)

TileBytes(job, tile) == job.bytes[tile[1]]

(* One pass over a node's list.  A cut falls before an ALLOC that would    *)
(* take the bytes added since the last cut over the budget; FREEs can drop *)
(* `resident` below `start`, so subtraction stops at 0.                    *)
Over(a, b) == IF a > b THEN a - b ELSE 0

Flush(acc) ==
    IF acc.cur = <<>> THEN acc
    ELSE [acc EXCEPT !.segs = Append(@, [instrs |-> acc.cur,
                                         incremental |-> Over(acc.peak, acc.start)]),
                     !.cur = <<>>]

MakeRoom(job, acc, instr) ==
    IF /\ instr.op = "alloc" /\ acc.cur # <<>>
       /\ Over(acc.resident + TileBytes(job, instr.tile), acc.start) > job.budget
    THEN [Flush(acc) EXCEPT !.start = acc.resident, !.peak = acc.resident]
    ELSE acc

Resident(job, resident, instr) ==
    CASE instr.op = "alloc" -> resident + TileBytes(job, instr.tile)
      [] instr.op = "free"  -> Over(resident, TileBytes(job, instr.tile))
      [] OTHER              -> resident

AddInstr(job, acc, instr) ==
    LET cut == MakeRoom(job, acc, instr)
        now == Resident(job, cut.resident, instr)
    IN [cut EXCEPT !.resident = now,
                   !.peak     = Max({@, now}),
                   !.nodePeak = Max({@, now}),
                   !.cur      = Append(@, instr)]

Segmented(job, instrs) ==
    LET step(acc, instr) == AddInstr(job, acc, instr)
    IN Flush(FoldLeft(step, [segs |-> <<>>, cur |-> <<>>, resident |-> 0, start |-> 0,
                             peak |-> 0, nodePeak |-> 0], instrs))

(* What the scheduler ships to a node, and the most bytes the plan says    *)
(* the node has resident at a time.                                        *)
NodeSegments(job, n) == Segmented(job, NodeList(job, n)).segs
NodePeak(job, n)     == Segmented(job, NodeList(job, n)).nodePeak

PeakResident(job) == Max({NodePeak(job, n) : n \in 0 .. job.width - 1})

(* A job and its plan: a node's segments, all its instructions in a list,  *)
(* and by id.  f @@ <<>> is f, which TLC then evaluates once.              *)
Planned(job) ==
    LET nodes   == 0 .. job.width - 1
        segs    == [n \in nodes |-> NodeSegments(job, n)] @@ <<>>
        program == [n \in nodes |-> FlattenSeq([s \in DOMAIN segs[n] |-> segs[n][s].instrs])]
        code(n) == [id \in {instr.id : instr \in ToSet(program[n])} |->
                        CHOOSE instr \in ToSet(program[n]) : instr.id = id]
    IN [segs    |-> segs,
        program |-> program @@ <<>>,
        code    |-> [n \in nodes |-> code(n) @@ <<>>] @@ <<>>,
        peak    |-> PeakResident(job)] @@ job

=============================================================================
