------------------------------ MODULE Membar ------------------------------
(***************************************************************************)
(* Which barriers a compiled kernel keeps (phobos-lang, membar.rs under    *)
(* codegen/lower).  Every tile op ends in a barrier of the CTA; the pass   *)
(* walks the kernel in emission order, keeps the ones that order two       *)
(* conflicting accesses of shared memory, drops the others, and adds one   *)
(* where no op between two accesses ends in one.                           *)
(*                                                                         *)
(* The kernel is written op by op, decided upon, and then executed on      *)
(* every path, with the touches of each thread: two threads may not touch  *)
(* a byte between two barriers, one of them writing.                       *)
(***************************************************************************)
EXTENDS Integers, FiniteSets, SequencesExt

CONSTANTS NThreads,     \* threads of the CTA
          Buffers,      \* planned tiles: [lo, shape, elem, pitch, swizzled], shape <<rows, columns>>
          Families,     \* what the kernels of an instance are made of
          Turns         \* how many turns a loop may take

(* An op that holds no block: what it `uses`, in order, as [buf, write]; its        *)
(* `sweep`, a set of at most one [shape, width]; whether it runs in each thread on  *)
(* its own (`per`); the register tile it makes, at most one [shape, elem] (`regs`); *)
(* how it `ends`: in its "candidate" barrier, in a "fence" that is never elided, or *)
(* "open"; and whether it is a CTA atomic (`broadcast`).  A family has its `ops`,   *)
(* the `holders` that may hold blocks, and bounds on ops and on nesting.            *)
ASSUME FamiliesAssumption ==
  /\ NThreads \in Nat \ {0} /\ Turns \subseteq Nat
  /\ \A f \in Families :
       /\ f.holders \subseteq {"for", "ragged", "while", "if", "ifElse"}
       /\ \A o \in f.ops : \A i \in DOMAIN o.uses : o.uses[i].buf \in DOMAIN Buffers

VARIABLES family,    \* the element of Families a kernel is written from
          ir,        \* Ir: ops by id, blocks by id
          open,      \* the blocks being written, innermost last
          elision,   \* Elision: skip and before, once decided
          todo,      \* the ops still to execute
          log,       \* the ops executed since the last barrier
          raced      \* the pairs of ops that touched a byte unordered

vars == <<family, ir, open, elision, todo, log, raced>>

Threads == 0 .. NThreads - 1

---------------------------------------------------------------------------
(* The graph.  Block 1 is the kernel's own; a block's holder is an op.     *)

EmptyKernel == [ops |-> << >>, blocks |-> <<[ops |-> << >>, holder |-> 0]>>]

HasBlocks(op) == ir.ops[op].blocks # << >>
LeafOf(op) == ir.ops[op].leaf
ParentBlock(op) == ir.ops[op].block

\* A block and every block enclosing it.
RECURSIVE Enclosing(_)
Enclosing(block) ==
  LET holder == ir.blocks[block].holder
  IN  {block} \cup (IF holder = 0 THEN {} ELSE Enclosing(ParentBlock(holder)))

---------------------------------------------------------------------------
(* What an op accesses, as the pass knows it.                              *)

BytesOf(b) == b.shape[1] * b.pitch * b.elem

SweepOf(leaf, b) ==
  {[shape |-> s.shape, width |-> s.width, elem |-> b.elem, pitch |-> b.pitch,
    swizzled |-> b.swizzled] : s \in {r \in leaf.sweep : r.shape = b.shape}}

AccessOf(leaf, use) ==
  LET b == Buffers[use.buf]
  IN  [lo |-> b.lo, hi |-> b.lo + BytesOf(b), write |-> use.write, mapping |-> SweepOf(leaf, b)]

Accesses(op) == [i \in DOMAIN LeafOf(op).uses |-> AccessOf(LeafOf(op), LeafOf(op).uses[i])]

Conflicts(a, b) ==
  /\ a.write \/ b.write
  /\ a.lo < b.hi /\ b.lo < a.hi
  /\ a.mapping = {} \/ b.mapping = {} \/ a.mapping # b.mapping \/ a.lo # b.lo

\* The register tile that `op` makes holds its elements as the sweep reaches them.
SameThread(op, access) ==
  \E r \in LeafOf(op).regs, m \in access.mapping :
    /\ m.width = 1 /\ m.shape = r.shape /\ m.elem = r.elem
    /\ m.pitch = r.shape[2] /\ ~m.swizzled

NeedsAdded(op, access, earlier) ==
  /\ ~(LeafOf(op).per /\ LeafOf(earlier.op).per)
  /\ ~SameThread(op, earlier.access)
  /\ ~SameThread(earlier.op, access)

---------------------------------------------------------------------------
(* The walk.  A Candidate is [op, seq, block]; a Pending has an access too. *)

NothingWalked == [seq |-> 0, kept |-> {}, candidates |-> {}, fences |-> {}, added |-> {},
                  starts |-> << >>, pending |-> << >>]

\* Merging keeps what is there in place.
Merge(pending, more) ==
  pending \o SelectSeq(more, LAMBDA p : p \notin Range(pending))

\* The barrier orders what is pending in its block or a nested one.
Keep(s, c) ==
  [s EXCEPT !.kept = @ \cup {c.op},
            !.pending = SelectSeq(@, LAMBDA p : ~(p.seq <= c.seq /\ c.block \in Enclosing(p.block)))]

\* The op ahead of which a barrier shares a block with the earlier access.
RECURSIVE Holder(_, _)
Holder(op, above) ==
  IF ParentBlock(op) \in above THEN op ELSE Holder(ir.blocks[ParentBlock(op)].holder, above)

AddBefore(s, op, above) ==
  LET at == Holder(op, above)
      start == IF at = op THEN s.seq ELSE s.starts[at]
  IN  [s EXCEPT !.added = @ \cup {[op |-> at, seq |-> start - 1, block |-> ParentBlock(at)]}]

\* A plausible mistake: a barrier in a block that the earlier access is not in
\* is taken for one on every path.
SlipAnyBlock(s, c, p) == c.seq >= p.seq /\ c.seq < s.seq

Between(s, c, p) == c.seq >= p.seq /\ c.seq < s.seq /\ c.block \in Enclosing(p.block)

\* A clash of the op's access with a pending one, and the barrier between them.
OrderOne(s, op, access, p) ==
  LET between(cs) == {c \in cs : Between(s, c, p)}
      ordered == \/ \E c \in between(s.candidates) : c.op \in s.kept
                 \/ between(s.added) # {} \/ between(s.fences) # {}
      latest == {c \in between(s.candidates) : \A d \in between(s.candidates) : d.seq <= c.seq}
  IN  CASE ordered -> s
        [] ~ordered /\ latest # {} -> Keep(s, CHOOSE c \in latest : TRUE)
        [] ~ordered /\ latest = {} /\ NeedsAdded(op, access, p) -> AddBefore(s, op, Enclosing(p.block))
        [] OTHER -> s

Order(s, op, access) ==
  FoldLeft(LAMBDA r, p : OrderOne(r, op, access, p), s,
           SelectSeq(s.pending, LAMBDA p : Conflicts(p.access, access)))

Leaf(s0, op, elide) ==
  LET here == [op |-> op, seq |-> s0.seq + 1, block |-> ParentBlock(op)]
      opened == [s0 EXCEPT !.seq = @ + 1,
                           !.fences = @ \cup (IF LeafOf(op).broadcast
                                              THEN {[here EXCEPT !.seq = @ - 1]} ELSE {})]
      ordered == FoldLeft(LAMBDA r, a : Order(r, op, a), opened, Accesses(op))
      more == [i \in DOMAIN Accesses(op) |->
                 [op |-> op, seq |-> here.seq, block |-> here.block, access |-> Accesses(op)[i]]]
      s == [ordered EXCEPT !.pending = @ \o more]
  IN  CASE LeafOf(op).ends = "fence" -> [s EXCEPT !.fences = @ \cup {here}]
        [] LeafOf(op).ends = "candidate" /\ elide -> [s EXCEPT !.candidates = @ \cup {here}]
        [] LeafOf(op).ends = "candidate" /\ ~elide -> Keep([s EXCEPT !.candidates = @ \cup {here}], here)
        [] OTHER -> s

\* A loop's body is walked twice, for what one turn leaves to the next.
BodyTurns == 2

RECURSIVE WalkBlock(_, _, _)
WalkOp(s0, op, elide) ==
  LET kind == ir.ops[op].kind
      blocks == ir.ops[op].blocks
      s == IF HasBlocks(op) THEN [s0 EXCEPT !.starts = (op :> s0.seq + 1) @@ @] ELSE s0
      entry == s.pending
      walked(n, bs, e) == FoldLeft(LAMBDA r, b : WalkBlock(r, b, e), s,
                                   FlattenSeq([i \in 1 .. n |-> bs]))
      entered(r) == [r EXCEPT !.pending = Merge(@, entry)]
      branch(r, b) == WalkBlock([r EXCEPT !.pending = entry], b, FALSE)
  IN  CASE kind = "leaf" -> Leaf(s, op, elide)
        [] kind = "for" -> entered(walked(BodyTurns, <<blocks[1]>>, elide))
        [] kind = "ragged" -> WalkBlock(entered(walked(BodyTurns, <<blocks[1]>>, elide)), blocks[2], elide)
        [] kind = "while" -> entered(walked(2, blocks, FALSE))
        [] kind = "if" -> entered(branch(s, blocks[1]))
        [] kind = "ifElse" ->
             LET then == branch(s, blocks[1])
                 else == branch(then, blocks[2])
             IN  [else EXCEPT !.pending = Merge(then.pending, @)]

WalkBlock(s, block, elide) ==
  FoldLeft(LAMBDA r, op : WalkOp(r, op, elide), s, ir.blocks[block].ops)

Decide ==
  LET end == WalkBlock(NothingWalked, 1, TRUE)
  IN  [skip |-> {c.op : c \in end.candidates} \ end.kept,
       before |-> {c.op : c \in end.added}]

---------------------------------------------------------------------------
(* What the threads touch, and which touches race.                         *)

\* An element's bytes; a swizzle puts another element of the row behind each index.
ElementBytes(b, e) ==
  LET row == e \div b.shape[2]
      col == IF b.swizzled THEN (e + row) % b.shape[2] ELSE e % b.shape[2]
      first == b.lo + (row * b.pitch + col) * b.elem
  IN  first .. first + b.elem - 1

Elements(b) == 0 .. b.shape[1] * b.shape[2] - 1

\* The threads that reach element e of b: as the op sweeps, as its registers hold it, or any.
Reach(leaf, b, e) ==
  CASE \E s \in leaf.sweep : s.shape = b.shape ->
         {(e \div s.width) % NThreads : s \in leaf.sweep}
    [] leaf.sweep = {} /\ \E r \in leaf.regs : r.shape = b.shape -> {e % NThreads}
    [] OTHER -> Threads

Touches(op) ==
  LET leaf == LeafOf(op)
      of(use) == LET b == Buffers[use.buf]
                 IN  UNION {[thread : Reach(leaf, b, e), byte : ElementBytes(b, e),
                             write : {use.write /\ ~leaf.broadcast}] : e \in Elements(b)}
  IN  UNION {of(leaf.uses[i]) : i \in DOMAIN leaf.uses}

Racing(p, a) ==
  \E x \in Touches(p), y \in Touches(a) :
    x.byte = y.byte /\ x.thread # y.thread /\ (x.write \/ y.write)

\* Two per-thread accesses are the kernel's to order.
Left(p, a) == LeafOf(p).per /\ LeafOf(a).per

---------------------------------------------------------------------------
(* Writing the kernel, and running it.                                     *)

Undecided == elision = << >>
Current == LET top == Last(open) IN ir.ops[top.op].blocks[top.nth]
CurrentBlock == IF open = << >> THEN 1 ELSE Current

Append1(op) ==
  [ir EXCEPT !.ops = Append(@, op), !.blocks[CurrentBlock].ops = Append(@, Len(ir.ops) + 1)]

AddLeaf ==
  /\ Undecided /\ Len(ir.ops) < family.maxOps
  /\ \E leaf \in family.ops :
       ir' = Append1([kind |-> "leaf", leaf |-> leaf, block |-> CurrentBlock, blocks |-> << >>])
  /\ UNCHANGED <<family, open, elision, todo, log, raced>>

Open ==
  /\ Undecided /\ Len(ir.ops) < family.maxOps /\ Len(open) < family.depth
  /\ \E kind \in family.holders :
       LET op == Len(ir.ops) + 1
           n == IF kind \in {"for", "if"} THEN 1 ELSE 2
           ids == [i \in 1 .. n |-> Len(ir.blocks) + i]
       IN  /\ ir' = [Append1([kind |-> kind, leaf |-> << >>, block |-> CurrentBlock, blocks |-> ids])
                       EXCEPT !.blocks = @ \o [i \in 1 .. n |-> [ops |-> << >>, holder |-> op]]]
           /\ open' = Append(open, [op |-> op, nth |-> 1])
  /\ UNCHANGED <<family, elision, todo, log, raced>>

\* A block is complete: the next of its holder, or what follows the holder.
Close ==
  /\ Undecided /\ open # << >>
  /\ ir.blocks[Current].ops # << >>
  /\ LET top == Last(open)
     IN  open' = IF top.nth < Len(ir.ops[top.op].blocks)
                 THEN Append(Front(open), [top EXCEPT !.nth = @ + 1]) ELSE Front(open)
  /\ UNCHANGED <<family, ir, elision, todo, log, raced>>

Finish ==
  /\ Undecided /\ open = << >> /\ ir.ops # << >>
  /\ elision' = Decide
  /\ todo' = ir.blocks[1].ops
  /\ UNCHANGED <<family, ir, open, log, raced>>

Repeat(n, ops) == FlattenSeq([i \in 1 .. n |-> ops])

\* The ops that an op with blocks may come to.
Expansions(op) ==
  LET body(i) == ir.blocks[ir.ops[op].blocks[i]].ops
      kind == ir.ops[op].kind
  IN  CASE kind = "for" -> {Repeat(n, body(1)) : n \in Turns}
        [] kind = "ragged" -> {Repeat(n, body(1)) \o tail : n \in Turns, tail \in {<< >>, body(2)}}
        [] kind = "while" -> {body(1) \o Repeat(n, body(2) \o body(1)) : n \in Turns}
        [] kind = "if" -> {body(1), << >>}
        [] kind = "ifElse" -> {body(1), body(2)}

\* What is unordered as the op starts: a barrier ahead of it leaves nothing.
Unordered(op) == IF op \in elision.before THEN {} ELSE log

Enter ==
  /\ todo # << >> /\ HasBlocks(Head(todo))
  /\ \E ops \in Expansions(Head(todo)) : todo' = ops \o Tail(todo)
  /\ log' = Unordered(Head(todo))
  /\ UNCHANGED <<family, ir, open, elision, raced>>

Execute ==
  /\ todo # << >> /\ ~HasBlocks(Head(todo))
  /\ LET op == Head(todo)
         earlier == IF LeafOf(op).broadcast THEN {} ELSE Unordered(op)
         barrier == \/ LeafOf(op).ends = "fence"
                    \/ LeafOf(op).ends = "candidate" /\ op \notin elision.skip
     IN  /\ raced' = raced \cup {<<p, op>> : p \in {q \in earlier : ~Left(q, op) /\ Racing(q, op)}}
         /\ log' = IF barrier THEN {} ELSE earlier \cup {op}
         /\ todo' = Tail(todo)
  /\ UNCHANGED <<family, ir, open, elision>>

Init ==
  /\ family \in Families
  /\ ir = EmptyKernel
  /\ open = << >> /\ elision = << >> /\ todo = << >>
  /\ log = {} /\ raced = {}

Next == AddLeaf \/ Open \/ Close \/ Finish \/ Enter \/ Execute

Spec == Init /\ [][Next]_vars

---------------------------------------------------------------------------
(* Properties.                                                             *)

\* Blocks of one op: a turn may take either, and the walk has them one after the other.
Siblings(p, a) ==
  \E b \in Enclosing(ParentBlock(p)), c \in Enclosing(ParentBlock(a)) :
    b # c /\ ir.blocks[b].holder = ir.blocks[c].holder

\* A register tile made of a tile that is not laid out where the sweep finds it:
\* same_thread() asks the register tile alone, and takes the two for ordered.
MadeElsewhere(op, other) ==
  \E use \in Range(LeafOf(op).uses), a \in Range(Accesses(other)) :
    LET b == Buffers[use.buf]
    IN  SameThread(op, a) /\ ~(b.lo = a.lo /\ b.pitch = b.shape[2] /\ ~b.swizzled)

(* On every path through a kernel, with the barriers that were dropped and those that were
   added, no two threads touch a byte unordered, one of them writing, except where the kernel
   orders its own per-thread accesses, between two blocks of one op, and where a register tile
   was made of a tile that lies elsewhere (membar.rs:610-629). *)
BarriersSuffice ==
  \A r \in raced :
    \/ Siblings(r[1], r[2])
    \/ MadeElsewhere(r[1], r[2]) \/ MadeElsewhere(r[2], r[1])

(* The same for every register tile: no barrier is left out "unless both sides reach each
   element from the same thread" (membar.rs:299). *)
RegisterTilesOrdered == \A r \in raced : Siblings(r[1], r[2])

(* The same between blocks of one op: the barrier "lies on every path between the two"
   (membar.rs:331). *)
EveryPathOrdered == raced = {}
===========================================================================
