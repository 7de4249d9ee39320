----------------------------- MODULE MCMembar -----------------------------
(* Kernels for Membar: two threads, small tiles.                             *)
EXTENDS Membar

Tile(lo, shape, elem, pitch, swizzled) ==
  [lo |-> lo, shape |-> shape, elem |-> elem, pitch |-> pitch, swizzled |-> swizzled]

\* Tiles that share bytes and differ in what is behind an element.
MCBuffers ==
  [plain |-> Tile(0, <<2, 2>>, 1, 2, FALSE), wide |-> Tile(0, <<2, 2>>, 2, 2, FALSE),
   padded |-> Tile(0, <<2, 2>>, 1, 3, FALSE), turned |-> Tile(0, <<2, 2>>, 1, 2, TRUE),
   shifted |-> Tile(1, <<2, 2>>, 1, 2, FALSE), long |-> Tile(0, <<1, 4>>, 1, 4, FALSE),
   x |-> Tile(0, <<1, 2>>, 1, 2, FALSE), y |-> Tile(2, <<1, 2>>, 1, 2, FALSE)]

Use(b, w) == [buf |-> b, write |-> w]
Op(uses, sweep, per, regs, ends) ==
  [uses |-> uses, sweep |-> sweep, per |-> per, regs |-> regs, ends |-> ends, broadcast |-> FALSE]

\* An elementwise op, an op of the whole CTA, a load or store of each thread.
Swept(b, width, write) ==
  Op(<<Use(b, write)>>, {[shape |-> MCBuffers[b].shape, width |-> width]}, FALSE, {}, "candidate")
Whole(b, write) == Op(<<Use(b, write)>>, {}, FALSE, {}, "candidate")
PerThread(b, write) == Op(<<Use(b, write)>>, {}, TRUE, {}, "open")
InRegs(b) ==
  Op(<<Use(b, FALSE)>>, {}, FALSE, {[shape |-> MCBuffers[b].shape, elem |-> MCBuffers[b].elem]}, "open")
Map2(from, to) ==
  Op(<<Use(from, FALSE), Use(to, TRUE)>>, {[shape |-> <<1, 2>>, width |-> 1]}, FALSE, {}, "candidate")
Fence == Op(<< >>, {}, FALSE, {}, "fence")
Atomic(slot) == [Op(<<Use(slot, TRUE)>>, {}, FALSE, {}, "open") EXCEPT !.broadcast = TRUE]

Widths == {"plain", "wide", "padded", "turned", "long"}

Sweeping ==
  [ops |-> {Swept(b, 1, TRUE) : b \in Widths \cup {"shifted"}}
           \cup {Swept("plain", 2, TRUE), Swept("long", 4, FALSE), Whole("plain", FALSE)},
   holders |-> {}, maxOps |-> 3, depth |-> 0]

\* Register tiles, made of tiles laid out and placed in every way.
Holding ==
  [ops |-> {Swept(b, 1, TRUE) : b \in Widths \cup {"shifted"}}
           \cup {InRegs(b) : b \in Widths \cup {"shifted"}}
           \cup {Whole("wide", TRUE), PerThread("plain", TRUE)},
   holders |-> {"for"}, maxOps |-> 3, depth |-> 1]

Looping ==
  [ops |-> {Swept("x", 1, TRUE), Whole("x", FALSE), PerThread("x", FALSE), Map2("x", "y"), InRegs("x"), Fence},
   holders |-> {"for", "ragged"}, maxOps |-> 5, depth |-> 2]

Branching ==
  [ops |-> {Swept("x", 1, TRUE), PerThread("x", FALSE), Whole("x", FALSE), Atomic("x")},
   holders |-> {"for", "while", "if", "ifElse"}, maxOps |-> 5, depth |-> 2]

MCFamilies == {Sweeping, Holding, Looping, Branching}

\* Loops alone, and register tiles alone.
OnlyLooping == {Looping}
OnlyHolding == {Holding}
===========================================================================
