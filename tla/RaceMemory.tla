---------------------------- MODULE RaceMemory ----------------------------
(***************************************************************************)
(* The shared memory of one CTA as the compiler's race check sees it       *)
(* (phobos-lang/src/race/memory.rs): for every byte, who wrote it and who  *)
(* read it since the last barrier, the accesses whose address was not      *)
(* known, the asynchronous copies in flight, and the hazards found so far. *)
(*                                                                         *)
(* The memory is a record, and each operation a function from a memory to  *)
(* the memory after it.  An Option is a set of at most one element, and an *)
(* interval lo..hi the set of its bytes.  There is one buffer: buffers     *)
(* share nothing but the sites of their hazards.                           *)
(***************************************************************************)
EXTENDS Integers, FiniteSets, Sequences, Functions

CONSTANTS NThreads,     \* threads of the CTA
          WarpSize,     \* threads of a warp: 32 in the code
          Size          \* bytes of the buffer

ASSUME SizesAssumption == /\ NThreads \in Nat \ {0}
                          /\ WarpSize \in Nat \ {0}
                          /\ Size \in Nat \ {0}

Threads == 0 .. NThreads - 1
WarpOf(t) == t \div WarpSize
Warps == {WarpOf(t) : t \in Threads}
Bytes == 0 .. Size - 1

\* The smallest interval with the bytes of S.
Hull(S) == {b \in Bytes : \E lo, hi \in S : lo <= b /\ b <= hi}

\* A Touch is [thread, site, write, stamp, collective, exact].
SameWarp(a, b) == a.thread # b.thread /\ WarpOf(a.thread) = WarpOf(b.thread)

Cell == [writer |-> {}, reader |-> {}, other |-> {}, far |-> {}, inFlight |-> FALSE]

IsEmpty(cell) == cell.writer = {} /\ cell.reader = {}

EmptyMemory == [cells   |-> [b \in Bytes |-> Cell],
                reached |-> {},
                ranges  |-> {},
                hazards |-> {},
                copies  |-> << >>,
                groups  |-> [t \in Threads |-> 0]]

---------------------------------------------------------------------------
(* What two touches of one byte are: lanes of a warp are ordered by a      *)
(* warp-wide op between them, or one that they made together.              *)

LanesOrdered(a, b) ==
  \/ a.collective \/ b.collective
  \/ a.stamp # b.stamp
  \/ a.site = b.site /\ a.write /\ b.write

Level(a, b) == CASE ~a.exact \/ ~b.exact -> "possible"
                 [] a.exact /\ b.exact /\ SameWarp(a, b) -> "warp"
                 [] OTHER -> "cta"

\* The key of a hazard; the code keeps with it the first pair and a count.
Hazard(a, b, level) == [first |-> a.site, firstWrite |-> a.write,
                        second |-> b.site, secondWrite |-> b.write, level |-> level]

Conflict(a, b) ==
  {Hazard(a, b, l) : l \in {Level(a, b)} \ (IF LanesOrdered(a, b) THEN {"warp"} ELSE {})}

---------------------------------------------------------------------------
(* One access of known address.                                            *)

\* The earlier touches of a cell that a new one is compared with.
Found(cell, t) == IF t.write THEN cell.writer \cup cell.reader \cup cell.other \cup cell.far
                             ELSE cell.writer

Meets(cell, earlier, t) ==
  \/ earlier.thread # t.thread
  \/ cell.inFlight /\ ~t.write /\ earlier.write

\* A cell remembers its last writer, its first reader, and the first readers
\* from another thread and from another warp than that one.
FirstOf(known, t, differs) == IF known = {} /\ differs THEN {t} ELSE known

\* A plausible mistake: only the second reader is kept, wherever it is.
SlipTwoReaders(cell, t, inFlight) ==
  CASE t.write -> [cell EXCEPT !.writer = {t}, !.inFlight = inFlight]
    [] ~t.write /\ cell.reader = {} -> [cell EXCEPT !.reader = {t}]
    [] OTHER -> LET first == CHOOSE r \in cell.reader : TRUE
                IN  [cell EXCEPT !.other = FirstOf(@, t, first.thread # t.thread)]

Remember(cell, t, inFlight) ==
  CASE t.write -> [cell EXCEPT !.writer = {t}, !.inFlight = inFlight]
    [] ~t.write /\ cell.reader = {} -> [cell EXCEPT !.reader = {t}]
    [] OTHER -> LET first == CHOOSE r \in cell.reader : TRUE
                IN  [cell EXCEPT
                       !.other = FirstOf(@, t, first.thread # t.thread),
                       !.far = FirstOf(@, t, WarpOf(first.thread) # WarpOf(t.thread))]

\* A plausible mistake: a range is taken for its first thread's.
SlipFirstThread(m, at, t) ==
  {r \in m.ranges : /\ r.bytes \cap at # {}
                    /\ r.touch.write \/ t.write
                    /\ r.touch.thread # t.thread}

\* The ranges that an access of the bytes `at` overlaps and races with.
Ranged(m, at, t) ==
  {r \in m.ranges : /\ r.bytes \cap at # {}
                    /\ r.touch.write \/ t.write
                    /\ r.shared \/ r.touch.thread # t.thread}

Mark(m, at, t, inFlight) ==
  LET met(b) == {e \in Found(m.cells[b], t) : Meets(m.cells[b], e, t)}
      hazards == UNION ({Conflict(r.touch, t) : r \in Ranged(m, at, t)}
                        \cup {UNION {Conflict(e, t) : e \in met(b)} : b \in at})
  IN  [m EXCEPT
         !.cells = [b \in Bytes |-> IF b \in at THEN Remember(@[b], t, inFlight) ELSE @[b]],
         !.reached = Hull(@ \cup at),
         !.hazards = @ \cup hazards]

---------------------------------------------------------------------------
(* An access whose address was not known: one range for each op.           *)

\* Against the exact accesses of this epoch: the first byte that conflicts.
AgainstExact(m, at, t) ==
  LET earlier(b) == IF t.write /\ m.cells[b].writer = {} THEN m.cells[b].reader
                                                         ELSE m.cells[b].writer
      met == {b \in at \cap m.reached : \E e \in earlier(b) : e.thread # t.thread}
      lowest == {b \in met : \A c \in met : b <= c}
  IN  UNION {Conflict(e, t) : e \in UNION {earlier(b) : b \in lowest}}

NewRange(m, at, t) ==
  LET others == {r \in m.ranges : r.bytes \cap at # {} /\ (r.touch.write \/ t.write)}
  IN  [m EXCEPT !.ranges = @ \cup {[bytes |-> at, touch |-> t, shared |-> FALSE]},
                !.hazards = @ \cup (UNION {Conflict(r.touch, t) : r \in others})
                              \cup AgainstExact(m, at, t)]

OldRange(m, r, at, t) ==
  LET shared == r.shared \/ r.touch.thread # t.thread
      covered == at \subseteq r.bytes
      grown == [r EXCEPT !.shared = shared, !.bytes = Hull(@ \cup at)]
  IN  [m EXCEPT !.ranges = (@ \ {r}) \cup {grown},
                !.hazards = @ \cup (IF covered THEN {} ELSE AgainstExact(m, at, t))]

RangeTouch(m, at, t) ==
  LET same == {r \in m.ranges : r.touch.site = t.site /\ r.touch.write = t.write}
  IN  IF same = {} THEN NewRange(m, at, t)
                   ELSE OldRange(m, CHOOSE r \in same : TRUE, at, t)

Touch(m, at, t) == IF t.exact THEN Mark(m, at, t, FALSE) ELSE RangeTouch(m, at, t)

---------------------------------------------------------------------------
(* Barriers and asynchronous copies.                                       *)

\* A plausible mistake: the touches of the last epoch stay.
SlipKeepCells(m) == [m EXCEPT !.reached = {}, !.ranges = {}]

\* A new epoch, in which the copies in flight are written again.
NextEpoch(m) ==
  LET clean == [m EXCEPT !.cells = EmptyMemory.cells, !.reached = {}, !.ranges = {}]
      again[n \in 0 .. Len(m.copies)] ==
        IF n = 0 THEN clean
                 ELSE Mark(again[n - 1], m.copies[n].bytes, m.copies[n].touch, TRUE)
  IN  again[Len(m.copies)]

\* Group 0 is the one a thread has not closed yet.
CopyAsync(m, at, t) ==
  [Mark(m, at, t, TRUE) EXCEPT
     !.copies = Append(@, [bytes |-> at, touch |-> t, group |-> 0])]

Commit(m, t) ==
  LET next == m.groups[t] + 1
  IN  [m EXCEPT
         !.groups[t] = next,
         !.copies = [i \in DOMAIN @ |-> IF @[i].touch.thread = t /\ @[i].group = 0
                                        THEN [m.copies[i] EXCEPT !.group = next] ELSE @[i]]]

\* saturating_sub, and a pending below zero counts as zero.
KeepFrom(newest, pending) ==
  (IF newest > pending THEN newest - pending ELSE 0) + 1

Wait(m, t, pending) ==
  LET keepFrom == KeepFrom(m.groups[t], pending)
      done(copy) == /\ copy.touch.thread = t
                    /\ copy.group # 0 /\ copy.group < keepFrom
      bytes == UNION {c.bytes : c \in {d \in Range(m.copies) : done(d)}}
      left[n \in 0 .. Len(m.copies)] ==
        IF n = 0 THEN << >>
        ELSE IF done(m.copies[n]) THEN left[n - 1]
                                  ELSE Append(left[n - 1], m.copies[n])
  IN  [m EXCEPT
         !.copies = left[Len(m.copies)],
         !.cells = [b \in Bytes |-> [m.cells[b] EXCEPT !.inFlight = @ /\ b \notin bytes]]]
===========================================================================
