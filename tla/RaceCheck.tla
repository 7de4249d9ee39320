---------------------------- MODULE RaceCheck ----------------------------
(***************************************************************************)
(* The compiler's race check at work: one CTA of a kernel is executed op   *)
(* by op, every thread of the mask in turn (phobos-lang/src/race/exec.rs), *)
(* and a loop with the same bounds in every thread takes its first and its *)
(* last turns only (race/control.rs).  What the accesses do to the memory  *)
(* is RaceMemory.                                                          *)
(*                                                                         *)
(* The kernel is chosen as it runs: an op of a known site, the threads     *)
(* that are active, where each of them accesses.  Beside the check runs    *)
(* `truth`, which forgets nothing within an epoch and follows the rules at *)
(* the head of memory.rs; the properties compare the two.                  *)
(***************************************************************************)
EXTENDS RaceMemory

CONSTANTS Kernels,      \* what the kernels of an instance are made of
          LoopTurns     \* the trip counts of loops

\* A kernel's `code` gives its sites their ops: a kind and its number, which is the
\* lanes of a load of matrices or the groups a wait leaves pending.  `masks` are the
\* sets of threads that may be active, `views` where a thread may access: `at` has
\* the bytes in even and in odd turns.  `maxOps` bounds the ops chosen; they are
\* the body of a loop if `loops`.
ASSUME KernelsAssumption ==
  /\ \A k \in Kernels :
       /\ \A site \in DOMAIN k.code : k.code[site].n \in Nat
       /\ k.masks \subseteq (SUBSET Threads) \ {{}}
       /\ \A v \in k.views : /\ v.at \in [0 .. 1 -> (SUBSET Bytes) \ {{}}]
                            /\ v.exact \in BOOLEAN
  /\ LoopTurns \subseteq Nat \ {0}

VARIABLES kernel,    \* the element of Kernels that runs
          check,     \* Exec: mem, stamps, divergent
          truth,     \* what happened: log, open, groups, races
          ops,       \* how many ops were chosen
          loop       \* for_loop: body, turns (0 while it is chosen), turn

vars == <<kernel, check, truth, ops, loop>>

\* The turns of a loop that are run at each end.
END_TURNS == 2

---------------------------------------------------------------------------
(* The truth.                                                              *)

\* The touches of the epoch, and the copies that a thread has in flight: those
\* of no group yet, and its groups in order.
NoTruth == [log |-> {}, races |-> {},
            open |-> [t \in Threads |-> {}], groups |-> [t \in Threads |-> << >>]]

InFlightOf(tr, t) == tr.open[t] \cup UNION Range(tr.groups[t])

Racing(e, f) == /\ e.bytes \cap f.bytes # {}
                /\ e.touch.write \/ f.touch.write
                /\ e.touch.thread # f.touch.thread

\* A race of two threads, at its level.  One side's address may be unknown: the
\* first access is then the exact one, or the later.
RacesOf(tr, f) ==
  {[Hazard(e.touch, f.touch, Level(e.touch, f.touch)) EXCEPT !.level =
      CASE @ = "possible" /\ f.touch.exact -> "exactLater"
        [] @ = "possible" /\ e.touch.exact -> "exactFirst"
        [] OTHER -> @]
   : e \in {d \in tr.log : /\ Racing(d, f)
                           /\ \/ ~SameWarp(d.touch, f.touch)
                              \/ ~d.touch.exact \/ ~f.touch.exact
                              \/ /\ d.touch.stamp = f.touch.stamp
                                 /\ ~d.touch.collective /\ ~f.touch.collective}}

\* A thread that reads what its own copy has not brought yet.
EarlyReads(tr, f) ==
  {Hazard(e.touch, f.touch, "early")
   : e \in {d \in InFlightOf(tr, f.touch.thread) : ~f.touch.write /\ d.bytes \cap f.bytes # {}}}

Happened(tr, at, t) ==
  LET f == [bytes |-> at, touch |-> t]
  IN  [tr EXCEPT !.log = @ \cup {f},
                 !.races = @ \cup RacesOf(tr, f) \cup EarlyReads(tr, f)]

---------------------------------------------------------------------------
(* Exec::op, with both in one state [check, truth].                        *)

TouchOf(s, op, t, exact) ==
  [thread |-> t, site |-> op.site, write |-> op.kind \in {"store", "copy", "mmaStore"},
   stamp |-> s.check.stamps[WarpOf(t)], exact |-> exact,
   collective |-> op.kind \in {"mmaLoad", "mmaStore"}]

\* An access of unknown address covers its whole view, here the whole buffer.
Access(s, op, t, turn) ==
  LET view == op.view[t]
      at == IF view.exact THEN view.at[turn % 2] ELSE Bytes
      touch == TouchOf(s, op, t, view.exact)
  IN  [s EXCEPT !.check.mem = Touch(@, at, touch),
                !.truth = Happened(@, at, touch)]

Copy(s, op, t, turn) ==
  LET at == op.view[t].at[turn % 2]
      touch == TouchOf(s, op, t, TRUE)
      happened == Happened(s.truth, at, touch)
  IN  [s EXCEPT !.check.mem = CopyAsync(@, at, touch),
                !.truth = [happened EXCEPT
                             !.open[t] = @ \cup {[bytes |-> at, touch |-> touch]}]]

Group(s, op, t, turn) ==
  [s EXCEPT !.check.mem = Commit(@, t),
            !.truth.groups[t] = Append(@, s.truth.open[t]),
            !.truth.open[t] = {}]

AsyncWait(s, op, t, turn) ==
  LET groups == s.truth.groups[t]
      left == IF Len(groups) > op.n THEN op.n ELSE Len(groups)
  IN  [s EXCEPT !.check.mem = Wait(@, t, op.n),
                !.truth.groups[t] = SubSeq(groups, Len(groups) - left + 1, Len(groups))]

WarpSync(s, mask) ==
  [s EXCEPT !.check.stamps =
     [w \in Warps |-> IF \E t \in mask : WarpOf(t) = w THEN @[w] + 1 ELSE @[w]]]

\* The copies that outlive a barrier, in the next epoch's log.
Barrier(s, mask) ==
  [s EXCEPT !.check.mem = NextEpoch(@),
            !.check.divergent = @ \/ mask # Threads,
            !.truth.log = UNION {InFlightOf(s.truth, t) : t \in Threads}]

\* A warp moves a fragment together: its first active lane stands for it.
FirstLanes(mask) == {t \in mask : \A u \in mask : WarpOf(u) = WarpOf(t) => t <= u}

Lane(s, op, t, turn) ==
  CASE op.kind = "copy"  -> Copy(s, op, t, turn)
    [] op.kind = "group" -> Group(s, op, t, turn)
    [] op.kind = "wait"  -> AsyncWait(s, op, t, turn)
    [] OTHER -> Access(s, op, t, turn)

\* The lanes of an op, one after the other.
Lanes(s, op, lanes, turn) ==
  LET after[n \in 0 .. NThreads] ==
        IF n = 0 THEN s
        ELSE IF n - 1 \in lanes THEN Lane(after[n - 1], op, n - 1, turn) ELSE after[n - 1]
  IN  after[NThreads]

Run(s, op, turn) ==
  CASE op.kind \in {"load", "store", "copy", "group", "wait"} -> Lanes(s, op, op.mask, turn)
    [] op.kind \in {"mmaLoad", "mmaStore"} ->
         WarpSync(Lanes(s, op, FirstLanes(op.mask), turn), op.mask)
    [] op.kind = "ldMatrix" ->
         WarpSync(Lanes(s, op, {t \in op.mask : t % WarpSize < op.n}, turn), op.mask)
    [] op.kind = "warpSync" -> WarpSync(s, op.mask)
    [] op.kind = "barrier" -> Barrier(s, op.mask)

RunBody(s, body, turn) ==
  LET after[n \in 0 .. Len(body)] ==
        IF n = 0 THEN s ELSE Run(after[n - 1], body[n], turn)
  IN  after[Len(body)]

\* The turns first, first + 1, ..., in all `count` of them.
RunTurns(s, body, first, count) ==
  LET after[n \in 0 .. count] ==
        IF n = 0 THEN s ELSE RunBody(after[n - 1], body, first + n - 1)
  IN  after[count]

---------------------------------------------------------------------------
(* The kernel.                                                             *)

State == [check |-> check, truth |-> truth]

Moves(s) == check' = s.check /\ truth' = s.truth

Choosing == loop.turns = 0 /\ ops < kernel.maxOps

Execute(site, mask, view) ==
  LET op == [site |-> site, kind |-> kernel.code[site].kind, n |-> kernel.code[site].n,
             mask |-> mask, view |-> view]
  IN  /\ Moves(Run(State, op, 0))
      /\ ops' = ops + 1
      /\ loop' = [loop EXCEPT !.body = IF kernel.loops THEN Append(@, op) ELSE @]
      /\ UNCHANGED kernel

SitesOf(kinds) == {c \in DOMAIN kernel.code : kernel.code[c].kind \in kinds}

\* Where the threads of a mask access: each where it likes, in a loop all alike.
Views(mask) ==
  IF kernel.loops THEN {[t \in mask |-> v] : v \in kernel.views} ELSE [mask -> kernel.views]

RunAccess ==
  /\ Choosing
  /\ \E site \in SitesOf({"load", "store", "ldMatrix"}), mask \in kernel.masks :
       \E view \in Views(mask) : Execute(site, mask, view)

\* A copy, of known address.
RunCopy ==
  /\ Choosing
  /\ \E site \in SitesOf({"copy"}), mask \in kernel.masks :
       \E view \in {w \in Views(mask) : \A t \in mask : w[t].exact} : Execute(site, mask, view)

\* A warp's fragment is in one place.
RunCollective ==
  /\ Choosing
  /\ \E site \in SitesOf({"mmaLoad", "mmaStore"}), mask \in kernel.masks :
       \E view \in kernel.views : Execute(site, mask, [t \in mask |-> view])

RunOrder ==
  /\ Choosing
  /\ \E site \in SitesOf({"group", "wait", "warpSync", "barrier"}), mask \in kernel.masks :
       Execute(site, mask, << >>)

\* The body is complete, and its first turn is over.
CloseBody ==
  /\ kernel.loops /\ loop.turns = 0 /\ loop.body # << >>
  /\ \E n \in LoopTurns : loop' = [loop EXCEPT !.turns = n, !.turn = 1]
  /\ UNCHANGED <<kernel, check, truth, ops>>

Skips == loop.turn = END_TURNS /\ loop.turns > 2 * END_TURNS

RunTurn ==
  /\ loop.turn \in 1 .. loop.turns - 1
  /\ ~Skips
  /\ Moves(RunBody(State, loop.body, loop.turn))
  /\ loop' = [loop EXCEPT !.turn = @ + 1]
  /\ UNCHANGED <<kernel, ops>>

\* The check goes on with the last turns; what happens goes through all.  Stamps
\* count the warp-wide ops that happen, which only their equality is asked of.
SkipTurns ==
  /\ loop.turn \in 1 .. loop.turns - 1
  /\ Skips
  /\ LET last == loop.turns - END_TURNS
          all == RunTurns(State, loop.body, loop.turn, last - loop.turn)
     IN  /\ check' = [check EXCEPT !.stamps = all.check.stamps]
         /\ truth' = all.truth
         /\ loop' = [loop EXCEPT !.turn = last]
  /\ UNCHANGED <<kernel, ops>>

Init ==
  /\ kernel \in Kernels
  /\ check = [mem |-> EmptyMemory, stamps |-> [w \in Warps |-> 0], divergent |-> FALSE]
  /\ truth = NoTruth
  /\ ops = 0
  /\ loop = [body |-> << >>, turns |-> 0, turn |-> 0]

Next ==
  \/ RunAccess \/ RunCopy \/ RunCollective \/ RunOrder
  \/ CloseBody \/ RunTurn \/ SkipTurns

Spec == Init /\ [][Next]_vars

---------------------------------------------------------------------------
(* Properties.                                                             *)

HazardType == [first : UNION {DOMAIN k.code : k \in Kernels}, firstWrite : BOOLEAN,
               second : UNION {DOMAIN k.code : k \in Kernels}, secondWrite : BOOLEAN,
               level : {"possible", "warp", "cta"}]

(* The types; and a cell has a second reader only after a first, a reader in another
   warp only if it has a second one, and is in flight only if written (memory.rs, Cell). *)
TypeOK ==
  /\ check.mem.hazards \subseteq HazardType
  /\ check.mem.ranges \subseteq [bytes : SUBSET Bytes, shared : BOOLEAN,
                                touch : {r.touch : r \in check.mem.ranges}]
  /\ \A b \in Bytes :
       LET cell == check.mem.cells[b]
       IN  /\ cell.far # {} => cell.other # {}
           /\ cell.other # {} => cell.reader # {}
           /\ cell.inFlight => cell.writer # {}
           /\ ~IsEmpty(cell) => b \in check.mem.reached

\* Report::clean: no race between warps and no barrier that only some threads reach.
Clean == ~check.divergent /\ \A h \in check.mem.hazards : h.level # "cta"

\* A kernel may end after any op, a loop after its last turn.
Over == loop.turn = loop.turns

(* Of a kernel called clean, no two threads of different warps touched a byte within one
   epoch with one of them writing, copies in flight included, although a cell keeps one writer
   and three readers only, and a loop skips its middle turns (memory.rs:29-34, control.rs:7-10). *)
CleanMeansNoRace == (Over /\ Clean) => \A r \in truth.races : r.level # "cta"

\* The turns skipped are as many even ones as odd ones.
SkipsPairs == loop.turns > 2 * END_TURNS => loop.turns % 2 = 0

(* A race reported between exact accesses is one that happened, at these two sites and in this
   order: of two warps, of two lanes with no warp-wide op between, or a thread's own read of a copy
   it has not waited for.  A loop that uses two slots in turn is an exception when it skips an
   odd number of turns: turns that never meet become neighbours (control.rs:7-10). *)
RacesAreReal ==
  SkipsPairs => \A h \in check.mem.hazards :
    h.level # "possible" => \/ h \in truth.races
                            \/ h.level = "cta" /\ [h EXCEPT !.level = "early"] \in truth.races

(* An exact access that meets an earlier one of unknown address by another thread is
   reported for the two sites, although a range is kept for an op and not for a thread. *)
LaterExactFound ==
  \A r \in truth.races :
    r.level = "exactLater" => [r EXCEPT !.level = "possible"] \in check.mem.hazards

(* An access of unknown address is "checked against the exact accesses it overlaps"
   (memory.rs:198-199) by other threads, earlier in the epoch. *)
GatherChecked ==
  \A r \in truth.races :
    r.level = "exactFirst" =>
      \E h \in check.mem.hazards : h.level = "possible" /\ h.second = r.second
===========================================================================
