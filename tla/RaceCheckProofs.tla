-------------------------- MODULE RaceCheckProofs --------------------------
(***************************************************************************)
(* Theorems about RaceCheck, for every number of threads, warps and bytes, *)
(* and every kernel, as long as no turn of a loop was skipped: what is     *)
(* called clean has no race between warps, what is reported happened, and  *)
(* an exact access that meets one of unknown address is reported.          *)
(***************************************************************************)
EXTENDS RaceCheck, SequenceTheorems, WellFoundedInduction, TLAPS

-----------------------------------------------------------------------------
(* Steps in turn *)

(* A set of naturals that is not empty has a least element.                *)
LEMMA LeastExists ==
    ASSUME NEW T \in SUBSET Nat, T # {}
    PROVE  \E x \in T : \A y \in T : x <= y
<1>1. \E x \in T : \A y \in T : <<y, x>> \notin OpToRel(<, Nat)
  BY NatLessThanWellFounded, WFMin
<1>2. \A x, y \in Nat : y < x => <<y, x>> \in OpToRel(<, Nat)
  <2> SUFFICES ASSUME NEW x \in Nat, NEW y \in Nat, y < x
               PROVE  <<y, x>> \in {ss \in Nat \X Nat : ss[1] < ss[2]}
    BY DEF OpToRel
  <2> QED OBVIOUS
<1>3. PICK x \in T : \A y \in T : <<y, x>> \notin OpToRel(<, Nat)
  BY <1>1
<1>4. ASSUME NEW y \in T PROVE x <= y
  <2>1. ~(y < x)
    BY <1>2, <1>3
  <2> QED BY <2>1
<1> QED BY <1>4

(* What holds of 0 and passes from each number to the next.                *)
LEMMA UpTo ==
    ASSUME NEW n \in Nat, NEW T, 0 \in T, \A i \in 1..n : i - 1 \in T => i \in T
    PROVE  \A i \in 0..n : i \in T
<1> DEFINE Out == {i \in 0..n : i \notin T}
<1> SUFFICES ASSUME Out # {} PROVE FALSE
  OBVIOUS
<1>1. PICK x \in Out : \A y \in Out : x <= y
  <2>1. Out \in SUBSET Nat
    OBVIOUS
  <2> QED BY <2>1, LeastExists
<1>2. x # 0 /\ x \in 1..n /\ x - 1 \in 0..n
  OBVIOUS
<1>3. x - 1 \notin Out
  BY <1>1, <1>2
<1> QED BY <1>1, <1>2, <1>3

(* Functions of S into itself, and what they make of an element in turn.   *)
Turns(F, n, S) == F \in [1..n -> [S -> S]]
InTurn(F, n, S, s0) ==
    \E f \in [0..n -> S] : f[0] = s0 /\ \A i \in 1..n : f[i] = F[i][f[i - 1]]

LEMMA FoldExists ==
    ASSUME NEW n \in Nat, NEW S, NEW s0 \in S, NEW F, Turns(F, n, S)
    PROVE  InTurn(F, n, S, s0)
<1> DEFINE Good(m) == \E f \in [0..m -> S] : f[0] = s0 /\ \A i \in 1..m : f[i] = F[i][f[i - 1]]
           T == {m \in 0..n : Good(m)}
<1>0. F \in [1..n -> [S -> S]]
  BY DEF Turns
<1>1. 0 \in T
  <2> DEFINE g == [i \in 0..0 |-> s0]
  <2>1. g \in [0..0 -> S] /\ g[0] = s0 /\ \A i \in 1..0 : g[i] = F[i][g[i - 1]]
    OBVIOUS
  <2> HIDE DEF g
  <2>2. Good(0)
    BY <2>1
  <2> QED BY <2>2
<1>2. ASSUME NEW m \in 1..n, m - 1 \in T PROVE m \in T
  <2>1. PICK f \in [0..(m - 1) -> S] : f[0] = s0 /\ \A i \in 1..(m - 1) : f[i] = F[i][f[i - 1]]
    BY <1>2
  <2> DEFINE g == [i \in 0..m |-> IF i = m THEN F[m][f[m - 1]] ELSE f[i]]
  <2>2. F[m][f[m - 1]] \in S
    BY <1>0
  <2>3. g \in [0..m -> S] /\ g[0] = s0
    BY <2>1, <2>2
  <2>4. ASSUME NEW i \in 1..m PROVE g[i] = F[i][g[i - 1]]
    <3>1. g[i - 1] = f[i - 1]
      OBVIOUS
    <3>2. CASE i = m
      <4>1. g[m] = F[m][f[m - 1]]
        OBVIOUS
      <4> QED BY <3>1, <3>2, <4>1
    <3>3. CASE i # m
      <4>1. i \in 1..(m - 1)
        BY <3>3
      <4> QED BY <4>1, <3>1, <3>3, <2>1
    <3> QED BY <3>2, <3>3
  <2> HIDE DEF g
  <2>5. Good(m)
    BY <2>3, <2>4
  <2> HIDE DEF Good
  <2> QED BY <2>5
<1>3. n \in T
  <2> HIDE DEF T
  <2>1. \A i \in 1..n : i - 1 \in T => i \in T
    BY <1>2
  <2>2. \A i \in 0..n : i \in T
    BY <1>1, <2>1, UpTo
  <2> QED BY <2>2
<1> QED BY <1>3 DEF InTurn

-----------------------------------------------------------------------------
(* Types *)

Sites == UNION {DOMAIN k.code : k \in Kernels}
AllViews == UNION {k.views : k \in Kernels}
Levels == {"possible", "warp", "cta"}

Touches == [thread : Threads, site : Sites, write : BOOLEAN, stamp : Nat,
            exact : BOOLEAN, collective : BOOLEAN]
Cells == [writer : SUBSET Touches, reader : SUBSET Touches, other : SUBSET Touches,
          far : SUBSET Touches, inFlight : BOOLEAN]
RangeSet == [bytes : SUBSET Bytes, touch : Touches, shared : BOOLEAN]
CopySet == [bytes : SUBSET Bytes, touch : {t \in Touches : t.exact /\ t.write}, group : Nat]
Memories == [cells : [Bytes -> Cells], reached : SUBSET Bytes, ranges : SUBSET RangeSet,
             hazards : SUBSET HazardType, copies : Seq(CopySet), groups : [Threads -> Nat]]
Checks == [mem : Memories, stamps : [Warps -> Nat], divergent : BOOLEAN]

Entries == [bytes : SUBSET Bytes, touch : Touches]
RaceSet == [first : Sites, firstWrite : BOOLEAN, second : Sites, secondWrite : BOOLEAN,
            level : Levels \cup {"early", "exactLater", "exactFirst"}]
Truths == [log : SUBSET Entries, races : SUBSET RaceSet, open : [Threads -> SUBSET Entries],
           groups : [Threads -> Seq(SUBSET Entries)]]
States == [check : Checks, truth : Truths]

Accesses == {"load", "store", "ldMatrix", "mmaLoad", "mmaStore", "copy"}
Kinds == Accesses \cup {"group", "wait", "warpSync", "barrier"}
OpSet == [site : Sites, kind : Kinds, n : Nat, mask : SUBSET Threads,
          view : {<< >>} \cup UNION {[m -> AllViews] : m \in SUBSET Threads}]
OpOk(op) == /\ op \in OpSet
            /\ op.kind \in Accesses => \A t \in op.mask : op.view[t] \in AllViews
            /\ op.kind = "copy" => \A t \in op.mask : op.view[t].exact
Ops == {op \in OpSet : OpOk(op)}

LoopType == loop \in [body : Seq(Ops), turns : Nat, turn : Nat]

-----------------------------------------------------------------------------
(* What a byte remembers. *)

Known(c) == c.writer \cup c.reader \cup c.other \cup c.far
CellOk(c) ==
    /\ c.far # {} => c.other # {}
    /\ c.other # {} => c.reader # {}
    /\ c.inFlight => c.writer # {}
    /\ \A e \in c.writer : e.exact /\ e.write
    /\ \A e \in c.reader \cup c.other \cup c.far : e.exact /\ ~e.write
    /\ \A r \in c.reader : \A q \in c.far : WarpOf(r.thread) # WarpOf(q.thread)
    /\ \A x, y \in c.reader : x = y

CellsOk(m) ==
    \A b \in Bytes : CellOk(m.cells[b]) /\ (~IsEmpty(m.cells[b]) => b \in m.reached)

(* An exact touch left its mark: one of its warp is remembered, or, of a   *)
(* read, readers of two warps.                                             *)
OfWarp(S, e) == \E x \in S : WarpOf(x.thread) = WarpOf(e.thread)
Marked(c, e) == IF e.write THEN OfWarp(c.writer, e)
                           ELSE c.reader # {} /\ (OfWarp(c.reader, e) \/ c.far # {})
AllMarked(cells, log) ==
    \A b \in Bytes : \A d \in log : b \in d.bytes /\ d.touch.exact => Marked(cells[b], d.touch)

NoCta(H) == \A h \in H : h.level # "cta"
CleanFree(m, tr) == NoCta(m.hazards) => AllMarked(m.cells, tr.log) /\ NoCta(tr.races)

(* What is remembered happened in this epoch.                              *)
Logged(cells, log) ==
    \A b \in Bytes : \A e \in Known(cells[b]) : \E d \in log : d.touch = e /\ b \in d.bytes

InFlightTrue(cells, tr) ==
    \A b \in Bytes : cells[b].inFlight =>
        \A w \in cells[b].writer :
            \E d \in InFlightOf(tr, w.thread) : d.touch = w /\ b \in d.bytes

(* The copies in flight, in the order they were made, are those of `truth`.*)
EntryOf(c) == [bytes |-> c.bytes, touch |-> c.touch]
CopyOf(e, g) == [bytes |-> e.bytes, touch |-> e.touch, group |-> g]
Closed(m, tr, t) == m.groups[t] - Len(tr.groups[t])
Tracked(m, tr) ==
    /\ \A i \in 1..Len(m.copies) :
          LET c == m.copies[i]
              t == c.touch.thread
          IN  /\ c.touch.exact /\ c.touch.write
              /\ \/ c.group = 0 /\ EntryOf(c) \in tr.open[t]
                 \/ /\ c.group - Closed(m, tr, t) \in 1..Len(tr.groups[t])
                    /\ EntryOf(c) \in tr.groups[t][c.group - Closed(m, tr, t)]
    /\ \A t \in Threads :
          /\ Len(tr.groups[t]) <= m.groups[t]
          /\ \A e \in tr.open[t] :
                e.touch.thread = t /\ \E i \in 1..Len(m.copies) : m.copies[i] = CopyOf(e, 0)
          /\ \A k \in 1..Len(tr.groups[t]) : \A e \in tr.groups[t][k] :
                /\ e.touch.thread = t
                /\ \E i \in 1..Len(m.copies) : m.copies[i] = CopyOf(e, Closed(m, tr, t) + k)
          /\ InFlightOf(tr, t) \subseteq tr.log

PairsTold(copies, races) ==
    \A i, j \in 1..Len(copies) :
        /\ i < j
        /\ copies[i].bytes \cap copies[j].bytes # {}
        /\ copies[i].touch.thread # copies[j].touch.thread
        => Conflict(copies[i].touch, copies[j].touch) \subseteq races

Happening(h, races) ==
    h.level # "possible" => h \in races \/ (h.level = "cta" /\ [h EXCEPT !.level = "early"] \in races)
HazardsReal(H, races) == \A h \in H : Happening(h, races)

(* A range stands for each access of unknown address.                      *)
RangesCover(ranges, log) ==
    /\ \A r \in ranges : ~r.touch.exact
    /\ \A d \in log : ~d.touch.exact =>
          \E r \in ranges : /\ r.touch.site = d.touch.site /\ r.touch.write = d.touch.write
                            /\ d.bytes \subseteq r.bytes
                            /\ r.shared \/ r.touch.thread = d.touch.thread
LaterTold(H, races) ==
    \A r \in races : r.level = "exactLater" => [r EXCEPT !.level = "possible"] \in H

Sound == {s \in States : CellsOk(s.check.mem)}
Faithful(m, tr) ==
    /\ CleanFree(m, tr)
    /\ Logged(m.cells, tr.log)
    /\ InFlightTrue(m.cells, tr)
    /\ Tracked(m, tr)
    /\ PairsTold(m.copies, tr.races)
    /\ HazardsReal(m.hazards, tr.races)
    /\ RangesCover(m.ranges, tr.log)
    /\ LaterTold(m.hazards, tr.races)
Good(s) == Faithful(s.check.mem, s.truth)

\* Every turn so far was run: the loop is short, or has not come to its middle.
NoneSkipped == loop.turns <= 2 * END_TURNS \/ loop.turn <= END_TURNS

CheckInv == /\ kernel \in Kernels
            /\ LoopType
            /\ State \in Sound
            /\ NoneSkipped => Good(State)

-----------------------------------------------------------------------------
(* Two touches of a byte *)

LEMMA WarpsNat ==
    /\ \A t \in Threads : WarpOf(t) \in Warps
    /\ \A t \in Threads : t \in Int
BY DEF Warps, Threads

(* Exact touches of two warps conflict across warps.                       *)
LEMMA ConflictCta ==
    ASSUME NEW a \in Touches, NEW b \in Touches, a.exact, b.exact,
           WarpOf(a.thread) # WarpOf(b.thread)
    PROVE  Hazard(a, b, "cta") \in Conflict(a, b)
BY DEF Conflict, Level, SameWarp

(* With an address unknown a conflict is always possible.                  *)
LEMMA ConflictPossible ==
    ASSUME NEW a, NEW b, ~a.exact \/ ~b.exact
    PROVE  Conflict(a, b) = {Hazard(a, b, "possible")}
BY DEF Conflict, Level

LEMMA ConflictTyped ==
    ASSUME NEW a \in Touches, NEW b \in Touches
    PROVE  Conflict(a, b) \subseteq HazardType
<1>1. Level(a, b) \in Levels
  BY DEF Level, Levels
<1> QED BY <1>1 DEF Conflict, Hazard, HazardType, Touches, Levels, Sites

(* The conflicts of an exact touch with an earlier one of the log are the  *)
(* races of the two.                                                       *)
LEMMA ConflictRaces ==
    ASSUME NEW tr, NEW d \in tr.log, NEW f, Racing(d, f), d.touch.exact, f.touch.exact
    PROVE  Conflict(d.touch, f.touch) \subseteq RacesOf(tr, f)
<1> DEFINE e == d.touch
           t == f.touch
           h == Hazard(e, t, Level(e, t))
<1>1. Level(e, t) \in {"warp", "cta"} /\ (SameWarp(e, t) <=> Level(e, t) = "warp")
  BY DEF Level
<1>2. Conflict(e, t) \subseteq {h} /\ (Conflict(e, t) # {} => ~(Level(e, t) = "warp" /\ LanesOrdered(e, t)))
  BY DEF Conflict
<1>3. [h EXCEPT !.level = CASE @ = "possible" /\ t.exact -> "exactLater"
                            [] @ = "possible" /\ e.exact -> "exactFirst"
                            [] OTHER -> @] = h
  BY <1>1 DEF Hazard
<1>4. ASSUME Conflict(e, t) # {} PROVE h \in RacesOf(tr, f)
  <2>1. \/ ~SameWarp(e, t)
        \/ e.stamp = t.stamp /\ ~e.collective /\ ~t.collective
    BY <1>1, <1>2, <1>4 DEF LanesOrdered
  <2> QED BY <2>1, <1>3 DEF RacesOf
<1> QED BY <1>2, <1>4

(* A race between warps is one of exact touches.                           *)
LEMMA CtaRace ==
    ASSUME NEW tr, tr.log \subseteq Entries, NEW f \in Entries,
           NEW r \in RacesOf(tr, f), r.level = "cta"
    PROVE  \E d \in tr.log : /\ Racing(d, f) /\ d.touch.exact /\ f.touch.exact
                             /\ WarpOf(d.touch.thread) # WarpOf(f.touch.thread)
<1>1. PICK d \in tr.log :
         /\ Racing(d, f)
         /\ r = [Hazard(d.touch, f.touch, Level(d.touch, f.touch)) EXCEPT !.level =
                   CASE @ = "possible" /\ f.touch.exact -> "exactLater"
                     [] @ = "possible" /\ d.touch.exact -> "exactFirst"
                     [] OTHER -> @]
  BY DEF RacesOf
<1>2. Level(d.touch, f.touch) = "cta"
  BY <1>1 DEF Hazard, Level
<1> QED BY <1>1, <1>2 DEF Level, SameWarp, Racing

(* A later exact touch races with one of unknown address.                  *)
LEMMA LaterRace ==
    ASSUME NEW tr, NEW f, NEW r \in RacesOf(tr, f), r.level = "exactLater"
    PROVE  \E d \in tr.log : /\ Racing(d, f) /\ ~d.touch.exact /\ f.touch.exact
                             /\ [r EXCEPT !.level = "possible"] = Hazard(d.touch, f.touch, "possible")
<1>1. PICK d \in tr.log :
         /\ Racing(d, f)
         /\ r = [Hazard(d.touch, f.touch, Level(d.touch, f.touch)) EXCEPT !.level =
                   CASE @ = "possible" /\ f.touch.exact -> "exactLater"
                     [] @ = "possible" /\ d.touch.exact -> "exactFirst"
                     [] OTHER -> @]
  BY DEF RacesOf
<1>2. Level(d.touch, f.touch) = "possible" /\ f.touch.exact
  BY <1>1 DEF Hazard, Level
<1> QED BY <1>1, <1>2 DEF Level, Hazard

LEMMA RacesTyped ==
    ASSUME NEW tr \in Truths, NEW f \in Entries
    PROVE  RacesOf(tr, f) \subseteq RaceSet /\ EarlyReads(tr, f) \subseteq RaceSet
<1>1. \A d \in tr.log : Level(d.touch, f.touch) \in Levels
  BY DEF Level, Levels
<1>2. tr.log \subseteq Entries
  BY DEF Truths
<1>3. RacesOf(tr, f) \subseteq RaceSet
  <2> SUFFICES ASSUME NEW d \in tr.log,
                      NEW r, r = [Hazard(d.touch, f.touch, Level(d.touch, f.touch)) EXCEPT !.level =
                                    CASE @ = "possible" /\ f.touch.exact -> "exactLater"
                                      [] @ = "possible" /\ d.touch.exact -> "exactFirst"
                                      [] OTHER -> @]
               PROVE  r \in RaceSet
    BY DEF RacesOf
  <2>1. d.touch \in Touches /\ f.touch \in Touches
    BY <1>2 DEF Entries
  <2>2. Level(d.touch, f.touch) \in Levels
    BY <1>1
  <2>3. \E l \in Levels \cup {"exactLater", "exactFirst"} : r = Hazard(d.touch, f.touch, l)
    BY <2>2 DEF Hazard, Levels
  <2> QED BY <2>1, <2>3 DEF Hazard, RaceSet, Touches
<1>4. \A t \in Threads : InFlightOf(tr, t) \subseteq Entries
  <2> SUFFICES ASSUME NEW t \in Threads, NEW d \in InFlightOf(tr, t) PROVE d \in Entries
    OBVIOUS
  <2>1. tr.open[t] \in SUBSET Entries /\ tr.groups[t] \in Seq(SUBSET Entries)
    BY DEF Truths
  <2>2. \A i \in DOMAIN tr.groups[t] : tr.groups[t][i] \in SUBSET Entries
    BY <2>1, ElementOfSeq, LenProperties
  <2> QED BY <2>1, <2>2 DEF InFlightOf, Range
<1>5. EarlyReads(tr, f) \subseteq RaceSet
  BY <1>4 DEF EarlyReads, Hazard, RaceSet, Entries, Touches
<1> QED BY <1>3, <1>5

-----------------------------------------------------------------------------
(* What a byte remembers of a touch *)

LEMMA RememberCases ==
    ASSUME NEW c \in Cells, NEW t \in Touches, NEW fl \in BOOLEAN, CellOk(c),
           NEW n, n = Remember(c, t, fl)
    PROVE  /\ n \in Cells
           /\ t.write => /\ n.writer = {t} /\ n.inFlight = fl
                         /\ n.reader = c.reader /\ n.other = c.other /\ n.far = c.far
           /\ ~t.write => /\ n.writer = c.writer /\ n.inFlight = c.inFlight
                          /\ c.reader = {} => n.reader = {t} /\ n.other = c.other /\ n.far = c.far
                          /\ \A x \in c.reader :
                                /\ n.reader = c.reader
                                /\ n.other = FirstOf(c.other, t, x.thread # t.thread)
                                /\ n.far = FirstOf(c.far, t, WarpOf(x.thread) # WarpOf(t.thread))
<1>1. CASE t.write
  BY <1>1 DEF Remember, Cells
<1>2. CASE ~t.write /\ c.reader = {}
  BY <1>2 DEF Remember, Cells
<1>3. CASE ~t.write /\ c.reader # {}
  <2> DEFINE first == CHOOSE r \in c.reader : TRUE
  <2>1. first \in c.reader /\ \A x \in c.reader : x = first
    BY <1>3 DEF CellOk
  <2>2. Remember(c, t, fl) = [c EXCEPT !.other = FirstOf(@, t, first.thread # t.thread),
                                       !.far = FirstOf(@, t, WarpOf(first.thread) # WarpOf(t.thread))]
    BY <1>3 DEF Remember
  <2> HIDE DEF first
  <2>3. FirstOf(c.other, t, first.thread # t.thread) \in SUBSET Touches
    BY DEF FirstOf, Cells
  <2>4. FirstOf(c.far, t, WarpOf(first.thread) # WarpOf(t.thread)) \in SUBSET Touches
    BY DEF FirstOf, Cells
  <2> QED BY <1>3, <2>1, <2>2, <2>3, <2>4 DEF Cells
<1> QED BY <1>1, <1>2, <1>3

(* A cell keeps its shape, and remembers besides what it knew only t.      *)
LEMMA RememberOk ==
    ASSUME NEW c \in Cells, NEW t \in Touches, NEW fl \in BOOLEAN, CellOk(c), t.exact,
           NEW n, n = Remember(c, t, fl)
    PROVE  /\ CellOk(n)
           /\ ~IsEmpty(n)
           /\ Known(n) \subseteq Known(c) \cup {t}
           /\ t.write => n.writer = {t} /\ n.inFlight = fl
           /\ ~t.write => n.writer = c.writer /\ n.inFlight = c.inFlight
<1>0. c.writer \subseteq Touches /\ c.reader \subseteq Touches /\ c.other \subseteq Touches /\ c.far \subseteq Touches
  BY DEF Cells
<1>1. CASE t.write
  <2>1. /\ n.writer = {t} /\ n.reader = c.reader /\ n.other = c.other /\ n.far = c.far /\ n.inFlight = fl
    BY <1>1, RememberCases
  <2>2. t \notin c.reader /\ t \notin c.other /\ t \notin c.far
    BY <1>1 DEF CellOk, Known
  <2>3. CellOk(n)
    BY <1>1, <2>1, <2>2 DEF CellOk, Known
  <2> QED BY <1>1, <2>1, <2>3 DEF Known, IsEmpty
<1>2. CASE ~t.write /\ c.reader = {}
  <2>1. /\ n.writer = c.writer /\ n.reader = {t} /\ n.other = c.other /\ n.far = c.far /\ n.inFlight = c.inFlight
    BY <1>2, RememberCases
  <2>2. c.other = {} /\ c.far = {} /\ t \notin c.writer
    BY <1>2 DEF CellOk, Known
  <2>3. CellOk(n)
    BY <1>2, <2>1, <2>2 DEF CellOk, Known
  <2> QED BY <1>2, <2>1, <2>3 DEF Known, IsEmpty
<1>3. ASSUME ~t.write, NEW x \in c.reader
      PROVE  /\ CellOk(n) /\ ~IsEmpty(n) /\ Known(n) \subseteq Known(c) \cup {t}
             /\ n.writer = c.writer /\ n.inFlight = c.inFlight
  <2>1. /\ n.writer = c.writer /\ n.reader = c.reader /\ n.inFlight = c.inFlight
        /\ n.other = FirstOf(c.other, t, x.thread # t.thread)
        /\ n.far = FirstOf(c.far, t, WarpOf(x.thread) # WarpOf(t.thread))
    BY <1>3, RememberCases
  <2>2. t \notin c.writer /\ \A y \in c.reader : y = x
    BY <1>3 DEF CellOk, Known
  <2>3. n.other \subseteq c.other \cup {t} /\ n.far \subseteq c.far \cup {t} /\ c.other \subseteq n.other
    BY <2>1 DEF FirstOf
  <2>4. n.far # {} => n.other # {}
    <3>1. CASE c.far # {}
      BY <3>1, <2>3 DEF CellOk
    <3>2. CASE c.far = {}
      BY <3>2, <2>1 DEF FirstOf
    <3> QED BY <3>1, <3>2
  <2>5. \A q \in n.far : WarpOf(x.thread) # WarpOf(q.thread)
    BY <2>1 DEF FirstOf, CellOk
  <2>6. /\ \A e \in n.writer : e.exact /\ e.write
        /\ \A e \in n.reader \cup n.other \cup n.far : e.exact /\ ~e.write
    BY <1>3, <2>1, <2>3 DEF CellOk
  <2>7. CellOk(n)
    BY <1>3, <2>1, <2>2, <2>4, <2>5, <2>6 DEF CellOk
  <2>8. ~IsEmpty(n) /\ Known(n) \subseteq Known(c) \cup {t}
    BY <1>3, <2>1, <2>3 DEF IsEmpty, Known
  <2> QED BY <1>3, <2>1, <2>7, <2>8
<1> QED BY <1>1, <1>2, <1>3

(* A touch is marked; and what was marked stays so, unless another warp's  *)
(* write takes its place.                                                  *)
LEMMA RememberMarks ==
    ASSUME NEW c \in Cells, NEW t \in Touches, NEW fl \in BOOLEAN, CellOk(c),
           NEW n, n = Remember(c, t, fl)
    PROVE  /\ Marked(n, t)
           /\ \A e \in Touches :
                 /\ Marked(c, e)
                 /\ t.write => \A w \in c.writer : WarpOf(w.thread) = WarpOf(t.thread)
                 => Marked(n, e)
<1>1. CASE t.write
  <2>1. n.writer = {t} /\ n.reader = c.reader /\ n.far = c.far
    BY <1>1, RememberCases
  <2> QED BY <1>1, <2>1 DEF Marked, OfWarp
<1>2. CASE ~t.write /\ c.reader = {}
  <2>1. n.writer = c.writer /\ n.reader = {t}
    BY <1>2, RememberCases
  <2> QED BY <1>2, <2>1 DEF Marked, OfWarp
<1>3. CASE ~t.write /\ c.reader # {}
  <2>1. PICK x \in c.reader : \A y \in c.reader : y = x
    BY <1>3 DEF CellOk
  <2>2. /\ n.writer = c.writer /\ n.reader = c.reader
        /\ n.far = FirstOf(c.far, t, WarpOf(x.thread) # WarpOf(t.thread))
    BY <1>3, <2>1, RememberCases
  <2>3. Marked(n, t)
    BY <1>3, <2>1, <2>2 DEF Marked, OfWarp, FirstOf
  <2>4. c.far # {} => n.far # {}
    BY <2>2 DEF FirstOf
  <2>5. \A e \in Touches : Marked(c, e) => Marked(n, e)
    BY <2>2, <2>4 DEF Marked, OfWarp
  <2> QED BY <2>3, <2>5
<1> QED BY <1>1, <1>2, <1>3

-----------------------------------------------------------------------------
(* An access of known address *)

(* What Mark changes, and the hazards it finds.                            *)
Marking(m, at, t, fl, n) ==
    /\ \A b \in Bytes : n.cells[b] = IF b \in at THEN Remember(m.cells[b], t, fl) ELSE m.cells[b]
    /\ n.ranges = m.ranges /\ n.copies = m.copies /\ n.groups = m.groups
    /\ n.reached = Hull(m.reached \cup at)
    /\ m.hazards \subseteq n.hazards
    /\ \A r \in Ranged(m, at, t) : Conflict(r.touch, t) \subseteq n.hazards
    /\ \A b \in at : \A e \in Found(m.cells[b], t) :
          Meets(m.cells[b], e, t) => Conflict(e, t) \subseteq n.hazards
    /\ \A h \in n.hazards \ m.hazards :
          \/ \E r \in Ranged(m, at, t) : h \in Conflict(r.touch, t)
          \/ \E b \in at : \E e \in Found(m.cells[b], t) :
                Meets(m.cells[b], e, t) /\ h \in Conflict(e, t)

LEMMA MarkParts ==
    ASSUME NEW m \in Memories, NEW at \in SUBSET Bytes, NEW t, NEW fl,
           NEW n, n = Mark(m, at, t, fl)
    PROVE  Marking(m, at, t, fl, n)
<1> DEFINE met(b) == {e \in Found(m.cells[b], t) : Meets(m.cells[b], e, t)}
           new == UNION ({Conflict(r.touch, t) : r \in Ranged(m, at, t)}
                         \cup {UNION {Conflict(e, t) : e \in met(b)} : b \in at})
<1>1. n = [m EXCEPT !.cells = [b \in Bytes |-> IF b \in at THEN Remember(m.cells[b], t, fl) ELSE m.cells[b]],
                    !.reached = Hull(m.reached \cup at),
                    !.hazards = m.hazards \cup new]
  BY DEF Mark
<1>2. \A r \in Ranged(m, at, t) : Conflict(r.touch, t) \subseteq new
  OBVIOUS
<1>3. ASSUME NEW b \in at, NEW e \in met(b) PROVE Conflict(e, t) \subseteq new
  <2>1. Conflict(e, t) \subseteq UNION {Conflict(x, t) : x \in met(b)}
    OBVIOUS
  <2> HIDE DEF met
  <2> QED BY <2>1
<1>4. \A h \in new : \/ \E r \in Ranged(m, at, t) : h \in Conflict(r.touch, t)
                     \/ \E b \in at : \E e \in met(b) : h \in Conflict(e, t)
  OBVIOUS
<1> HIDE DEF new
<1>5. /\ n.cells = [b \in Bytes |-> IF b \in at THEN Remember(m.cells[b], t, fl) ELSE m.cells[b]]
      /\ n.ranges = m.ranges /\ n.copies = m.copies /\ n.groups = m.groups
      /\ n.reached = Hull(m.reached \cup at)
      /\ n.hazards = m.hazards \cup new
  BY <1>1 DEF Memories
<1> QED BY <1>2, <1>3, <1>4, <1>5 DEF Marking

LEMMA HullHolds ==
    ASSUME NEW S \in SUBSET Bytes
    PROVE  S \subseteq Hull(S) /\ Hull(S) \in SUBSET Bytes
BY DEF Hull, Bytes

LEMMA FoundKnown ==
    ASSUME NEW c, NEW t
    PROVE  Found(c, t) \subseteq Known(c)
BY DEF Found, Known

(* What becomes of one cell.                                               *)
LEMMA MarkElsewhere ==
    ASSUME NEW m \in Memories, NEW at \in SUBSET Bytes, NEW t, NEW fl,
           NEW n, n = Mark(m, at, t, fl), NEW b \in Bytes, b \notin at
    PROVE  n.cells[b] = m.cells[b]
<1>1. Marking(m, at, t, fl, n)
  BY MarkParts
<1> QED BY <1>1 DEF Marking

LEMMA MarkHere ==
    ASSUME NEW m \in Memories, NEW at \in SUBSET Bytes, NEW t, NEW fl,
           NEW n, n = Mark(m, at, t, fl), NEW b \in at
    PROVE  n.cells[b] = Remember(m.cells[b], t, fl)
<1>1. Marking(m, at, t, fl, n)
  BY MarkParts
<1> QED BY <1>1 DEF Marking

LEMMA CellsTyped ==
    ASSUME NEW m \in Memories, CellsOk(m), NEW b \in Bytes
    PROVE  m.cells[b] \in Cells /\ CellOk(m.cells[b])
BY DEF Memories, CellsOk

LEMMA MarkCell ==
    ASSUME NEW m \in Memories, CellsOk(m), NEW at \in SUBSET Bytes, NEW t \in Touches, t.exact,
           NEW fl \in BOOLEAN, NEW n, n = Mark(m, at, t, fl), NEW b \in at
    PROVE  /\ n.cells[b] \in Cells
           /\ CellOk(n.cells[b])
           /\ Known(n.cells[b]) \subseteq Known(m.cells[b]) \cup {t}
<1> DEFINE c == m.cells[b]
           k == n.cells[b]
<1>1. k = Remember(c, t, fl)
  BY MarkHere
<1>2. c \in Cells /\ CellOk(c)
  BY CellsTyped
<1> HIDE DEF c, k
<1>3. k \in Cells
  BY <1>1, <1>2, RememberCases
<1>4. CellOk(k) /\ Known(k) \subseteq Known(c) \cup {t}
  BY <1>1, <1>2, RememberOk
<1> QED BY <1>3, <1>4 DEF c, k

LEMMA MarkWriter ==
    ASSUME NEW m \in Memories, CellsOk(m), NEW at \in SUBSET Bytes, NEW t \in Touches, t.exact,
           NEW fl \in BOOLEAN, NEW n, n = Mark(m, at, t, fl), NEW b \in at
    PROVE  /\ t.write => n.cells[b].writer = {t} /\ (n.cells[b].inFlight => fl)
           /\ ~t.write => /\ n.cells[b].writer = m.cells[b].writer
                          /\ n.cells[b].inFlight => m.cells[b].inFlight
<1> DEFINE c == m.cells[b]
           k == n.cells[b]
<1>1. k = Remember(c, t, fl)
  BY MarkHere
<1>2. c \in Cells /\ CellOk(c)
  BY CellsTyped
<1> HIDE DEF c, k
<1>3. /\ t.write => k.writer = {t} /\ (k.inFlight => fl)
      /\ ~t.write => k.writer = c.writer /\ (k.inFlight => c.inFlight)
  BY <1>1, <1>2, RememberCases
<1> QED BY <1>3 DEF c, k

(* The memory keeps its type, and its cells their shape.                   *)
LEMMA MarkSound ==
    ASSUME NEW m \in Memories, CellsOk(m), NEW at \in SUBSET Bytes, NEW t \in Touches, t.exact,
           NEW fl \in BOOLEAN, NEW n, n = Mark(m, at, t, fl)
    PROVE  n \in Memories /\ CellsOk(n)
<1>1. Marking(m, at, t, fl, n)
  BY MarkParts
<1>2. \A b \in Bytes : m.cells[b] \in Cells
  BY DEF Memories
<1>3. ASSUME NEW b \in Bytes PROVE n.cells[b] \in Cells /\ CellOk(n.cells[b])
  <2>1. CASE b \in at
    BY <2>1, MarkCell
  <2>2. CASE b \notin at
    <3>1. n.cells[b] = m.cells[b]
      BY <2>2, MarkElsewhere
    <3> QED BY <3>1, CellsTyped
  <2> QED BY <2>1, <2>2
<1>4. m.reached \cup at \subseteq n.reached /\ n.reached \in SUBSET Bytes
  <2>1. m.reached \cup at \in SUBSET Bytes
    BY DEF Memories
  <2>2. n.reached = Hull(m.reached \cup at)
    BY <1>1 DEF Marking
  <2> QED BY <2>1, <2>2, HullHolds
<1>5. ASSUME NEW b \in Bytes, ~IsEmpty(n.cells[b]) PROVE b \in n.reached
  <2>1. CASE b \in at
    BY <1>4, <2>1
  <2>2. CASE b \notin at
    <3>1. n.cells[b] = m.cells[b]
      BY <2>2, MarkElsewhere
    <3> QED BY <1>4, <1>5, <3>1 DEF CellsOk
  <2> QED BY <2>1, <2>2
<1>6. n.hazards \subseteq HazardType
  <2> SUFFICES ASSUME NEW h \in n.hazards, h \notin m.hazards PROVE h \in HazardType
    BY DEF Memories
  <2>0. \/ \E r \in Ranged(m, at, t) : h \in Conflict(r.touch, t)
        \/ \E b \in at : \E e \in Found(m.cells[b], t) : h \in Conflict(e, t)
    BY <1>1 DEF Marking
  <2>1. CASE \E r \in Ranged(m, at, t) : h \in Conflict(r.touch, t)
    <3>1. Ranged(m, at, t) \subseteq RangeSet
      BY DEF Ranged, Memories
    <3> QED BY <2>1, <3>1, ConflictTyped DEF RangeSet
  <2>2. CASE \E b \in at : \E e \in Found(m.cells[b], t) : h \in Conflict(e, t)
    <3>1. \A b \in Bytes : Found(m.cells[b], t) \subseteq Touches
      BY <1>2, FoundKnown DEF Cells, Known
    <3> QED BY <2>2, <3>1, ConflictTyped
  <2> QED BY <2>0, <2>1, <2>2
<1>7. n = [m EXCEPT !.cells = n.cells, !.reached = n.reached, !.hazards = n.hazards]
  BY DEF Mark, Memories
<1>8. n.cells \in [Bytes -> Cells]
  <2>1. n.cells = [b \in Bytes |-> n.cells[b]]
    BY DEF Mark, Memories
  <2> QED BY <1>3, <2>1
<1>9. n \in Memories
  BY <1>4, <1>6, <1>7, <1>8 DEF Memories
<1> QED BY <1>3, <1>5, <1>9 DEF CellsOk

(* If no race across warps was found, every touch of the log is marked     *)
(* still, the new one too, and it met no touch of another warp.            *)
LEMMA MarkMarks ==
    ASSUME NEW m \in Memories, CellsOk(m), NEW at \in SUBSET Bytes, NEW t \in Touches, t.exact,
           NEW fl \in BOOLEAN, NEW n, n = Mark(m, at, t, fl),
           NEW log \in SUBSET Entries, AllMarked(m.cells, log), NoCta(n.hazards)
    PROVE  /\ AllMarked(n.cells, log \cup {[bytes |-> at, touch |-> t]})
           /\ \A d \in log : Racing(d, [bytes |-> at, touch |-> t]) /\ d.touch.exact =>
                 WarpOf(d.touch.thread) = WarpOf(t.thread)
<1> DEFINE f == [bytes |-> at, touch |-> t]
<1>1. Marking(m, at, t, fl, n)
  BY MarkParts
<1>2. \A b \in Bytes : m.cells[b] \in Cells /\ CellOk(m.cells[b])
  BY DEF Memories, CellsOk
<1>0. \A b \in at : \A e \in Found(m.cells[b], t) :
         Meets(m.cells[b], e, t) => Conflict(e, t) \subseteq n.hazards
  BY <1>1 DEF Marking
<1>3. ASSUME NEW b \in at, NEW e \in Found(m.cells[b], t)
      PROVE  WarpOf(e.thread) = WarpOf(t.thread)
  <2> SUFFICES ASSUME WarpOf(e.thread) # WarpOf(t.thread) PROVE FALSE
    OBVIOUS
  <2>1. Meets(m.cells[b], e, t)
    BY DEF Meets
  <2>2. e \in Touches /\ e.exact
    BY <1>2, FoundKnown DEF CellOk, Known, Cells
  <2>3. Hazard(e, t, "cta") \in n.hazards
    BY <1>0, <2>1, <2>2, ConflictCta
  <2> QED BY <2>3 DEF NoCta, Hazard
<1>4. ASSUME NEW b \in Bytes, NEW d \in log \cup {f}, b \in d.bytes, d.touch.exact
      PROVE  Marked(n.cells[b], d.touch)
  <2>1. CASE b \in at
    <3>1. n.cells[b] = Remember(m.cells[b], t, fl)
      BY <2>1, MarkHere
    <3>2. t.write => \A w \in m.cells[b].writer : WarpOf(w.thread) = WarpOf(t.thread)
      BY <1>3, <2>1 DEF Found
    <3>3. CASE d = f
      BY <1>2, <3>1, <3>3, RememberMarks
    <3>4. CASE d \in log
      <4>1. Marked(m.cells[b], d.touch) /\ d.touch \in Touches
        BY <1>4, <3>4 DEF AllMarked, Entries
      <4> QED BY <1>2, <3>1, <3>2, <4>1, RememberMarks
    <3> QED BY <3>3, <3>4
  <2>2. CASE b \notin at
    <3>1. n.cells[b] = m.cells[b] /\ d \in log
      BY <1>4, <2>2, MarkElsewhere
    <3> QED BY <1>4, <3>1 DEF AllMarked
  <2> QED BY <2>1, <2>2
<1>5. ASSUME NEW d \in log, Racing(d, f), d.touch.exact
      PROVE  WarpOf(d.touch.thread) = WarpOf(t.thread)
  <2>1. PICK b \in Bytes : b \in d.bytes /\ b \in at
    BY <1>5 DEF Racing, Entries
  <2>2. Marked(m.cells[b], d.touch)
    BY <1>5, <2>1 DEF AllMarked
  <2>3. \A e \in m.cells[b].writer : WarpOf(e.thread) = WarpOf(t.thread)
    BY <1>3, <2>1 DEF Found
  <2>4. CASE d.touch.write
    BY <2>2, <2>3, <2>4 DEF Marked, OfWarp
  <2>5. CASE ~d.touch.write
    <3>1. t.write
      BY <1>5, <2>5 DEF Racing
    <3>2. \A e \in m.cells[b].reader \cup m.cells[b].far : WarpOf(e.thread) = WarpOf(t.thread)
      BY <1>3, <2>1, <3>1 DEF Found
    <3>3. m.cells[b].far = {} \/ m.cells[b].reader = {}
      BY <1>2, <3>2 DEF CellOk
    <3> QED BY <2>2, <2>5, <3>2, <3>3 DEF Marked, OfWarp
  <2> QED BY <2>4, <2>5
<1> QED BY <1>4, <1>5 DEF AllMarked

(* What is remembered is in the log still.                                 *)
LEMMA MarkLogged ==
    ASSUME NEW m \in Memories, CellsOk(m), NEW at \in SUBSET Bytes, NEW t \in Touches, t.exact,
           NEW fl \in BOOLEAN, NEW n, n = Mark(m, at, t, fl),
           NEW log, Logged(m.cells, log)
    PROVE  Logged(n.cells, log \cup {[bytes |-> at, touch |-> t]})
<1> DEFINE f == [bytes |-> at, touch |-> t]
<1>1. ASSUME NEW b \in Bytes, NEW e \in Known(n.cells[b])
      PROVE  \E d \in log \cup {f} : d.touch = e /\ b \in d.bytes
  <2>1. CASE b \in at
    <3>1. e \in Known(m.cells[b]) \cup {t}
      BY <1>1, <2>1, MarkCell
    <3>2. CASE e = t
      <4>1. f.touch = e /\ b \in f.bytes /\ f \in log \cup {f}
        BY <2>1, <3>2
      <4> HIDE DEF f
      <4> QED BY <4>1
    <3>3. CASE e \in Known(m.cells[b])
      BY <3>3 DEF Logged
    <3> QED BY <3>1, <3>2, <3>3
  <2>2. CASE b \notin at
    <3>1. n.cells[b] = m.cells[b]
      BY <2>2, MarkElsewhere
    <3> QED BY <1>1, <3>1 DEF Logged
  <2> QED BY <2>1, <2>2
<1> QED BY <1>1 DEF Logged

(* A byte in flight was written last by a copy in flight.                  *)
LEMMA MarkInFlight ==
    ASSUME NEW m \in Memories, CellsOk(m), NEW at \in SUBSET Bytes, NEW t \in Touches, t.exact,
           NEW fl \in BOOLEAN, NEW n, n = Mark(m, at, t, fl),
           NEW tr, InFlightTrue(m.cells, tr),
           NEW tr2, \A u \in Threads : InFlightOf(tr, u) \subseteq InFlightOf(tr2, u),
           fl /\ t.write => [bytes |-> at, touch |-> t] \in InFlightOf(tr2, t.thread)
    PROVE  InFlightTrue(n.cells, tr2)
<1>1. ASSUME NEW b \in Bytes, n.cells[b].inFlight, NEW w \in n.cells[b].writer
      PROVE  \E d \in InFlightOf(tr2, w.thread) : d.touch = w /\ b \in d.bytes
  <2>1. CASE b \in at /\ t.write
    <3>1. n.cells[b].writer = {t} /\ (n.cells[b].inFlight => fl)
      BY <2>1, MarkWriter
    <3> QED BY <1>1, <2>1, <3>1
  <2>2. CASE ~(b \in at /\ t.write)
    <3>1. n.cells[b].writer = m.cells[b].writer /\ (n.cells[b].inFlight => m.cells[b].inFlight)
      <4>1. CASE b \in at
        BY <2>2, <4>1, MarkWriter
      <4>2. CASE b \notin at
        BY <4>2, MarkElsewhere
      <4> QED BY <4>1, <4>2
    <3>2. w \in Touches
      BY <1>1, <3>1, CellsTyped DEF Cells
    <3> QED BY <1>1, <3>1, <3>2 DEF InFlightTrue, Touches
  <2> QED BY <2>1, <2>2
<1> QED BY <1>1 DEF InFlightTrue

-----------------------------------------------------------------------------
(* What happened is told of it *)

LEMMA MoreRaces ==
    ASSUME NEW R, NEW R2, R \subseteq R2
    PROVE  /\ \A H : HazardsReal(H, R) => HazardsReal(H, R2)
           /\ \A c : PairsTold(c, R) => PairsTold(c, R2)
BY DEF HazardsReal, Happening, PairsTold

LEMMA HappenedParts ==
    ASSUME NEW tr \in Truths, NEW at, NEW t, NEW f, f = [bytes |-> at, touch |-> t],
           NEW tr1, tr1 = Happened(tr, at, t)
    PROVE  /\ tr1.log = tr.log \cup {f}
           /\ tr1.races = tr.races \cup RacesOf(tr, f) \cup EarlyReads(tr, f)
           /\ tr1.open = tr.open /\ tr1.groups = tr.groups
           /\ \A u : InFlightOf(tr1, u) = InFlightOf(tr, u)
<1>1. tr1 = [tr EXCEPT !.log = @ \cup {f}, !.races = @ \cup RacesOf(tr, f) \cup EarlyReads(tr, f)]
  BY DEF Happened
<1>2. /\ tr1.log = tr.log \cup {f}
      /\ tr1.races = tr.races \cup RacesOf(tr, f) \cup EarlyReads(tr, f)
      /\ tr1.open = tr.open /\ tr1.groups = tr.groups
  BY <1>1 DEF Truths
<1> QED BY <1>2 DEF InFlightOf

LEMMA HappenedTyped ==
    ASSUME NEW tr \in Truths, NEW at \in SUBSET Bytes, NEW t \in Touches
    PROVE  Happened(tr, at, t) \in Truths
<1> DEFINE f == [bytes |-> at, touch |-> t]
           tr1 == Happened(tr, at, t)
<1>1. f \in Entries
  BY DEF Entries
<1>2. RacesOf(tr, f) \subseteq RaceSet /\ EarlyReads(tr, f) \subseteq RaceSet
  BY <1>1, RacesTyped
<1>3. tr1 = [tr EXCEPT !.log = @ \cup {f}, !.races = @ \cup RacesOf(tr, f) \cup EarlyReads(tr, f)]
  BY DEF Happened
<1> HIDE DEF f, tr1
<1>4. tr1 \in Truths
  BY <1>1, <1>2, <1>3 DEF Truths
<1> QED BY <1>4 DEF tr1

(* A hazard found by an exact access is a race, or a thread's early read.  *)
LEMMA MarkReal ==
    ASSUME NEW m \in Memories, CellsOk(m), NEW at \in SUBSET Bytes, NEW t \in Touches, t.exact,
           NEW fl \in BOOLEAN, NEW n, n = Mark(m, at, t, fl),
           NEW tr \in Truths, NEW f, f = [bytes |-> at, touch |-> t],
           Logged(m.cells, tr.log), InFlightTrue(m.cells, tr), RangesCover(m.ranges, tr.log),
           NEW R, RacesOf(tr, f) \cup EarlyReads(tr, f) \subseteq R,
           HazardsReal(m.hazards, R)
    PROVE  HazardsReal(n.hazards, R)
<1>1. ASSUME NEW h \in n.hazards \ m.hazards, h.level # "possible" PROVE Happening(h, R)
  <2>0. \/ \E r \in Ranged(m, at, t) : h \in Conflict(r.touch, t)
        \/ \E b \in at : \E e \in Found(m.cells[b], t) :
              Meets(m.cells[b], e, t) /\ h \in Conflict(e, t)
    <3>1. Marking(m, at, t, fl, n)
      BY MarkParts
    <3> QED BY <3>1 DEF Marking
  <2>1. CASE \E r \in Ranged(m, at, t) : h \in Conflict(r.touch, t)
    <3>1. PICK r \in m.ranges : h \in Conflict(r.touch, t)
      BY <2>1 DEF Ranged
    <3>2. ~r.touch.exact
      BY DEF RangesCover
    <3>3. h = Hazard(r.touch, t, "possible")
      BY <3>1, <3>2, ConflictPossible
    <3> QED BY <1>1, <3>3 DEF Hazard
  <2>2. ASSUME NEW b \in at, NEW e \in Found(m.cells[b], t),
               Meets(m.cells[b], e, t), h \in Conflict(e, t)
        PROVE  Happening(h, R)
    <3>0. b \in Bytes /\ m.cells[b] \in Cells /\ CellOk(m.cells[b])
      BY CellsTyped
    <3>1. e \in Known(m.cells[b])
      BY FoundKnown
    <3>2. e \in Touches /\ e.exact
      BY <3>0, <3>1 DEF CellOk, Known, Cells
    <3>3. CASE e.thread # t.thread
      <4>1. PICK d \in tr.log : d.touch = e /\ b \in d.bytes
        BY <3>0, <3>1 DEF Logged
      <4>2. e.write \/ t.write
        BY <3>0 DEF Found, CellOk
      <4>3. Racing(d, f)
        BY <3>3, <4>1, <4>2 DEF Racing
      <4>4. Conflict(e, t) \subseteq RacesOf(tr, f)
        BY <3>2, <4>1, <4>3, ConflictRaces
      <4> QED BY <2>2, <4>4 DEF Happening
    <3>4. CASE e.thread = t.thread
      <4>1. m.cells[b].inFlight /\ ~t.write /\ e \in m.cells[b].writer
        BY <2>2, <3>4 DEF Meets, Found
      <4>2. PICK d \in InFlightOf(tr, e.thread) : d.touch = e /\ b \in d.bytes
        BY <3>0, <4>1 DEF InFlightTrue
      <4>3. Hazard(e, t, "early") \in EarlyReads(tr, f)
        BY <3>4, <4>1, <4>2 DEF EarlyReads
      <4>4. h = Hazard(e, t, "cta")
        BY <2>2, <3>2, <3>4 DEF Conflict, Level, SameWarp
      <4>5. h.level = "cta" /\ [h EXCEPT !.level = "early"] = Hazard(e, t, "early")
        BY <4>4 DEF Hazard
      <4> QED BY <4>3, <4>5 DEF Happening
    <3> QED BY <3>3, <3>4
  <2> QED BY <2>0, <2>1, <2>2
<1> QED BY <1>1 DEF HazardsReal, Happening

(* An exact access that meets one of unknown address is reported.          *)
LEMMA MarkLater ==
    ASSUME NEW m \in Memories, NEW at \in SUBSET Bytes, NEW t \in Touches, t.exact,
           NEW fl \in BOOLEAN, NEW n, n = Mark(m, at, t, fl),
           NEW tr \in Truths, NEW f, f = [bytes |-> at, touch |-> t],
           RangesCover(m.ranges, tr.log), LaterTold(m.hazards, tr.races)
    PROVE  /\ RangesCover(n.ranges, tr.log \cup {f})
           /\ LaterTold(n.hazards, tr.races \cup RacesOf(tr, f) \cup EarlyReads(tr, f))
<1>1. Marking(m, at, t, fl, n)
  BY MarkParts
<1>2. n.ranges = m.ranges /\ m.hazards \subseteq n.hazards
      /\ \A r \in Ranged(m, at, t) : Conflict(r.touch, t) \subseteq n.hazards
  BY <1>1 DEF Marking
<1>3. RangesCover(n.ranges, tr.log \cup {f})
  BY <1>2 DEF RangesCover
<1>4. ASSUME NEW x \in RacesOf(tr, f), x.level = "exactLater"
      PROVE  [x EXCEPT !.level = "possible"] \in n.hazards
  <2>1. PICK d \in tr.log : /\ Racing(d, f) /\ ~d.touch.exact
                            /\ [x EXCEPT !.level = "possible"] = Hazard(d.touch, t, "possible")
    BY <1>4, LaterRace
  <2>2. PICK r \in m.ranges : /\ r.touch.site = d.touch.site /\ r.touch.write = d.touch.write
                              /\ d.bytes \subseteq r.bytes
                              /\ r.shared \/ r.touch.thread = d.touch.thread
                              /\ ~r.touch.exact
    BY <2>1 DEF RangesCover
  <2>3. r \in Ranged(m, at, t)
    BY <2>1, <2>2 DEF Ranged, Racing
  <2>4. Hazard(r.touch, t, "possible") \in n.hazards
    BY <1>2, <2>2, <2>3, ConflictPossible
  <2> QED BY <2>1, <2>2, <2>4 DEF Hazard
<1>5. \A x \in EarlyReads(tr, f) : x.level # "exactLater"
  BY DEF EarlyReads, Hazard
<1> QED BY <1>2, <1>3, <1>4, <1>5 DEF LaterTold

(* If no race across warps is reported, none happened.                     *)
LEMMA MarkClean ==
    ASSUME NEW m \in Memories, CellsOk(m), NEW at \in SUBSET Bytes, NEW t \in Touches, t.exact,
           NEW fl \in BOOLEAN, NEW n, n = Mark(m, at, t, fl),
           NEW tr \in Truths, CleanFree(m, tr), NoCta(n.hazards)
    PROVE  /\ AllMarked(n.cells, Happened(tr, at, t).log)
           /\ NoCta(Happened(tr, at, t).races)
<1> DEFINE f == [bytes |-> at, touch |-> t]
           tr1 == Happened(tr, at, t)
<1>1. m.hazards \subseteq n.hazards
  <2>1. Marking(m, at, t, fl, n)
    BY MarkParts
  <2> QED BY <2>1 DEF Marking
<1>2. AllMarked(m.cells, tr.log) /\ NoCta(tr.races)
  BY <1>1 DEF CleanFree, NoCta
<1>3. tr.log \in SUBSET Entries /\ f \in Entries
  BY DEF Truths, Entries
<1>4. /\ AllMarked(n.cells, tr.log \cup {f})
      /\ \A d \in tr.log : Racing(d, f) /\ d.touch.exact =>
            WarpOf(d.touch.thread) = WarpOf(t.thread)
  BY <1>2, <1>3, MarkMarks
<1>5. \A r \in RacesOf(tr, f) : r.level # "cta"
  BY <1>3, <1>4, CtaRace
<1>6. \A r \in EarlyReads(tr, f) : r.level # "cta"
  BY DEF EarlyReads, Hazard
<1>7. tr1.log = tr.log \cup {f} /\ tr1.races = tr.races \cup RacesOf(tr, f) \cup EarlyReads(tr, f)
  BY HappenedParts
<1> HIDE DEF f, tr1
<1>8. AllMarked(n.cells, tr1.log) /\ NoCta(tr1.races)
  BY <1>2, <1>4, <1>5, <1>6, <1>7 DEF NoCta
<1> QED BY <1>8 DEF tr1

-----------------------------------------------------------------------------
(* An access of unknown address *)

(* What RangeTouch leaves alone; and its hazards are possible ones.        *)
Ranging(m, at, t, n) ==
    /\ n.cells = m.cells /\ n.copies = m.copies /\ n.groups = m.groups /\ n.reached = m.reached
    /\ m.hazards \subseteq n.hazards
    /\ n.hazards \subseteq HazardType
    /\ \A h \in n.hazards \ m.hazards : h.level = "possible"
    /\ n.ranges \in SUBSET RangeSet
    /\ \E g \in n.ranges : /\ g.touch.site = t.site /\ g.touch.write = t.write
                           /\ at \subseteq g.bytes
                           /\ g.shared \/ g.touch.thread = t.thread
    /\ \A r \in m.ranges : \E g \in n.ranges : /\ g.touch = r.touch /\ r.bytes \subseteq g.bytes
                                               /\ r.shared => g.shared
    /\ \A g \in n.ranges : g.touch = t \/ \E r \in m.ranges : g.touch = r.touch

LEMMA PossibleOnly ==
    ASSUME NEW m \in Memories, CellsOk(m), NEW at \in SUBSET Bytes, NEW t \in Touches, ~t.exact
    PROVE  /\ \A h \in AgainstExact(m, at, t) : h.level = "possible"
           /\ AgainstExact(m, at, t) \subseteq HazardType
<1> DEFINE earlier(b) == IF t.write /\ m.cells[b].writer = {} THEN m.cells[b].reader
                                                             ELSE m.cells[b].writer
           met == {b \in at \cap m.reached : \E e \in earlier(b) : e.thread # t.thread}
           lowest == {b \in met : \A c \in met : b <= c}
<1>1. \A b \in Bytes : earlier(b) \subseteq Touches
  BY CellsTyped DEF Cells
<1>2. lowest \subseteq Bytes
  OBVIOUS
<1>3. AgainstExact(m, at, t) = UNION {Conflict(e, t) : e \in UNION {earlier(b) : b \in lowest}}
  BY DEF AgainstExact
<1> HIDE DEF earlier, lowest
<1>4. \A h \in AgainstExact(m, at, t) : \E e \in Touches : h \in Conflict(e, t)
  BY <1>1, <1>2, <1>3
<1>5. \A e \in Touches : \A h \in Conflict(e, t) : h.level = "possible" /\ h \in HazardType
  BY ConflictPossible, ConflictTyped DEF Hazard
<1> QED BY <1>4, <1>5

LEMMA NewRangeParts ==
    ASSUME NEW m \in Memories, CellsOk(m), NEW at \in SUBSET Bytes, NEW t \in Touches, ~t.exact,
           NEW n, n = NewRange(m, at, t)
    PROVE  Ranging(m, at, t, n)
<1> DEFINE others == {r \in m.ranges : r.bytes \cap at # {} /\ (r.touch.write \/ t.write)}
           told == UNION {Conflict(r.touch, t) : r \in others}
           g == [bytes |-> at, touch |-> t, shared |-> FALSE]
<1>1. n = [m EXCEPT !.ranges = m.ranges \cup {g},
                    !.hazards = m.hazards \cup told \cup AgainstExact(m, at, t)]
  BY DEF NewRange
<1>2. m.ranges \subseteq RangeSet
  BY DEF Memories
<1>3. ASSUME NEW h \in told PROVE h.level = "possible" /\ h \in HazardType
  <2>1. PICK r \in m.ranges : h \in Conflict(r.touch, t)
    OBVIOUS
  <2>2. r.touch \in Touches
    BY <1>2 DEF RangeSet
  <2> HIDE DEF told
  <2> QED BY <2>1, <2>2, ConflictPossible, ConflictTyped DEF Hazard
<1> HIDE DEF told
<1>4. /\ n.ranges = m.ranges \cup {g}
      /\ n.hazards = m.hazards \cup told \cup AgainstExact(m, at, t)
      /\ n.cells = m.cells /\ n.copies = m.copies /\ n.groups = m.groups /\ n.reached = m.reached
  BY <1>1 DEF Memories
<1>5. g \in RangeSet /\ g.touch = t /\ g.bytes = at
  BY DEF RangeSet
<1> HIDE DEF g
<1>6. n.hazards \subseteq HazardType /\ \A h \in n.hazards \ m.hazards : h.level = "possible"
  BY <1>3, <1>4, PossibleOnly DEF Memories
<1>7. \A r \in m.ranges : r \in n.ranges /\ r.bytes \subseteq r.bytes
  BY <1>4
<1>8. g \in n.ranges
  BY <1>4
<1> QED BY <1>2, <1>4, <1>5, <1>6, <1>7, <1>8 DEF Ranging

LEMMA OldRangeParts ==
    ASSUME NEW m \in Memories, CellsOk(m), NEW at \in SUBSET Bytes, NEW t \in Touches, ~t.exact,
           NEW r \in m.ranges, r.touch.site = t.site, r.touch.write = t.write,
           NEW n, n = OldRange(m, r, at, t)
    PROVE  Ranging(m, at, t, n)
<1> DEFINE shared == r.shared \/ r.touch.thread # t.thread
           covered == at \subseteq r.bytes
           g == [r EXCEPT !.shared = shared, !.bytes = Hull(@ \cup at)]
           told == IF covered THEN {} ELSE AgainstExact(m, at, t)
<1>1. n = [m EXCEPT !.ranges = (@ \ {r}) \cup {g}, !.hazards = @ \cup told]
  BY DEF OldRange
<1>2. m.ranges \subseteq RangeSet /\ r \in RangeSet
  BY DEF Memories
<1>3. r.bytes \cup at \subseteq Hull(r.bytes \cup at) /\ Hull(r.bytes \cup at) \in SUBSET Bytes
  BY <1>2, HullHolds DEF RangeSet
<1>4. /\ g \in RangeSet /\ g.touch = r.touch /\ g.bytes = Hull(r.bytes \cup at)
      /\ r.shared \/ r.touch.thread # t.thread => g.shared
  BY <1>2, <1>3 DEF RangeSet
<1>5. told \subseteq HazardType /\ \A h \in told : h.level = "possible"
  BY PossibleOnly
<1> HIDE DEF told, g
<1>6. /\ n.ranges = (m.ranges \ {r}) \cup {g}
      /\ n.hazards = m.hazards \cup told
      /\ n.cells = m.cells /\ n.copies = m.copies /\ n.groups = m.groups /\ n.reached = m.reached
  BY <1>1 DEF Memories
<1>7. n.hazards \subseteq HazardType /\ \A h \in n.hazards \ m.hazards : h.level = "possible"
  BY <1>5, <1>6 DEF Memories
<1>8. g \in n.ranges
  BY <1>6
<1>9. ASSUME NEW x \in m.ranges
      PROVE  \E y \in n.ranges : y.touch = x.touch /\ x.bytes \subseteq y.bytes /\ (x.shared => y.shared)
  <2>1. CASE x = r
    BY <1>3, <1>4, <1>8, <2>1
  <2>2. CASE x # r
    BY <1>6, <2>2
  <2> QED BY <2>1, <2>2
<1> QED BY <1>2, <1>3, <1>4, <1>6, <1>7, <1>8, <1>9 DEF Ranging

LEMMA RangeParts ==
    ASSUME NEW m \in Memories, CellsOk(m), NEW at \in SUBSET Bytes, NEW t \in Touches, ~t.exact,
           NEW n, n = RangeTouch(m, at, t)
    PROVE  Ranging(m, at, t, n)
<1> DEFINE same == {r \in m.ranges : r.touch.site = t.site /\ r.touch.write = t.write}
           old == CHOOSE r \in same : TRUE
<1>1. CASE same = {}
  <2>1. n = NewRange(m, at, t)
    BY <1>1 DEF RangeTouch
  <2> QED BY <2>1, NewRangeParts
<1>2. CASE same # {}
  <2>1. old \in m.ranges /\ old.touch.site = t.site /\ old.touch.write = t.write
    BY <1>2
  <2>2. n = OldRange(m, old, at, t)
    BY <1>2 DEF RangeTouch
  <2> HIDE DEF old
  <2> QED BY <2>1, <2>2, OldRangeParts
<1> QED BY <1>1, <1>2

LEMMA RangeSound ==
    ASSUME NEW m \in Memories, CellsOk(m), NEW at \in SUBSET Bytes, NEW t \in Touches, ~t.exact,
           NEW n, n = RangeTouch(m, at, t)
    PROVE  n \in Memories /\ CellsOk(n)
<1>1. Ranging(m, at, t, n)
  BY RangeParts
<1>2. n = [m EXCEPT !.ranges = n.ranges, !.hazards = n.hazards]
  BY DEF RangeTouch, NewRange, OldRange, Memories
<1>3. n.cells = m.cells /\ n.reached = m.reached
  BY <1>1 DEF Ranging
<1>4. n.ranges \in SUBSET RangeSet /\ n.hazards \in SUBSET HazardType
  BY <1>1 DEF Ranging
<1>5. n \in Memories
  BY <1>2, <1>4 DEF Memories
<1> QED BY <1>3, <1>5 DEF CellsOk

(* An access of unknown address keeps all there is to keep.                *)
LEMMA RangeKeeps ==
    ASSUME NEW m \in Memories, CellsOk(m), NEW at \in SUBSET Bytes, NEW t \in Touches, ~t.exact,
           NEW n, n = RangeTouch(m, at, t),
           NEW tr \in Truths, NEW tr1, tr1 = Happened(tr, at, t),
           CleanFree(m, tr), Logged(m.cells, tr.log), HazardsReal(m.hazards, tr.races),
           RangesCover(m.ranges, tr.log), LaterTold(m.hazards, tr.races)
    PROVE  /\ CleanFree(n, tr1)
           /\ Logged(n.cells, tr1.log)
           /\ HazardsReal(n.hazards, tr1.races)
           /\ RangesCover(n.ranges, tr1.log)
           /\ LaterTold(n.hazards, tr1.races)
<1> DEFINE f == [bytes |-> at, touch |-> t]
<1>1. Ranging(m, at, t, n)
  BY RangeParts
<1>2. /\ n.cells = m.cells /\ m.hazards \subseteq n.hazards
      /\ \A h \in n.hazards \ m.hazards : h.level = "possible"
  BY <1>1 DEF Ranging
<1>3. tr1.log = tr.log \cup {f} /\ tr1.races = tr.races \cup RacesOf(tr, f) \cup EarlyReads(tr, f)
  BY HappenedParts
<1>4. tr.log \subseteq Entries /\ f \in Entries
  BY DEF Truths, Entries
<1>5. f.bytes = at /\ f.touch = t
  OBVIOUS
<1> HIDE DEF f
<1>6. \A x \in RacesOf(tr, f) : x.level \notin {"cta", "exactLater"}
  BY <1>4, <1>5, CtaRace, LaterRace
<1>7. \A x \in EarlyReads(tr, f) : x.level \notin {"cta", "exactLater"}
  BY DEF EarlyReads, Hazard
<1>8. CleanFree(n, tr1)
  <2> SUFFICES ASSUME NoCta(n.hazards) PROVE AllMarked(n.cells, tr1.log) /\ NoCta(tr1.races)
    BY DEF CleanFree
  <2>1. AllMarked(m.cells, tr.log) /\ NoCta(tr.races)
    BY <1>2 DEF CleanFree, NoCta
  <2>2. AllMarked(n.cells, tr1.log)
    BY <1>2, <1>3, <1>5, <2>1 DEF AllMarked
  <2> QED BY <1>3, <1>6, <1>7, <2>1, <2>2 DEF NoCta
<1>9. Logged(n.cells, tr1.log)
  BY <1>2, <1>3 DEF Logged
<1>10. HazardsReal(n.hazards, tr1.races)
  <2>1. HazardsReal(m.hazards, tr1.races)
    BY <1>3, MoreRaces
  <2> QED BY <1>2, <2>1 DEF HazardsReal, Happening
<1>11. LaterTold(n.hazards, tr1.races)
  BY <1>2, <1>3, <1>6, <1>7 DEF LaterTold
<1>12. RangesCover(n.ranges, tr1.log)
  <2>1. \A g \in n.ranges : ~g.touch.exact
    BY <1>1 DEF Ranging, RangesCover
  <2>2. ASSUME NEW d \in tr1.log, ~d.touch.exact
        PROVE  \E g \in n.ranges : /\ g.touch.site = d.touch.site /\ g.touch.write = d.touch.write
                                   /\ d.bytes \subseteq g.bytes
                                   /\ g.shared \/ g.touch.thread = d.touch.thread
    <3>1. CASE d = f
      BY <1>1, <1>5, <3>1 DEF Ranging
    <3>2. CASE d \in tr.log
      <4>1. PICK r \in m.ranges : /\ r.touch.site = d.touch.site /\ r.touch.write = d.touch.write
                                  /\ d.bytes \subseteq r.bytes
                                  /\ r.shared \/ r.touch.thread = d.touch.thread
        BY <2>2, <3>2 DEF RangesCover
      <4>2. PICK g \in n.ranges : g.touch = r.touch /\ r.bytes \subseteq g.bytes /\ (r.shared => g.shared)
        BY <1>1 DEF Ranging
      <4> QED BY <4>1, <4>2
    <3> QED BY <1>3, <3>1, <3>2
  <2> QED BY <2>1, <2>2 DEF RangesCover
<1> QED BY <1>8, <1>9, <1>10, <1>11, <1>12

-----------------------------------------------------------------------------
(* An access *)

(* The copies and what is in flight stay, the log grows.                   *)
LEMMA TrackedStays ==
    ASSUME NEW m, NEW tr, Tracked(m, tr), NEW n, NEW tr1,
           n.copies = m.copies, n.groups = m.groups,
           tr1.open = tr.open, tr1.groups = tr.groups,
           \A v \in Threads : InFlightOf(tr, v) \subseteq tr1.log
    PROVE  Tracked(n, tr1)
<1>1. \A t : Closed(n, tr1, t) = Closed(m, tr, t)
  BY DEF Closed
<1>2. \A t : InFlightOf(tr1, t) = InFlightOf(tr, t)
  BY DEF InFlightOf
<1>3. \A i \in 1..Len(n.copies) :
         LET c == n.copies[i]
             t == c.touch.thread
         IN  /\ c.touch.exact /\ c.touch.write
             /\ \/ c.group = 0 /\ EntryOf(c) \in tr1.open[t]
                \/ /\ c.group - Closed(n, tr1, t) \in 1..Len(tr1.groups[t])
                   /\ EntryOf(c) \in tr1.groups[t][c.group - Closed(n, tr1, t)]
  <2> SUFFICES ASSUME NEW i \in 1..Len(n.copies), NEW c, c = n.copies[i], NEW t, t = c.touch.thread
               PROVE  /\ c.touch.exact /\ c.touch.write
                      /\ \/ c.group = 0 /\ EntryOf(c) \in tr1.open[t]
                         \/ /\ c.group - Closed(n, tr1, t) \in 1..Len(tr1.groups[t])
                            /\ EntryOf(c) \in tr1.groups[t][c.group - Closed(n, tr1, t)]
    OBVIOUS
  <2>1. i \in 1..Len(m.copies) /\ c = m.copies[i]
    OBVIOUS
  <2>2. /\ c.touch.exact /\ c.touch.write
        /\ \/ c.group = 0 /\ EntryOf(c) \in tr.open[t]
           \/ /\ c.group - Closed(m, tr, t) \in 1..Len(tr.groups[t])
              /\ EntryOf(c) \in tr.groups[t][c.group - Closed(m, tr, t)]
    <3>1. \A j \in 1..Len(m.copies) :
             LET d == m.copies[j]
                 v == d.touch.thread
             IN  /\ d.touch.exact /\ d.touch.write
                 /\ \/ d.group = 0 /\ EntryOf(d) \in tr.open[v]
                    \/ /\ d.group - Closed(m, tr, v) \in 1..Len(tr.groups[v])
                       /\ EntryOf(d) \in tr.groups[v][d.group - Closed(m, tr, v)]
      BY DEF Tracked
    <3> QED BY <2>1, <3>1
  <2>3. Closed(n, tr1, t) = Closed(m, tr, t)
    BY <1>1
  <2> QED BY <2>2, <2>3
<1>4. ASSUME NEW t \in Threads
      PROVE  /\ Len(tr1.groups[t]) <= n.groups[t]
             /\ \A e \in tr1.open[t] :
                   e.touch.thread = t /\ \E i \in 1..Len(n.copies) : n.copies[i] = CopyOf(e, 0)
             /\ \A k \in 1..Len(tr1.groups[t]) : \A e \in tr1.groups[t][k] :
                   /\ e.touch.thread = t
                   /\ \E i \in 1..Len(n.copies) : n.copies[i] = CopyOf(e, Closed(n, tr1, t) + k)
             /\ InFlightOf(tr1, t) \subseteq tr1.log
  BY <1>1, <1>2 DEF Tracked
<1> QED BY <1>3, <1>4 DEF Tracked

LEMMA ExactKeeps ==
    ASSUME NEW m \in Memories, CellsOk(m), NEW at \in SUBSET Bytes, NEW t \in Touches, t.exact,
           NEW fl \in BOOLEAN, NEW n, n = Mark(m, at, t, fl),
           NEW tr \in Truths, NEW tr1, tr1 = Happened(tr, at, t),
           CleanFree(m, tr), Logged(m.cells, tr.log), InFlightTrue(m.cells, tr),
           HazardsReal(m.hazards, tr.races), RangesCover(m.ranges, tr.log),
           LaterTold(m.hazards, tr.races)
    PROVE  /\ CleanFree(n, tr1)
           /\ Logged(n.cells, tr1.log)
           /\ HazardsReal(n.hazards, tr1.races)
           /\ RangesCover(n.ranges, tr1.log)
           /\ LaterTold(n.hazards, tr1.races)
<1> DEFINE f == [bytes |-> at, touch |-> t]
<1>1. tr1.log = tr.log \cup {f} /\ tr1.races = tr.races \cup RacesOf(tr, f) \cup EarlyReads(tr, f)
  BY HappenedParts
<1>2. CleanFree(n, tr1)
  BY MarkClean DEF CleanFree
<1>3. Logged(n.cells, tr.log \cup {f})
  BY MarkLogged
<1>4. HazardsReal(m.hazards, tr1.races)
  BY <1>1, MoreRaces
<1>5. RacesOf(tr, f) \cup EarlyReads(tr, f) \subseteq tr1.races
  BY <1>1
<1>6. HazardsReal(n.hazards, tr1.races)
  BY <1>4, <1>5, MarkReal
<1>7. /\ RangesCover(n.ranges, tr.log \cup {f})
      /\ LaterTold(n.hazards, tr.races \cup RacesOf(tr, f) \cup EarlyReads(tr, f))
  BY MarkLater
<1> HIDE DEF f
<1> QED BY <1>1, <1>2, <1>3, <1>6, <1>7

LEMMA TouchKeeps ==
    ASSUME NEW m \in Memories, CellsOk(m), NEW at \in SUBSET Bytes, NEW t \in Touches,
           NEW n, n = Touch(m, at, t),
           NEW tr \in Truths, NEW tr1, tr1 = Happened(tr, at, t),
           Faithful(m, tr)
    PROVE  Faithful(n, tr1)
<1>1. /\ CleanFree(m, tr) /\ Logged(m.cells, tr.log) /\ InFlightTrue(m.cells, tr)
      /\ Tracked(m, tr) /\ PairsTold(m.copies, tr.races) /\ HazardsReal(m.hazards, tr.races)
      /\ RangesCover(m.ranges, tr.log) /\ LaterTold(m.hazards, tr.races)
  BY DEF Faithful
<1>2. /\ tr.log \subseteq tr1.log /\ tr.races \subseteq tr1.races
      /\ tr1.open = tr.open /\ tr1.groups = tr.groups
      /\ \A u : InFlightOf(tr1, u) = InFlightOf(tr, u)
  <2> DEFINE f == [bytes |-> at, touch |-> t]
  <2>1. /\ tr1.log = tr.log \cup {f}
        /\ tr1.races = tr.races \cup RacesOf(tr, f) \cup EarlyReads(tr, f)
        /\ tr1.open = tr.open /\ tr1.groups = tr.groups
        /\ \A u : InFlightOf(tr1, u) = InFlightOf(tr, u)
    BY HappenedParts
  <2> HIDE DEF f
  <2> QED BY <2>1
<1>3. n.copies = m.copies /\ n.groups = m.groups
  <2>1. CASE t.exact
    <3>1. Marking(m, at, t, FALSE, n)
      BY <2>1, MarkParts DEF Touch
    <3> QED BY <3>1 DEF Marking
  <2>2. CASE ~t.exact
    <3>1. Ranging(m, at, t, n)
      BY <2>2, RangeParts DEF Touch
    <3> QED BY <3>1 DEF Ranging
  <2> QED BY <2>1, <2>2
<1>4. Tracked(n, tr1)
  <2>1. \A v \in Threads : InFlightOf(tr, v) \subseteq tr1.log
    BY <1>1, <1>2 DEF Tracked
  <2> QED BY <1>1, <1>2, <1>3, <2>1, TrackedStays
<1>5. PairsTold(n.copies, tr1.races)
  BY <1>1, <1>2, <1>3, MoreRaces
<1>6. CASE t.exact
  <2>1. n = Mark(m, at, t, FALSE)
    BY <1>6 DEF Touch
  <2>2. /\ CleanFree(n, tr1) /\ Logged(n.cells, tr1.log) /\ HazardsReal(n.hazards, tr1.races)
        /\ RangesCover(n.ranges, tr1.log) /\ LaterTold(n.hazards, tr1.races)
    BY <1>1, <1>6, <2>1, ExactKeeps
  <2>3. \A u \in Threads : InFlightOf(tr, u) \subseteq InFlightOf(tr1, u)
    BY <1>2
  <2>4. PICK fl \in BOOLEAN : ~fl /\ n = Mark(m, at, t, fl)
    BY <2>1
  <2>5. InFlightTrue(n.cells, tr1)
    <3>1. fl /\ t.write => [bytes |-> at, touch |-> t] \in InFlightOf(tr1, t.thread)
      BY <2>4
    <3>2. n = Mark(m, at, t, fl) /\ InFlightTrue(m.cells, tr)
      BY <1>1, <2>4
    <3> QED BY <1>6, <2>3, <3>1, <3>2, MarkInFlight
  <2> QED BY <1>4, <1>5, <2>2, <2>5 DEF Faithful
<1>7. CASE ~t.exact
  <2>1. n = RangeTouch(m, at, t)
    BY <1>7 DEF Touch
  <2>2. /\ CleanFree(n, tr1) /\ Logged(n.cells, tr1.log) /\ HazardsReal(n.hazards, tr1.races)
        /\ RangesCover(n.ranges, tr1.log) /\ LaterTold(n.hazards, tr1.races)
    BY <1>1, <1>7, <2>1, RangeKeeps
  <2>3. n.cells = m.cells
    <3>1. Ranging(m, at, t, n)
      BY <1>7, <2>1, RangeParts
    <3> QED BY <3>1 DEF Ranging
  <2>4. InFlightTrue(n.cells, tr1)
    BY <1>1, <1>2, <2>3 DEF InFlightTrue
  <2> QED BY <1>4, <1>5, <2>2, <2>4 DEF Faithful
<1> QED BY <1>6, <1>7

LEMMA TouchSound ==
    ASSUME NEW m \in Memories, CellsOk(m), NEW at \in SUBSET Bytes, NEW t \in Touches,
           NEW n, n = Touch(m, at, t)
    PROVE  n \in Memories /\ CellsOk(n)
<1>1. CASE t.exact
  BY <1>1, MarkSound DEF Touch
<1>2. CASE ~t.exact
  BY <1>2, RangeSound DEF Touch
<1> QED BY <1>1, <1>2

(* The state with another memory and another truth.                        *)
Held(s, m, tr) ==
    [check |-> [mem |-> m, stamps |-> s.check.stamps, divergent |-> s.check.divergent], truth |-> tr]

LEMMA HeldSound ==
    ASSUME NEW s \in Sound, NEW m \in Memories, CellsOk(m), NEW tr \in Truths
    PROVE  Held(s, m, tr) \in Sound /\ (Good(Held(s, m, tr)) <=> Faithful(m, tr))
BY DEF Held, Sound, States, Checks, Good

LEMMA SoundParts ==
    ASSUME NEW s \in Sound
    PROVE  /\ s.check.mem \in Memories /\ CellsOk(s.check.mem) /\ s.truth \in Truths
           /\ s.check.stamps \in [Warps -> Nat] /\ s.check.divergent \in BOOLEAN
           /\ s = Held(s, s.check.mem, s.truth)
           /\ Good(s) <=> Faithful(s.check.mem, s.truth)
BY DEF Held, Sound, States, Checks, Good

(* Where a lane of an op accesses, and the touch it makes.                 *)
LEMMA ViewsTyped ==
    ASSUME NEW v \in AllViews, NEW turn \in Nat
    PROVE  v.at[turn % 2] \in SUBSET Bytes /\ v.exact \in BOOLEAN
<1>1. v.at \in [0..1 -> (SUBSET Bytes) \ {{}}] /\ v.exact \in BOOLEAN
  BY KernelsAssumption DEF AllViews
<1>2. turn % 2 \in 0..1
  OBVIOUS
<1> QED BY <1>1, <1>2

LEMMA TouchTyped ==
    ASSUME NEW s \in Sound, NEW op \in Ops, NEW t \in op.mask, NEW exact \in BOOLEAN,
           NEW touch, touch = TouchOf(s, op, t, exact)
    PROVE  /\ touch \in Touches /\ touch.thread = t /\ touch.exact = exact
           /\ op.kind = "copy" => touch.write
<1>1. t \in Threads /\ op.site \in Sites
  BY DEF Ops, OpSet
<1>2. s.check.stamps[WarpOf(t)] \in Nat
  BY <1>1, WarpsNat, SoundParts
<1>3. \E w, c \in BOOLEAN :
         /\ op.kind = "copy" => w
         /\ touch = [thread |-> t, site |-> op.site, write |-> w,
                     stamp |-> s.check.stamps[WarpOf(t)], exact |-> exact, collective |-> c]
  <2> DEFINE w == op.kind \in {"store", "copy", "mmaStore"}
             c == op.kind \in {"mmaLoad", "mmaStore"}
  <2>1. touch = [thread |-> t, site |-> op.site, write |-> w,
                 stamp |-> s.check.stamps[WarpOf(t)], exact |-> exact, collective |-> c]
    BY DEF TouchOf
  <2>2. w \in BOOLEAN /\ c \in BOOLEAN /\ (op.kind = "copy" => w)
    OBVIOUS
  <2> HIDE DEF w, c
  <2> QED BY <2>1, <2>2
<1> QED BY <1>1, <1>2, <1>3 DEF Touches

LEMMA AccessSound ==
    ASSUME NEW s \in Sound, NEW op \in Ops, op.kind \in Accesses, NEW t \in op.mask,
           NEW turn \in Nat, NEW r, r = Access(s, op, t, turn)
    PROVE  r \in Sound /\ (Good(s) => Good(r))
<1> DEFINE view == op.view[t]
           at == IF view.exact THEN view.at[turn % 2] ELSE Bytes
           touch == TouchOf(s, op, t, view.exact)
           n == Touch(s.check.mem, at, touch)
           tr1 == Happened(s.truth, at, touch)
<1>1. view \in AllViews
  BY DEF Ops, OpOk
<1>2. at \in SUBSET Bytes /\ view.exact \in BOOLEAN
  BY <1>1, ViewsTyped
<1>3. touch \in Touches
  BY <1>2, TouchTyped
<1>4. r = Held(s, n, tr1)
  <2> HIDE DEF at, touch
  <2>1. r = [s EXCEPT !.check.mem = n, !.truth = tr1]
    BY DEF Access, at, touch
  <2> HIDE DEF n, tr1
  <2> QED BY <2>1 DEF Held, Sound, States, Checks
<1> HIDE DEF at, touch
<1>5. s.check.mem \in Memories /\ CellsOk(s.check.mem) /\ s.truth \in Truths
  BY SoundParts
<1>6. n \in Memories /\ CellsOk(n) /\ tr1 \in Truths
  BY <1>2, <1>3, <1>5, TouchSound, HappenedTyped
<1>7. Faithful(s.check.mem, s.truth) => Faithful(n, tr1)
  BY <1>2, <1>3, <1>5, TouchKeeps
<1> HIDE DEF n, tr1
<1> QED BY <1>4, <1>6, <1>7, HeldSound, SoundParts

-----------------------------------------------------------------------------
(* An asynchronous copy *)

LEMMA CopiesTyped ==
    ASSUME NEW m \in Memories, NEW i \in 1..Len(m.copies)
    PROVE  m.copies[i] \in CopySet /\ m.copies[i].touch.thread \in Threads
<1>1. m.copies \in Seq(CopySet)
  BY DEF Memories
<1>2. m.copies[i] \in CopySet
  BY <1>1, ElementOfSeq
<1> QED BY <1>2 DEF CopySet, Touches

(* A copy that is kept is in flight, and of this epoch.                    *)
LEMMA CopyLogged ==
    ASSUME NEW m \in Memories, NEW tr \in Truths, Tracked(m, tr), NEW i \in 1..Len(m.copies),
           NEW c, c = m.copies[i]
    PROVE  /\ EntryOf(c) \in InFlightOf(tr, c.touch.thread)
           /\ EntryOf(c) \in tr.log
           /\ c.touch.exact /\ c.touch.write
<1> DEFINE t == c.touch.thread
<1>1. /\ c.touch.exact /\ c.touch.write
      /\ \/ c.group = 0 /\ EntryOf(c) \in tr.open[t]
         \/ /\ c.group - Closed(m, tr, t) \in 1..Len(tr.groups[t])
            /\ EntryOf(c) \in tr.groups[t][c.group - Closed(m, tr, t)]
  BY DEF Tracked
<1>2. t \in Threads
  BY CopiesTyped
<1>3. tr.groups[t] \in Seq(SUBSET Entries)
  BY <1>2 DEF Truths
<1>4. \A k \in 1..Len(tr.groups[t]) : tr.groups[t][k] \in Range(tr.groups[t])
  BY <1>3, LenProperties DEF Range
<1>5. EntryOf(c) \in InFlightOf(tr, t)
  BY <1>1, <1>4 DEF InFlightOf
<1>6. InFlightOf(tr, t) \subseteq tr.log
  BY <1>2 DEF Tracked
<1> QED BY <1>1, <1>5, <1>6

(* f is in flight too, in a group not closed.                              *)
Opens(tr, u, f, tr2) ==
    /\ tr2.log = tr.log /\ tr2.races = tr.races /\ tr2.groups = tr.groups
    /\ tr2.open[u] = tr.open[u] \cup {f}
    /\ \A v \in Threads : v # u => tr2.open[v] = tr.open[v]
    /\ \A v \in Threads : InFlightOf(tr, v) \subseteq InFlightOf(tr2, v)
    /\ f \in InFlightOf(tr2, u)
    /\ \A v \in Threads : InFlightOf(tr2, v) \subseteq InFlightOf(tr, v) \cup {f}

LEMMA OpenParts ==
    ASSUME NEW tr \in Truths, NEW u \in Threads, NEW f,
           NEW tr2, tr2 = [tr EXCEPT !.open[u] = @ \cup {f}]
    PROVE  Opens(tr, u, f, tr2)
<1>1. /\ tr2.log = tr.log /\ tr2.races = tr.races /\ tr2.groups = tr.groups
      /\ tr2.open[u] = tr.open[u] \cup {f}
      /\ \A v \in Threads : v # u => tr2.open[v] = tr.open[v]
  BY DEF Truths
<1> QED BY <1>1 DEF InFlightOf, Opens

(* A copy writes as Mark does, and is kept.                                *)
Copying(m, at, t, n) ==
    \E m1 \in Memories, fl \in BOOLEAN :
        /\ fl /\ m1 = Mark(m, at, t, fl) /\ CellsOk(m1)
        /\ n.cells = m1.cells /\ n.hazards = m1.hazards /\ n.ranges = m1.ranges
        /\ n.groups = m.groups
        /\ n.copies = Append(m.copies, CopyOf([bytes |-> at, touch |-> t], 0))

LEMMA AppendParts ==
    ASSUME NEW m \in Memories, CellsOk(m), NEW at \in SUBSET Bytes,
           NEW t \in Touches, t.exact, t.write,
           NEW n, n = CopyAsync(m, at, t)
    PROVE  n \in Memories /\ CellsOk(n) /\ Copying(m, at, t, n)
<1> DEFINE c == CopyOf([bytes |-> at, touch |-> t], 0)
<1>0. PICK fl \in BOOLEAN : fl
  OBVIOUS
<1>1. PICK m1 : fl /\ m1 = Mark(m, at, t, fl)
  BY <1>0
<1>2. m1 \in Memories /\ CellsOk(m1)
  BY <1>1, MarkSound
<1>3. m1.copies = m.copies /\ m1.groups = m.groups
  <2>1. Marking(m, at, t, fl, m1)
    BY <1>1, MarkParts
  <2> QED BY <2>1 DEF Marking
<1>4. n = [m1 EXCEPT !.copies = Append(m1.copies, c)]
  <2>1. fl = TRUE /\ c = [bytes |-> at, touch |-> t, group |-> 0]
    BY <1>1 DEF CopyOf
  <2> HIDE DEF c
  <2> QED BY <1>1, <2>1 DEF CopyAsync
<1>5. c \in CopySet
  BY DEF CopySet, CopyOf
<1> HIDE DEF c
<1>6. Append(m1.copies, c) \in Seq(CopySet)
  BY <1>2, <1>5, AppendProperties DEF Memories
<1>7. /\ n.cells = m1.cells /\ n.hazards = m1.hazards /\ n.ranges = m1.ranges /\ n.reached = m1.reached
      /\ n.groups = m1.groups /\ n.copies = Append(m1.copies, c)
  BY <1>2, <1>4 DEF Memories
<1>8. n \in Memories
  BY <1>2, <1>4, <1>6 DEF Memories
<1>9. CellsOk(n)
  BY <1>2, <1>7 DEF CellsOk
<1>10. /\ n.cells = m1.cells /\ n.hazards = m1.hazards /\ n.ranges = m1.ranges
       /\ n.groups = m.groups
       /\ n.copies = Append(m.copies, CopyOf([bytes |-> at, touch |-> t], 0))
  BY <1>3, <1>7 DEF c
<1>11. Copying(m, at, t, n)
  BY <1>1, <1>2, <1>10 DEF Copying
<1> QED BY <1>8, <1>9, <1>11

LEMMA CopyTracked ==
    ASSUME NEW m \in Memories, NEW tr \in Truths, Tracked(m, tr),
           NEW t \in Touches, t.exact, t.write, NEW at \in SUBSET Bytes,
           NEW f, f = [bytes |-> at, touch |-> t],
           NEW n, n.groups = m.groups, n.copies = Append(m.copies, CopyOf(f, 0)),
           NEW u \in Threads, u = t.thread,
           NEW tr2, Opens(tr, u, f, tr2),
           f \in tr.log
    PROVE  Tracked(n, tr2)
<1> DEFINE last == Len(m.copies) + 1
<1>2. /\ tr2.log = tr.log /\ tr2.races = tr.races /\ tr2.groups = tr.groups
      /\ tr2.open[u] = tr.open[u] \cup {f}
      /\ \A v \in Threads : v # u => tr2.open[v] = tr.open[v]
      /\ \A v \in Threads : InFlightOf(tr2, v) \subseteq InFlightOf(tr, v) \cup {f}
  BY DEF Opens
<1>3. \A v : Closed(n, tr2, v) = Closed(m, tr, v)
  BY <1>2 DEF Closed
<1>4. /\ Len(m.copies) \in Nat /\ Len(n.copies) = last
      /\ \A i \in 1..Len(m.copies) : n.copies[i] = m.copies[i]
      /\ n.copies[last] = CopyOf(f, 0)
  BY AppendProperties, LenProperties DEF Memories
<1>5. CopyOf(f, 0).touch = t /\ EntryOf(CopyOf(f, 0)) = f /\ CopyOf(f, 0).group = 0 /\ f.touch = t
  BY DEF CopyOf, EntryOf
<1>6. ASSUME NEW i \in 1..Len(n.copies), NEW c, c = n.copies[i]
      PROVE  /\ c.touch.exact /\ c.touch.write
             /\ \/ c.group = 0 /\ EntryOf(c) \in tr2.open[c.touch.thread]
                \/ /\ c.group - Closed(n, tr2, c.touch.thread) \in 1..Len(tr2.groups[c.touch.thread])
                   /\ EntryOf(c) \in tr2.groups[c.touch.thread][c.group - Closed(n, tr2, c.touch.thread)]
  <2>1. CASE i = last
    <3>1. c = CopyOf(f, 0)
      BY <1>4, <1>6, <2>1
    <3>2. c.touch = t /\ c.group = 0 /\ EntryOf(c) = f
      BY <1>5, <3>1
    <3> QED BY <1>2, <3>2
  <2>2. CASE i # last
    <3>1. i \in 1..Len(m.copies) /\ c = m.copies[i]
      BY <1>4, <1>6, <2>2
    <3>2. c.touch.thread \in Threads
      BY <3>1, CopiesTyped
    <3>3. /\ c.touch.exact /\ c.touch.write
          /\ \/ c.group = 0 /\ EntryOf(c) \in tr.open[c.touch.thread]
             \/ /\ c.group - Closed(m, tr, c.touch.thread) \in 1..Len(tr.groups[c.touch.thread])
                /\ EntryOf(c) \in tr.groups[c.touch.thread][c.group - Closed(m, tr, c.touch.thread)]
      BY <3>1 DEF Tracked
    <3>4. tr.open[c.touch.thread] \subseteq tr2.open[c.touch.thread]
      BY <1>2, <3>2
    <3> QED BY <1>2, <1>3, <3>3, <3>4
  <2> QED BY <2>1, <2>2
<1>7. \A x : (\E i \in 1..Len(m.copies) : m.copies[i] = x) => \E i \in 1..Len(n.copies) : n.copies[i] = x
  BY <1>4
<1>8. \E i \in 1..Len(n.copies) : n.copies[i] = CopyOf(f, 0)
  BY <1>4
<1>9. ASSUME NEW v \in Threads
      PROVE  /\ Len(tr2.groups[v]) <= n.groups[v]
             /\ \A e \in tr2.open[v] :
                   e.touch.thread = v /\ \E i \in 1..Len(n.copies) : n.copies[i] = CopyOf(e, 0)
             /\ \A k \in 1..Len(tr2.groups[v]) : \A e \in tr2.groups[v][k] :
                   /\ e.touch.thread = v
                   /\ \E i \in 1..Len(n.copies) : n.copies[i] = CopyOf(e, Closed(n, tr2, v) + k)
             /\ InFlightOf(tr2, v) \subseteq tr2.log
  <2>1. /\ Len(tr.groups[v]) <= m.groups[v]
        /\ \A e \in tr.open[v] :
              e.touch.thread = v /\ \E i \in 1..Len(m.copies) : m.copies[i] = CopyOf(e, 0)
        /\ \A k \in 1..Len(tr.groups[v]) : \A e \in tr.groups[v][k] :
              /\ e.touch.thread = v
              /\ \E i \in 1..Len(m.copies) : m.copies[i] = CopyOf(e, Closed(m, tr, v) + k)
        /\ InFlightOf(tr, v) \subseteq tr.log
    BY DEF Tracked
  <2>2. \A e \in tr2.open[v] :
           e.touch.thread = v /\ \E i \in 1..Len(n.copies) : n.copies[i] = CopyOf(e, 0)
    <3> SUFFICES ASSUME NEW e \in tr2.open[v]
                 PROVE  e.touch.thread = v /\ \E i \in 1..Len(n.copies) : n.copies[i] = CopyOf(e, 0)
      OBVIOUS
    <3>1. e \in tr.open[v] \/ (e = f /\ v = u)
      BY <1>2
    <3> QED BY <1>5, <1>7, <1>8, <2>1, <3>1
  <2>3. \A k \in 1..Len(tr2.groups[v]) : \A e \in tr2.groups[v][k] :
              /\ e.touch.thread = v
              /\ \E i \in 1..Len(n.copies) : n.copies[i] = CopyOf(e, Closed(n, tr2, v) + k)
    <3> SUFFICES ASSUME NEW k \in 1..Len(tr2.groups[v]), NEW e \in tr2.groups[v][k]
                 PROVE  /\ e.touch.thread = v
                        /\ \E i \in 1..Len(n.copies) : n.copies[i] = CopyOf(e, Closed(n, tr2, v) + k)
      OBVIOUS
    <3>1. /\ e.touch.thread = v
          /\ \E i \in 1..Len(m.copies) : m.copies[i] = CopyOf(e, Closed(m, tr, v) + k)
      BY <1>2, <2>1
    <3>2. Closed(n, tr2, v) = Closed(m, tr, v)
      BY <1>3
    <3> QED BY <1>7, <3>1, <3>2
  <2> QED BY <1>2, <2>1, <2>2, <2>3
<1> QED BY <1>6, <1>9 DEF Tracked

(* Copies that overlap: the conflict was a race when the later was made.   *)
Extends(q, c, more) ==
    /\ Len(more) = Len(q) + 1 /\ more[Len(q) + 1] = c
    /\ \A i \in 1..Len(q) : more[i] = q[i]
AllTold(q, c, R) ==
    \A i \in 1..Len(q) :
        q[i].bytes \cap c.bytes # {} /\ q[i].touch.thread # c.touch.thread =>
            Conflict(q[i].touch, c.touch) \subseteq R

LEMMA PairsMore ==
    ASSUME NEW q, Len(q) \in Nat, NEW R, PairsTold(q, R), NEW R2, R \subseteq R2,
           NEW c, AllTold(q, c, R2), NEW more, Extends(q, c, more)
    PROVE  PairsTold(more, R2)
<1>1. ASSUME NEW i \in 1..Len(more), NEW j \in 1..Len(more), i < j,
             more[i].bytes \cap more[j].bytes # {},
             more[i].touch.thread # more[j].touch.thread
      PROVE  Conflict(more[i].touch, more[j].touch) \subseteq R2
  <2>1. i \in 1..Len(q) /\ more[i] = q[i]
    BY <1>1 DEF Extends
  <2>2. CASE j = Len(q) + 1
    <3>1. more[j] = c
      BY <2>2 DEF Extends
    <3> QED BY <1>1, <2>1, <3>1 DEF AllTold
  <2>3. CASE j # Len(q) + 1
    <3>1. j \in 1..Len(q) /\ more[j] = q[j]
      BY <2>3 DEF Extends
    <3>2. Conflict(q[i].touch, q[j].touch) \subseteq R
      BY <1>1, <2>1, <3>1 DEF PairsTold
    <3> QED BY <2>1, <3>1, <3>2
  <2> QED BY <2>2, <2>3
<1>2. \A i, j \in 1..Len(more) :
        /\ i < j
        /\ more[i].bytes \cap more[j].bytes # {}
        /\ more[i].touch.thread # more[j].touch.thread
        => Conflict(more[i].touch, more[j].touch) \subseteq R2
  BY <1>1
<1> QED BY <1>2, Zenon DEF PairsTold

LEMMA CopyPairs ==
    ASSUME NEW m \in Memories, NEW tr \in Truths, Tracked(m, tr), PairsTold(m.copies, tr.races),
           NEW t \in Touches, t.exact, t.write, NEW at \in SUBSET Bytes,
           NEW f, f = [bytes |-> at, touch |-> t],
           NEW copies, copies = Append(m.copies, CopyOf(f, 0)),
           NEW R, tr.races \cup RacesOf(tr, f) \subseteq R
    PROVE  PairsTold(copies, R)
<1>1. PICK q, c : q = m.copies /\ c = CopyOf(f, 0)
  OBVIOUS
<1>2. c.touch = t /\ c.bytes = at /\ f.touch = t /\ f.bytes = at
  BY <1>1 DEF CopyOf
<1>3. q \in Seq(CopySet) /\ c \in CopySet /\ copies = Append(q, c)
  BY <1>1 DEF CopyOf, CopySet, Memories
<1>4. Extends(q, c, copies) /\ Len(q) \in Nat
  BY <1>3, AppendProperties, LenProperties DEF Extends
<1>5. ASSUME NEW i \in 1..Len(q), q[i].bytes \cap c.bytes # {}, q[i].touch.thread # c.touch.thread
      PROVE  Conflict(q[i].touch, c.touch) \subseteq R
  <2>1. PICK x, d : x = q[i] /\ d = EntryOf(x)
    OBVIOUS
  <2>2. d \in tr.log /\ x.touch.exact /\ x.touch.write
    BY <1>1, <2>1, CopyLogged
  <2>3. d.touch = x.touch /\ d.bytes = x.bytes
    BY <2>1 DEF EntryOf
  <2>4. Racing(d, f)
    BY <1>2, <1>5, <2>1, <2>3 DEF Racing
  <2>5. Conflict(d.touch, f.touch) \subseteq RacesOf(tr, f)
    BY <1>2, <2>2, <2>3, <2>4, ConflictRaces
  <2> QED BY <1>2, <2>1, <2>3, <2>5
<1>6. AllTold(q, c, R)
  BY <1>5 DEF AllTold
<1>7. tr.races \subseteq R /\ PairsTold(q, tr.races)
  BY <1>1
<1> QED BY <1>4, <1>6, <1>7, PairsMore

LEMMA CopyKeeps ==
    ASSUME NEW m \in Memories, CellsOk(m), NEW at \in SUBSET Bytes,
           NEW t \in Touches, t.exact, t.write,
           NEW n, n = CopyAsync(m, at, t),
           NEW f, f = [bytes |-> at, touch |-> t],
           NEW tr \in Truths, NEW tr1, tr1 = Happened(tr, at, t),
           NEW tr2, Opens(tr1, t.thread, f, tr2),
           Faithful(m, tr)
    PROVE  Faithful(n, tr2)
<1> DEFINE u == t.thread
<1>0. /\ CleanFree(m, tr) /\ Logged(m.cells, tr.log) /\ InFlightTrue(m.cells, tr)
      /\ Tracked(m, tr) /\ PairsTold(m.copies, tr.races) /\ HazardsReal(m.hazards, tr.races)
      /\ RangesCover(m.ranges, tr.log) /\ LaterTold(m.hazards, tr.races)
  BY DEF Faithful
<1>1. u \in Threads
  BY DEF Touches
<1>2. Copying(m, at, t, n)
  BY AppendParts
<1>3. PICK m1 \in Memories, fl \in BOOLEAN :
         /\ fl /\ m1 = Mark(m, at, t, fl) /\ CellsOk(m1)
         /\ n.cells = m1.cells /\ n.hazards = m1.hazards /\ n.ranges = m1.ranges
         /\ n.groups = m.groups /\ n.copies = Append(m.copies, CopyOf(f, 0))
  BY <1>2 DEF Copying
<1>4. /\ CleanFree(m1, tr1) /\ Logged(m1.cells, tr1.log) /\ HazardsReal(m1.hazards, tr1.races)
      /\ RangesCover(m1.ranges, tr1.log) /\ LaterTold(m1.hazards, tr1.races)
  BY <1>0, <1>3, ExactKeeps
<1>5. /\ tr1.log = tr.log \cup {f}
      /\ tr1.races = tr.races \cup RacesOf(tr, f) \cup EarlyReads(tr, f)
      /\ tr1.open = tr.open /\ tr1.groups = tr.groups
      /\ \A v : InFlightOf(tr1, v) = InFlightOf(tr, v)
  BY HappenedParts
<1>6. /\ tr2.log = tr1.log /\ tr2.races = tr1.races
      /\ \A v \in Threads : InFlightOf(tr1, v) \subseteq InFlightOf(tr2, v)
      /\ f \in InFlightOf(tr2, u)
  BY DEF Opens
<1>7. InFlightTrue(m1.cells, tr2)
  <2>1. \A v \in Threads : InFlightOf(tr, v) \subseteq InFlightOf(tr2, v)
    BY <1>5, <1>6
  <2>2. fl /\ t.write => [bytes |-> at, touch |-> t] \in InFlightOf(tr2, t.thread)
    BY <1>6
  <2>3. m1 = Mark(m, at, t, fl) /\ InFlightTrue(m.cells, tr)
    BY <1>0, <1>3
  <2> QED BY <2>1, <2>2, <2>3, MarkInFlight
<1>9. Tracked(n, tr2)
  <2>1. tr1 \in Truths
    BY HappenedTyped
  <2>2. Tracked(m, tr1)
    <3>1. \A v \in Threads : InFlightOf(tr, v) \subseteq tr1.log
      BY <1>0, <1>5 DEF Tracked
    <3> QED BY <1>0, <1>5, <3>1, TrackedStays
  <2>3. f \in tr1.log
    BY <1>5
  <2> QED BY <1>1, <1>3, <2>1, <2>2, <2>3, CopyTracked
<1>10. PairsTold(n.copies, tr2.races)
  <2>1. tr.races \cup RacesOf(tr, f) \subseteq tr2.races
    BY <1>5, <1>6
  <2> QED BY <1>0, <1>3, <2>1, CopyPairs
<1>11. /\ CleanFree(n, tr2) /\ Logged(n.cells, tr2.log) /\ InFlightTrue(n.cells, tr2)
       /\ HazardsReal(n.hazards, tr2.races)
       /\ RangesCover(n.ranges, tr2.log) /\ LaterTold(n.hazards, tr2.races)
  BY <1>3, <1>4, <1>6, <1>7 DEF CleanFree
<1> QED BY <1>9, <1>10, <1>11 DEF Faithful

LEMMA CopySound ==
    ASSUME NEW s \in Sound, NEW op \in Ops, op.kind = "copy", NEW t \in op.mask,
           NEW turn \in Nat, NEW r, r = Copy(s, op, t, turn)
    PROVE  r \in Sound /\ (Good(s) => Good(r))
<1> DEFINE at == op.view[t].at[turn % 2]
           touch == TouchOf(s, op, t, TRUE)
           f == [bytes |-> at, touch |-> touch]
           n == CopyAsync(s.check.mem, at, touch)
           tr1 == Happened(s.truth, at, touch)
           tr2 == [tr1 EXCEPT !.open[t] = @ \cup {f}]
<1>1. op.view[t] \in AllViews /\ t \in Threads
  BY DEF Ops, OpOk, OpSet, Accesses
<1>2. at \in SUBSET Bytes
  BY <1>1, ViewsTyped
<1>3. /\ touch \in Touches /\ touch.thread = t /\ touch.write /\ touch.exact
  <2>1. PICK e \in BOOLEAN : e /\ touch = TouchOf(s, op, t, e)
    OBVIOUS
  <2> HIDE DEF touch
  <2>2. touch = TouchOf(s, op, t, e)
    BY <2>1
  <2>3. touch \in Touches /\ touch.thread = t /\ touch.exact = e /\ touch.write
    BY <2>2, TouchTyped
  <2> QED BY <2>1, <2>3
<1>4. r = Held(s, n, tr2)
  <2> HIDE DEF at, touch
  <2>1. r = [s EXCEPT !.check.mem = n, !.truth = tr2]
    BY DEF Copy, at, touch
  <2> HIDE DEF n, tr2, f, tr1
  <2> QED BY <2>1 DEF Held, Sound, States, Checks
<1> HIDE DEF at, touch
<1>5. s.check.mem \in Memories /\ CellsOk(s.check.mem) /\ s.truth \in Truths
  BY SoundParts
<1>6. n \in Memories /\ CellsOk(n)
  BY <1>2, <1>3, <1>5, AppendParts
<1>7. tr1 \in Truths
  BY <1>2, <1>3, <1>5, HappenedTyped
<1>8. tr2 \in Truths
  <2>1. f \in Entries
    BY <1>2, <1>3 DEF Entries
  <2> HIDE DEF f, tr1
  <2> QED BY <1>7, <2>1 DEF Truths
<1>9. Opens(tr1, t, f, tr2)
  <2> HIDE DEF f, tr1
  <2> QED BY <1>1, <1>7, OpenParts
<1>10. Faithful(s.check.mem, s.truth) => Faithful(n, tr2)
  <2> HIDE DEF tr2
  <2> QED BY <1>2, <1>3, <1>5, <1>9, CopyKeeps
<1> HIDE DEF n, tr2
<1> QED BY <1>4, <1>5, <1>6, <1>8, <1>10, HeldSound, SoundParts

-----------------------------------------------------------------------------
(* A thread closes a group *)

Committed(m, t, n) ==
    /\ n.cells = m.cells /\ n.hazards = m.hazards /\ n.ranges = m.ranges /\ n.reached = m.reached
    /\ n.groups[t] = m.groups[t] + 1
    /\ \A v \in Threads : v # t => n.groups[v] = m.groups[v]
    /\ Len(n.copies) = Len(m.copies)
    /\ \A i \in 1..Len(m.copies) :
          IF m.copies[i].touch.thread = t /\ m.copies[i].group = 0
          THEN n.copies[i] = CopyOf(EntryOf(m.copies[i]), m.groups[t] + 1)
          ELSE n.copies[i] = m.copies[i]

LEMMA CommitParts ==
    ASSUME NEW m \in Memories, CellsOk(m), NEW t \in Threads, NEW n, n = Commit(m, t)
    PROVE  n \in Memories /\ CellsOk(n) /\ Committed(m, t, n)
<1> DEFINE next == m.groups[t] + 1
           copies == [i \in DOMAIN m.copies |->
                        IF m.copies[i].touch.thread = t /\ m.copies[i].group = 0
                        THEN [m.copies[i] EXCEPT !.group = next] ELSE m.copies[i]]
<1>1. n = [m EXCEPT !.groups[t] = next, !.copies = copies]
  BY DEF Commit
<1>2. m.groups \in [Threads -> Nat] /\ m.copies \in Seq(CopySet)
  BY DEF Memories
<1>3. DOMAIN m.copies = 1..Len(m.copies) /\ Len(m.copies) \in Nat
  BY <1>2, LenProperties
<1>4. ASSUME NEW i \in 1..Len(m.copies)
      PROVE  /\ copies[i] \in CopySet
             /\ m.copies[i].touch.thread = t /\ m.copies[i].group = 0 =>
                   copies[i] = CopyOf(EntryOf(m.copies[i]), next)
             /\ ~(m.copies[i].touch.thread = t /\ m.copies[i].group = 0) => copies[i] = m.copies[i]
  <2>1. m.copies[i] \in CopySet
    BY CopiesTyped
  <2>2. copies[i] = IF m.copies[i].touch.thread = t /\ m.copies[i].group = 0
                    THEN [m.copies[i] EXCEPT !.group = next] ELSE m.copies[i]
    BY <1>3
  <2>3. next \in Nat
    BY <1>2
  <2> HIDE DEF copies, next
  <2> QED BY <2>1, <2>2, <2>3 DEF CopySet, CopyOf, EntryOf
<1>5. copies \in Seq(CopySet) /\ Len(copies) = Len(m.copies)
  <2>1. DOMAIN copies = 1..Len(m.copies)
    BY <1>3
  <2>2. copies \in [1..Len(m.copies) -> CopySet]
    BY <1>3, <1>4
  <2> HIDE DEF copies
  <2>3. copies \in Seq(CopySet)
    BY <1>3, <2>2, SeqDef
  <2> QED BY <1>3, <2>1, <2>3, LenProperties
<1> HIDE DEF copies
<1>6. /\ n.cells = m.cells /\ n.hazards = m.hazards /\ n.ranges = m.ranges /\ n.reached = m.reached
      /\ n.groups = [m.groups EXCEPT ![t] = next] /\ n.copies = copies
  BY <1>1 DEF Memories
<1>7. n \in Memories
  <2>1. [m.groups EXCEPT ![t] = next] \in [Threads -> Nat]
    BY <1>2
  <2>2. n = [m EXCEPT !.groups = n.groups, !.copies = copies]
    BY <1>1, <1>6 DEF Memories
  <2> QED BY <1>5, <1>6, <2>1, <2>2 DEF Memories
<1>8. n.groups[t] = next /\ \A v \in Threads : v # t => n.groups[v] = m.groups[v]
  BY <1>2, <1>6
<1>9. CellsOk(n)
  BY <1>6 DEF CellsOk
<1>10. Committed(m, t, n)
  BY <1>4, <1>5, <1>6, <1>8 DEF Committed
<1> QED BY <1>7, <1>9, <1>10

Closes(tr, t, tr2) ==
    /\ tr2.log = tr.log /\ tr2.races = tr.races
    /\ tr2.open[t] = {} /\ tr2.groups[t] = Append(tr.groups[t], tr.open[t])
    /\ \A v \in Threads : v # t => tr2.open[v] = tr.open[v] /\ tr2.groups[v] = tr.groups[v]

LEMMA RangeIn ==
    ASSUME NEW S, NEW q \in Seq(S)
    PROVE  \A x : x \in Range(q) <=> \E k \in 1..Len(q) : x = q[k]
BY LenProperties DEF Range

LEMMA ClosesInFlight ==
    ASSUME NEW tr \in Truths, NEW tr2 \in Truths, NEW t \in Threads, Closes(tr, t, tr2)
    PROVE  \A v \in Threads : InFlightOf(tr2, v) = InFlightOf(tr, v)
<1> SUFFICES ASSUME NEW v \in Threads PROVE InFlightOf(tr2, v) = InFlightOf(tr, v)
  OBVIOUS
<1>1. CASE v # t
  BY <1>1 DEF Closes, InFlightOf
<1>2. CASE v = t
  <2> DEFINE q == tr.groups[t]
             q2 == tr2.groups[t]
             o == tr.open[t]
  <2>1. q \in Seq(SUBSET Entries) /\ q2 \in Seq(SUBSET Entries) /\ o \in SUBSET Entries
    BY DEF Truths
  <2>2. q2 = Append(q, o) /\ tr2.open[t] = {}
    BY DEF Closes
  <2> HIDE DEF q, q2, o
  <2>3. Len(q2) = Len(q) + 1 /\ q2[Len(q) + 1] = o /\ \A k \in 1..Len(q) : q2[k] = q[k]
    BY <2>1, <2>2, AppendProperties
  <2>4. Range(q2) = Range(q) \cup {o}
    <3>1. Len(q) \in Nat
      BY <2>1, LenProperties
    <3>2. \A x : x \in Range(q2) <=> \E k \in 1..Len(q2) : x = q2[k]
      BY <2>1, RangeIn
    <3>3. \A x : x \in Range(q) <=> \E k \in 1..Len(q) : x = q[k]
      BY <2>1, RangeIn
    <3>4. ASSUME NEW x \in Range(q2) PROVE x \in Range(q) \cup {o}
      BY <2>3, <3>1, <3>2, <3>3
    <3>5. ASSUME NEW x \in Range(q) \cup {o} PROVE x \in Range(q2)
      <4>1. CASE x = o
        BY <2>3, <3>1, <3>2, <4>1
      <4>2. CASE x \in Range(q)
        BY <2>3, <3>1, <3>2, <3>3, <4>2
      <4> QED BY <4>1, <4>2
    <3> QED BY <3>4, <3>5
  <2>5. InFlightOf(tr2, t) = {} \cup UNION Range(q2) /\ InFlightOf(tr, t) = o \cup UNION Range(q)
    BY <2>2 DEF InFlightOf, q, q2, o
  <2>6. UNION Range(q2) = o \cup UNION Range(q)
    BY <2>4
  <2> QED BY <1>2, <2>5, <2>6
<1> QED BY <1>1, <1>2

LEMMA CloseTracked ==
    ASSUME NEW m \in Memories, NEW tr \in Truths, NEW t \in Threads,
           NEW n, Committed(m, t, n), NEW tr2 \in Truths, Closes(tr, t, tr2),
           Tracked(m, tr)
    PROVE  Tracked(n, tr2)
<1> DEFINE L == Len(tr.groups[t])
           G == m.groups[t]
<1>1. /\ tr2.open[t] = {} /\ Len(tr2.groups[t]) = L + 1 /\ tr2.groups[t][L + 1] = tr.open[t]
      /\ \A k \in 1..L : tr2.groups[t][k] = tr.groups[t][k]
  <2>1. tr.groups[t] \in Seq(SUBSET Entries) /\ tr.open[t] \in SUBSET Entries
    BY DEF Truths
  <2> QED BY <2>1, AppendProperties DEF Closes
<1>2. L \in Nat /\ G \in Nat /\ L <= G
  <2>1. tr.groups[t] \in Seq(SUBSET Entries) /\ m.groups[t] \in Nat
    BY DEF Truths, Memories
  <2> QED BY <2>1, LenProperties DEF Tracked
<1>3. /\ n.groups[t] = G + 1
      /\ \A v \in Threads : v # t => /\ n.groups[v] = m.groups[v]
                                     /\ tr2.open[v] = tr.open[v] /\ tr2.groups[v] = tr.groups[v]
  BY DEF Committed, Closes
<1>4. /\ Closed(n, tr2, t) = G - L /\ Closed(m, tr, t) = G - L
      /\ \A v \in Threads : v # t => Closed(n, tr2, v) = Closed(m, tr, v)
  <2>1. Closed(n, tr2, t) = (G + 1) - (L + 1) /\ Closed(m, tr, t) = G - L
    BY <1>1, <1>3 DEF Closed
  <2>2. \A v \in Threads : v # t => Closed(n, tr2, v) = Closed(m, tr, v)
    BY <1>3 DEF Closed
  <2> HIDE DEF L, G
  <2>3. (G + 1) - (L + 1) = G - L
    BY <1>2
  <2> QED BY <2>1, <2>2, <2>3
<1>5. \A i \in 1..Len(m.copies) :
         /\ m.copies[i].touch.thread = t /\ m.copies[i].group = 0 =>
               n.copies[i] = CopyOf(EntryOf(m.copies[i]), G + 1)
         /\ ~(m.copies[i].touch.thread = t /\ m.copies[i].group = 0) => n.copies[i] = m.copies[i]
  BY DEF Committed
<1>6. Len(n.copies) = Len(m.copies)
  BY DEF Committed
<1> HIDE DEF L, G
<1>7. ASSUME NEW i \in 1..Len(n.copies), NEW c, c = n.copies[i]
      PROVE  /\ c.touch.exact /\ c.touch.write
             /\ \/ c.group = 0 /\ EntryOf(c) \in tr2.open[c.touch.thread]
                \/ /\ c.group - Closed(n, tr2, c.touch.thread) \in 1..Len(tr2.groups[c.touch.thread])
                   /\ EntryOf(c) \in tr2.groups[c.touch.thread][c.group - Closed(n, tr2, c.touch.thread)]
  <2> DEFINE d == m.copies[i]
  <2>1. i \in 1..Len(m.copies) /\ d.touch.thread \in Threads /\ d.group \in Nat
    BY <1>6, <1>7, CopiesTyped DEF CopySet
  <2>2. /\ d.touch.exact /\ d.touch.write
        /\ \/ d.group = 0 /\ EntryOf(d) \in tr.open[d.touch.thread]
           \/ /\ d.group - Closed(m, tr, d.touch.thread) \in 1..Len(tr.groups[d.touch.thread])
              /\ EntryOf(d) \in tr.groups[d.touch.thread][d.group - Closed(m, tr, d.touch.thread)]
    BY <2>1 DEF Tracked
  <2>3. /\ d.touch.thread = t /\ d.group = 0 => c = CopyOf(EntryOf(d), G + 1)
        /\ ~(d.touch.thread = t /\ d.group = 0) => c = d
    BY <1>5, <1>7, <2>1
  <2> HIDE DEF d
  <2>4. CASE d.touch.thread = t /\ d.group = 0
    <3>1. c.touch = d.touch /\ c.group = G + 1 /\ EntryOf(c) = EntryOf(d)
      BY <2>3, <2>4 DEF CopyOf, EntryOf
    <3>2. EntryOf(d) \in tr.open[t]
      BY <1>2, <1>4, <2>2, <2>4 DEF L
    <3>3. c.group - Closed(n, tr2, t) = L + 1 /\ L + 1 \in 1..Len(tr2.groups[t])
      BY <1>1, <1>2, <1>4, <3>1
    <3> QED BY <1>1, <2>2, <2>4, <3>1, <3>2, <3>3
  <2>5. CASE d.touch.thread = t /\ d.group # 0
    <3>1. c = d
      BY <2>3, <2>5
    <3>2. d.group - (G - L) \in 1..L /\ EntryOf(d) \in tr.groups[t][d.group - (G - L)]
      BY <1>4, <2>2, <2>5 DEF L
    <3>3. d.group - (G - L) \in 1..Len(tr2.groups[t]) /\ EntryOf(d) \in tr2.groups[t][d.group - (G - L)]
      BY <1>1, <1>2, <3>2
    <3> QED BY <1>4, <2>2, <2>5, <3>1, <3>3
  <2>6. CASE d.touch.thread # t
    <3>1. c = d
      BY <2>3, <2>6
    <3> QED BY <1>3, <1>4, <2>1, <2>2, <2>6, <3>1
  <2> QED BY <2>4, <2>5, <2>6
<1>8. ASSUME NEW v \in Threads
      PROVE  /\ Len(tr2.groups[v]) <= n.groups[v]
             /\ \A e \in tr2.open[v] :
                   e.touch.thread = v /\ \E i \in 1..Len(n.copies) : n.copies[i] = CopyOf(e, 0)
             /\ \A k \in 1..Len(tr2.groups[v]) : \A e \in tr2.groups[v][k] :
                   /\ e.touch.thread = v
                   /\ \E i \in 1..Len(n.copies) : n.copies[i] = CopyOf(e, Closed(n, tr2, v) + k)
             /\ InFlightOf(tr2, v) \subseteq tr2.log
  <2>1. /\ Len(tr.groups[v]) <= m.groups[v]
        /\ \A e \in tr.open[v] :
              e.touch.thread = v /\ \E i \in 1..Len(m.copies) : m.copies[i] = CopyOf(e, 0)
        /\ \A k \in 1..Len(tr.groups[v]) : \A e \in tr.groups[v][k] :
              /\ e.touch.thread = v
              /\ \E i \in 1..Len(m.copies) : m.copies[i] = CopyOf(e, Closed(m, tr, v) + k)
        /\ InFlightOf(tr, v) \subseteq tr.log
    BY DEF Tracked
  <2>2. InFlightOf(tr2, v) \subseteq tr2.log
    BY <2>1, ClosesInFlight DEF Closes
  <2>3. \A e, g : CopyOf(e, g).touch = e.touch /\ CopyOf(e, g).group = g
    BY DEF CopyOf
  <2>4. CASE v # t
    <3>1. \A e, g : e.touch.thread = v => \A i \in 1..Len(m.copies) : m.copies[i] = CopyOf(e, g) =>
             n.copies[i] = CopyOf(e, g)
      BY <1>5, <2>3, <2>4
    <3>2. /\ Len(tr2.groups[v]) <= n.groups[v]
          /\ \A e \in tr2.open[v] :
                e.touch.thread = v /\ \E i \in 1..Len(n.copies) : n.copies[i] = CopyOf(e, 0)
      BY <1>3, <1>6, <2>1, <2>4, <3>1
    <3>3. ASSUME NEW k \in 1..Len(tr2.groups[v]), NEW e \in tr2.groups[v][k]
          PROVE  /\ e.touch.thread = v
                 /\ \E i \in 1..Len(n.copies) : n.copies[i] = CopyOf(e, Closed(n, tr2, v) + k)
      <4>1. /\ e.touch.thread = v
            /\ \E i \in 1..Len(m.copies) : m.copies[i] = CopyOf(e, Closed(m, tr, v) + k)
        BY <1>3, <2>1, <2>4, <3>3
      <4>2. Closed(n, tr2, v) = Closed(m, tr, v)
        BY <1>4, <2>4
      <4> QED BY <1>6, <3>1, <4>1, <4>2
    <3> QED BY <2>2, <3>2, <3>3
  <2>5. CASE v = t
    <3>1. Len(tr2.groups[t]) <= n.groups[t] /\ tr2.open[t] = {}
      BY <1>1, <1>2, <1>3
    <3>2. ASSUME NEW k \in 1..Len(tr2.groups[t]), NEW e \in tr2.groups[t][k]
          PROVE  /\ e.touch.thread = t
                 /\ \E i \in 1..Len(n.copies) : n.copies[i] = CopyOf(e, Closed(n, tr2, t) + k)
      <4>1. CASE k = L + 1
        <5>1. e \in tr.open[t]
          BY <1>1, <3>2, <4>1
        <5>2. PICK i \in 1..Len(m.copies) : e.touch.thread = t /\ m.copies[i] = CopyOf(e, 0)
          BY <2>1, <2>5, <5>1
        <5>3. n.copies[i] = CopyOf(EntryOf(m.copies[i]), G + 1)
          BY <1>5, <2>3, <5>2
        <5>4. CopyOf(EntryOf(m.copies[i]), G + 1) = CopyOf(e, G + 1)
          BY <5>2 DEF CopyOf, EntryOf
        <5>5. Closed(n, tr2, t) + k = G + 1
          BY <1>2, <1>4, <4>1
        <5> QED BY <1>6, <5>2, <5>3, <5>4, <5>5
      <4>2. CASE k # L + 1
        <5>1. k \in 1..L /\ e \in tr.groups[t][k]
          BY <1>1, <1>2, <3>2, <4>2
        <5>2. PICK i \in 1..Len(m.copies) : e.touch.thread = t /\ m.copies[i] = CopyOf(e, G - L + k)
          BY <1>4, <2>1, <2>5, <5>1 DEF L
        <5>3. G - L + k # 0
          BY <1>2, <5>1
        <5>4. n.copies[i] = CopyOf(e, G - L + k)
          BY <1>5, <2>3, <5>2, <5>3
        <5> QED BY <1>4, <1>6, <5>2, <5>4
      <4> QED BY <4>1, <4>2
    <3> QED BY <2>2, <2>5, <3>1, <3>2
  <2> QED BY <2>4, <2>5
<1> QED BY <1>7, <1>8 DEF Tracked

LEMMA GroupSound ==
    ASSUME NEW s \in Sound, NEW op, NEW t \in Threads, NEW turn,
           NEW r, r = Group(s, op, t, turn)
    PROVE  r \in Sound /\ (Good(s) => Good(r))
<1> DEFINE m == s.check.mem
           tr == s.truth
           n == Commit(m, t)
           tr2 == [tr EXCEPT !.groups[t] = Append(tr.groups[t], tr.open[t]), !.open[t] = {}]
<1>1. m \in Memories /\ CellsOk(m) /\ tr \in Truths
  BY SoundParts
<1>2. r = Held(s, n, tr2)
  <2>1. r = [s EXCEPT !.check.mem = n, !.truth.groups[t] = Append(tr.groups[t], tr.open[t]),
                      !.truth.open[t] = {}]
    BY DEF Group
  <2> HIDE DEF n
  <2>2. s \in States
    BY DEF Sound
  <2>3. tr2 = [s.truth EXCEPT !.groups[t] = Append(tr.groups[t], tr.open[t]), !.open[t] = {}]
    OBVIOUS
  <2>4. r.truth = tr2
    BY <2>1, <2>2, <2>3 DEF States, Checks, Truths
  <2>5. r.check = [mem |-> n, stamps |-> s.check.stamps, divergent |-> s.check.divergent]
    BY <2>1, <2>2 DEF States, Checks
  <2>6. r = [check |-> r.check, truth |-> r.truth]
    BY <2>1, <2>2 DEF States
  <2> QED BY <2>4, <2>5, <2>6 DEF Held
<1> HIDE DEF m, tr
<1>3. n \in Memories /\ CellsOk(n) /\ Committed(m, t, n)
  BY <1>1, CommitParts
<1>4. tr2 \in Truths /\ Closes(tr, t, tr2)
  <2>1. tr.groups[t] \in Seq(SUBSET Entries) /\ tr.open[t] \in SUBSET Entries
    BY <1>1 DEF Truths
  <2>2. Append(tr.groups[t], tr.open[t]) \in Seq(SUBSET Entries)
    BY <2>1, AppendProperties
  <2>3. tr2 \in Truths
    BY <1>1, <2>2 DEF Truths
  <2>4. Closes(tr, t, tr2)
    BY <1>1 DEF Truths, Closes
  <2> QED BY <2>3, <2>4
<1> HIDE DEF n, tr2
<1>5. Faithful(m, tr) => Faithful(n, tr2)
  <2> SUFFICES ASSUME Faithful(m, tr) PROVE Faithful(n, tr2)
    OBVIOUS
  <2>0. /\ CleanFree(m, tr) /\ Logged(m.cells, tr.log) /\ InFlightTrue(m.cells, tr)
        /\ Tracked(m, tr) /\ PairsTold(m.copies, tr.races) /\ HazardsReal(m.hazards, tr.races)
        /\ RangesCover(m.ranges, tr.log) /\ LaterTold(m.hazards, tr.races)
    BY DEF Faithful
  <2>1. /\ n.cells = m.cells /\ n.hazards = m.hazards /\ n.ranges = m.ranges
        /\ tr2.log = tr.log /\ tr2.races = tr.races
    BY <1>3, <1>4 DEF Committed, Closes
  <2>2. /\ CleanFree(n, tr2) /\ Logged(n.cells, tr2.log) /\ HazardsReal(n.hazards, tr2.races)
        /\ RangesCover(n.ranges, tr2.log) /\ LaterTold(n.hazards, tr2.races)
    BY <2>0, <2>1 DEF CleanFree
  <2>3. Tracked(n, tr2)
    BY <1>1, <1>3, <1>4, <2>0, CloseTracked
  <2>4. InFlightTrue(n.cells, tr2)
    <3>1. \A v \in Threads : InFlightOf(tr2, v) = InFlightOf(tr, v)
      BY <1>1, <1>4, ClosesInFlight
    <3>2. \A b \in Bytes : \A w \in m.cells[b].writer : w.thread \in Threads
      BY <1>1, CellsTyped DEF Cells, Touches
    <3> QED BY <2>0, <2>1, <3>1, <3>2 DEF InFlightTrue
  <2>5. PairsTold(n.copies, tr2.races)
    <3>1. \A i \in 1..Len(m.copies) :
             n.copies[i].bytes = m.copies[i].bytes /\ n.copies[i].touch = m.copies[i].touch
      <4>1. \A c, g : CopyOf(EntryOf(c), g).bytes = c.bytes /\ CopyOf(EntryOf(c), g).touch = c.touch
        BY DEF CopyOf, EntryOf
      <4> QED BY <1>3, <4>1 DEF Committed
    <3>2. Len(n.copies) = Len(m.copies)
      BY <1>3 DEF Committed
    <3> SUFFICES ASSUME NEW i \in 1..Len(n.copies), NEW j \in 1..Len(n.copies), i < j,
                        n.copies[i].bytes \cap n.copies[j].bytes # {},
                        n.copies[i].touch.thread # n.copies[j].touch.thread
                 PROVE  Conflict(n.copies[i].touch, n.copies[j].touch) \subseteq tr.races
      BY <2>1 DEF PairsTold
    <3>3. i \in 1..Len(m.copies) /\ j \in 1..Len(m.copies)
      BY <3>2
    <3>4. /\ n.copies[i].bytes = m.copies[i].bytes /\ n.copies[i].touch = m.copies[i].touch
          /\ n.copies[j].bytes = m.copies[j].bytes /\ n.copies[j].touch = m.copies[j].touch
      BY <3>1, <3>3
    <3>5. Conflict(m.copies[i].touch, m.copies[j].touch) \subseteq tr.races
      BY <2>0, <3>3, <3>4 DEF PairsTold
    <3> QED BY <3>4, <3>5
  <2> QED BY <2>2, <2>3, <2>4, <2>5 DEF Faithful
<1>6. Held(s, n, tr2) \in Sound /\ (Good(Held(s, n, tr2)) <=> Faithful(n, tr2))
  BY <1>3, <1>4, HeldSound
<1>7. Good(s) <=> Faithful(m, tr)
  BY SoundParts DEF m, tr
<1> QED BY <1>2, <1>5, <1>6, <1>7

-----------------------------------------------------------------------------
(* A thread waits for its copies *)

(* A copy of t's, in a group before keepFrom.                              *)
Done(c, t, keepFrom) == c.touch.thread = t /\ c.group # 0 /\ c.group < keepFrom

(* The copies that stay, in their order.                                   *)
Stays(copies, k, t, keepFrom, q) ==
    /\ q \in Seq(CopySet)
    /\ \A i \in 1..Len(q) : \E p \in 1..k : ~Done(copies[p], t, keepFrom) /\ q[i] = copies[p]
    /\ \A p \in 1..k : ~Done(copies[p], t, keepFrom) => \E i \in 1..Len(q) : q[i] = copies[p]
    /\ \A i, j \in 1..Len(q) : i < j =>
          \E p, r \in 1..k : p < r /\ q[i] = copies[p] /\ q[j] = copies[r]

LEMMA StaysOn ==
    ASSUME NEW copies \in Seq(CopySet), NEW k \in 1..Len(copies), NEW t, NEW keepFrom,
           NEW q, Stays(copies, k - 1, t, keepFrom, q)
    PROVE  /\ Done(copies[k], t, keepFrom) => Stays(copies, k, t, keepFrom, q)
           /\ ~Done(copies[k], t, keepFrom) => Stays(copies, k, t, keepFrom, Append(q, copies[k]))
<1>0. Len(copies) \in Nat /\ copies[k] \in CopySet
  BY LenProperties, ElementOfSeq
<1>1. /\ q \in Seq(CopySet)
      /\ \A i \in 1..Len(q) : \E p \in 1..(k - 1) : ~Done(copies[p], t, keepFrom) /\ q[i] = copies[p]
      /\ \A p \in 1..(k - 1) : ~Done(copies[p], t, keepFrom) => \E i \in 1..Len(q) : q[i] = copies[p]
      /\ \A i, j \in 1..Len(q) : i < j =>
            \E p, r \in 1..(k - 1) : p < r /\ q[i] = copies[p] /\ q[j] = copies[r]
  BY DEF Stays
<1>2. 1..(k - 1) \subseteq 1..k /\ \A p \in 1..k : p \in 1..(k - 1) \/ p = k
  BY <1>0
<1>3. ASSUME Done(copies[k], t, keepFrom) PROVE Stays(copies, k, t, keepFrom, q)
  <2>1. \A i \in 1..Len(q) : \E p \in 1..k : ~Done(copies[p], t, keepFrom) /\ q[i] = copies[p]
    BY <1>1, <1>2
  <2>2. \A p \in 1..k : ~Done(copies[p], t, keepFrom) => \E i \in 1..Len(q) : q[i] = copies[p]
    BY <1>1, <1>2, <1>3
  <2>3. \A i, j \in 1..Len(q) : i < j =>
           \E p, r \in 1..k : p < r /\ q[i] = copies[p] /\ q[j] = copies[r]
    BY <1>1, <1>2
  <2> QED BY <1>1, <2>1, <2>2, <2>3 DEF Stays
<1>4. ASSUME ~Done(copies[k], t, keepFrom)
      PROVE  Stays(copies, k, t, keepFrom, Append(q, copies[k]))
  <2> DEFINE z == Append(q, copies[k])
             L == Len(q)
  <2>1. /\ z \in Seq(CopySet) /\ Len(z) = L + 1 /\ L \in Nat
        /\ z[L + 1] = copies[k] /\ \A i \in 1..L : z[i] = q[i]
    BY <1>0, <1>1, AppendProperties, LenProperties
  <2> HIDE DEF z
  <2>2. \A i \in 1..Len(z) : i \in 1..L \/ i = L + 1
    BY <2>1
  <2>3. \A i \in 1..Len(z) : \E p \in 1..k : ~Done(copies[p], t, keepFrom) /\ z[i] = copies[p]
    <3> SUFFICES ASSUME NEW i \in 1..Len(z)
                 PROVE  \E p \in 1..k : ~Done(copies[p], t, keepFrom) /\ z[i] = copies[p]
      OBVIOUS
    <3>1. CASE i = L + 1
      BY <1>4, <2>1, <3>1
    <3>2. CASE i \in 1..L
      <4>1. z[i] = q[i]
        BY <2>1, <3>2
      <4> QED BY <1>1, <1>2, <3>2, <4>1
    <3> QED BY <2>2, <3>1, <3>2
  <2>4. \A p \in 1..k : ~Done(copies[p], t, keepFrom) => \E i \in 1..Len(z) : z[i] = copies[p]
    <3> SUFFICES ASSUME NEW p \in 1..k, ~Done(copies[p], t, keepFrom)
                 PROVE  \E i \in 1..Len(z) : z[i] = copies[p]
      OBVIOUS
    <3>1. CASE p = k
      BY <2>1, <3>1
    <3>2. CASE p # k
      <4>1. PICK i \in 1..L : q[i] = copies[p]
        BY <1>1, <1>2, <3>2
      <4> QED BY <2>1, <4>1
    <3> QED BY <3>1, <3>2
  <2>5. ASSUME NEW i \in 1..Len(z), NEW j \in 1..Len(z), i < j
        PROVE  \E p, r \in 1..k : p < r /\ z[i] = copies[p] /\ z[j] = copies[r]
    <3>1. i \in 1..L /\ z[i] = q[i]
      BY <2>1, <2>5
    <3>2. CASE j = L + 1
      <4>1. PICK p \in 1..(k - 1) : q[i] = copies[p]
        BY <1>1, <3>1
      <4>2. p \in 1..k /\ k \in 1..k /\ p < k /\ z[j] = copies[k]
        BY <2>1, <3>2, <4>1
      <4> QED BY <3>1, <4>1, <4>2
    <3>3. CASE j # L + 1
      <4>1. j \in 1..L /\ z[j] = q[j]
        BY <2>1, <2>2, <3>3
      <4> QED BY <1>1, <1>2, <2>5, <3>1, <4>1
    <3> QED BY <3>2, <3>3
  <2>6. Stays(copies, k, t, keepFrom, z)
    BY <2>1, <2>3, <2>4, <2>5 DEF Stays
  <2> QED BY <2>6 DEF z
<1> QED BY <1>3, <1>4

Waited(m, t, keepFrom, n) ==
    /\ n.hazards = m.hazards /\ n.ranges = m.ranges /\ n.reached = m.reached
    /\ n.groups = m.groups
    /\ Stays(m.copies, Len(m.copies), t, keepFrom, n.copies)
    /\ \A b \in Bytes :
          LET c == m.cells[b]
              d == n.cells[b]
          IN  /\ d.writer = c.writer /\ d.reader = c.reader /\ d.other = c.other /\ d.far = c.far
              /\ d.inFlight => c.inFlight
              /\ d.inFlight => \A i \in 1..Len(m.copies) :
                    Done(m.copies[i], t, keepFrom) => b \notin m.copies[i].bytes

IsLeft(copies, t, keepFrom, a) ==
    a = [n \in 0..Len(copies) |->
           IF n = 0 THEN << >>
           ELSE IF Done(copies[n], t, keepFrom) THEN a[n - 1] ELSE Append(a[n - 1], copies[n])]

LEMMA LeftExists ==
    ASSUME NEW copies \in Seq(CopySet), NEW t, NEW keepFrom
    PROVE  \E a : IsLeft(copies, t, keepFrom, a)
<1> DEFINE k == Len(copies)
           S == Seq(CopySet)
           Step(x, i) == IF Done(copies[i], t, keepFrom) THEN x ELSE Append(x, copies[i])
           F == [i \in 1..k |-> [x \in S |-> Step(x, i)]]
<1>1. k \in Nat /\ << >> \in S
  BY LenProperties, EmptySeq
<1>2. \A i \in 1..k, x \in S : Step(x, i) \in S
  <2> SUFFICES ASSUME NEW i \in 1..k, NEW x \in S PROVE Step(x, i) \in S
    OBVIOUS
  <2>1. copies[i] \in CopySet
    BY ElementOfSeq
  <2> QED BY <2>1, AppendProperties
<1> HIDE DEF S
<1>3. PICK f \in [0..k -> S] : f[0] = << >> /\ \A i \in 1..k : f[i] = F[i][f[i - 1]]
  <2>1. F \in [1..k -> [S -> S]]
    BY <1>2
  <2> HIDE DEF F
  <2>2. Turns(F, k, S)
    BY <2>1 DEF Turns
  <2>3. InTurn(F, k, S, << >>)
    BY <1>1, <2>2, FoldExists
  <2> QED BY <2>3 DEF InTurn
<1>4. ASSUME NEW n \in 1..k PROVE f[n] = Step(f[n - 1], n)
  <2>1. n - 1 \in 0..k
    BY <1>1
  <2>2. f[n - 1] \in S /\ f[n] = F[n][f[n - 1]]
    BY <1>3, <2>1
  <2> HIDE DEF Step
  <2> QED BY <2>2
<1>5. ASSUME NEW n \in 0..k
      PROVE  f[n] = IF n = 0 THEN << >>
                    ELSE IF Done(copies[n], t, keepFrom) THEN f[n - 1]
                                                         ELSE Append(f[n - 1], copies[n])
  <2>1. CASE n = 0
    BY <1>3, <2>1
  <2>2. CASE n # 0
    <3>1. n \in 1..k
      BY <1>1, <2>2
    <3> QED BY <1>4, <2>2, <3>1
  <2> QED BY <2>1, <2>2
<1>6. IsLeft(copies, t, keepFrom, f)
  BY <1>3, <1>5 DEF IsLeft
<1> QED BY <1>6

LEMMA LeftStays ==
    ASSUME NEW copies \in Seq(CopySet), NEW t, NEW keepFrom,
           NEW left, IsLeft(copies, t, keepFrom, left)
    PROVE  Stays(copies, Len(copies), t, keepFrom, left[Len(copies)])
<1> DEFINE k == Len(copies)
           T == {i \in 0..k : Stays(copies, i, t, keepFrom, left[i])}
<1>1. k \in Nat
  BY LenProperties
<1>2. \A n \in 0..k :
         left[n] = IF n = 0 THEN << >>
                   ELSE IF Done(copies[n], t, keepFrom) THEN left[n - 1]
                                                        ELSE Append(left[n - 1], copies[n])
  BY DEF IsLeft
<1>3. 0 \in T
  <2>1. left[0] = << >>
    BY <1>1, <1>2
  <2>2. Stays(copies, 0, t, keepFrom, << >>)
    <3>1. << >> \in Seq(CopySet) /\ Len(<< >>) = 0
      BY EmptySeq
    <3> QED BY <3>1 DEF Stays
  <2> QED BY <1>1, <2>1, <2>2
<1>4. ASSUME NEW i \in 1..k, i - 1 \in T PROVE i \in T
  <2>1. i \in 0..k /\ i - 1 \in 0..k /\ i # 0 /\ Stays(copies, i - 1, t, keepFrom, left[i - 1])
    BY <1>1, <1>4
  <2>2. left[i] = IF Done(copies[i], t, keepFrom) THEN left[i - 1]
                                                  ELSE Append(left[i - 1], copies[i])
    BY <1>2, <2>1
  <2>3. /\ Done(copies[i], t, keepFrom) => Stays(copies, i, t, keepFrom, left[i - 1])
        /\ ~Done(copies[i], t, keepFrom) =>
              Stays(copies, i, t, keepFrom, Append(left[i - 1], copies[i]))
    BY <2>1, StaysOn
  <2>4. Stays(copies, i, t, keepFrom, left[i])
    BY <2>2, <2>3
  <2> QED BY <2>1, <2>4
<1>5. \A i \in 0..k : i \in T
  <2> HIDE DEF T
  <2> QED BY <1>1, <1>3, <1>4, UpTo
<1>6. k \in 0..k
  BY <1>1
<1>7. k \in T
  BY <1>5, <1>6
<1> QED BY <1>7

LEMMA WaitParts ==
    ASSUME NEW m \in Memories, CellsOk(m), NEW t \in Threads, NEW pending \in Nat,
           NEW n, n = Wait(m, t, pending)
    PROVE  n \in Memories /\ CellsOk(n) /\ Waited(m, t, KeepFrom(m.groups[t], pending), n)
<1> DEFINE keepFrom == KeepFrom(m.groups[t], pending)
           done(copy) == /\ copy.touch.thread = t
                         /\ copy.group # 0 /\ copy.group < keepFrom
           bytes == UNION {c.bytes : c \in {d \in Range(m.copies) : done(d)}}
           left[k \in 0 .. Len(m.copies)] ==
             IF k = 0 THEN << >>
             ELSE IF done(m.copies[k]) THEN left[k - 1]
                                       ELSE Append(left[k - 1], m.copies[k])
           cells == [b \in Bytes |-> [m.cells[b] EXCEPT !.inFlight = @ /\ b \notin bytes]]
<1>1. n = [m EXCEPT !.copies = left[Len(m.copies)], !.cells = cells]
  BY DEF Wait
<1>2. m.copies \in Seq(CopySet)
  BY DEF Memories
<1>3. PICK q : q = left[Len(m.copies)] /\ Stays(m.copies, Len(m.copies), t, keepFrom, q)
  <2>1. left = CHOOSE a : IsLeft(m.copies, t, keepFrom, a)
    BY DEF IsLeft, Done
  <2>2. IsLeft(m.copies, t, keepFrom, left)
    <3> HIDE DEF left
    <3> QED BY <1>2, <2>1, LeftExists
  <2> HIDE DEF left
  <2>3. Stays(m.copies, Len(m.copies), t, keepFrom, left[Len(m.copies)])
    BY <1>2, <2>2, LeftStays
  <2> QED BY <2>3
<1>4. \A i \in 1..Len(m.copies) : Done(m.copies[i], t, keepFrom) => m.copies[i].bytes \subseteq bytes
  <2> SUFFICES ASSUME NEW i \in 1..Len(m.copies), Done(m.copies[i], t, keepFrom)
               PROVE  m.copies[i].bytes \subseteq bytes
    OBVIOUS
  <2>1. m.copies[i] \in Range(m.copies)
    BY <1>2, RangeIn
  <2>2. done(m.copies[i])
    BY DEF Done
  <2> HIDE DEF done
  <2> QED BY <2>1, <2>2
<1>5. n = [m EXCEPT !.copies = q, !.cells = cells]
  <2> HIDE DEF left, cells
  <2> QED BY <1>1, <1>3
<1> HIDE DEF bytes, left, done, keepFrom
<1>6. ASSUME NEW b \in Bytes
      PROVE  /\ cells[b] \in Cells
             /\ cells[b].writer = m.cells[b].writer /\ cells[b].reader = m.cells[b].reader
             /\ cells[b].other = m.cells[b].other /\ cells[b].far = m.cells[b].far
             /\ cells[b].inFlight => m.cells[b].inFlight
             /\ cells[b].inFlight => b \notin bytes
  <2>1. m.cells[b] \in Cells
    BY CellsTyped
  <2>2. cells[b] = [m.cells[b] EXCEPT !.inFlight = m.cells[b].inFlight /\ b \notin bytes]
    OBVIOUS
  <2> HIDE DEF cells
  <2>3. PICK x \in BOOLEAN : x <=> m.cells[b].inFlight /\ b \notin bytes
    OBVIOUS
  <2>4. cells[b] = [m.cells[b] EXCEPT !.inFlight = x]
    BY <2>1, <2>2, <2>3 DEF Cells
  <2>5. /\ cells[b] \in Cells /\ cells[b].inFlight = x
        /\ cells[b].writer = m.cells[b].writer /\ cells[b].reader = m.cells[b].reader
        /\ cells[b].other = m.cells[b].other /\ cells[b].far = m.cells[b].far
    BY <2>1, <2>4 DEF Cells
  <2> QED BY <2>3, <2>5
<1>7. cells \in [Bytes -> Cells]
  <2>1. cells = [b \in Bytes |-> cells[b]]
    OBVIOUS
  <2> HIDE DEF cells
  <2> QED BY <1>6, <2>1
<1> HIDE DEF cells
<1>8. /\ n.hazards = m.hazards /\ n.ranges = m.ranges /\ n.reached = m.reached
      /\ n.groups = m.groups /\ n.copies = q /\ n.cells = cells
  BY <1>5 DEF Memories
<1>9. n \in Memories
  <2>1. q \in Seq(CopySet)
    BY <1>3 DEF Stays
  <2> QED BY <1>5, <1>7, <2>1 DEF Memories
<1>10. CellsOk(n)
  <2> SUFFICES ASSUME NEW b \in Bytes
               PROVE  CellOk(n.cells[b]) /\ (~IsEmpty(n.cells[b]) => b \in n.reached)
    BY DEF CellsOk
  <2>1. CellOk(m.cells[b]) /\ (~IsEmpty(m.cells[b]) => b \in m.reached)
    BY DEF CellsOk
  <2>2. n.cells[b] = cells[b]
    BY <1>8
  <2> QED BY <1>6, <1>8, <2>1, <2>2 DEF CellOk, IsEmpty
<1>11. Waited(m, t, keepFrom, n)
  <2>1. \A b \in Bytes :
          LET c == m.cells[b]
              d == n.cells[b]
          IN  /\ d.writer = c.writer /\ d.reader = c.reader /\ d.other = c.other /\ d.far = c.far
              /\ d.inFlight => c.inFlight
              /\ d.inFlight => \A i \in 1..Len(m.copies) :
                    Done(m.copies[i], t, keepFrom) => b \notin m.copies[i].bytes
    BY <1>4, <1>6, <1>8
  <2> QED BY <1>3, <1>8, <2>1 DEF Waited
<1> QED BY <1>9, <1>10, <1>11 DEF keepFrom

(* The first o of t's groups in flight are so no more.                     *)
Drops(tr, t, o, tr2) ==
    /\ tr2.log = tr.log /\ tr2.races = tr.races /\ tr2.open = tr.open
    /\ Len(tr2.groups[t]) = Len(tr.groups[t]) - o
    /\ \A k \in 1..(Len(tr.groups[t]) - o) : tr2.groups[t][k] = tr.groups[t][o + k]
    /\ \A v \in Threads : v # t => tr2.groups[v] = tr.groups[v]

(* z is what is left of q when its first o elements are dropped.           *)
IsRest(z, q, o, S) ==
    /\ z \in Seq(S) /\ Len(z) = Len(q) - o
    /\ \A k \in 1..(Len(q) - o) : z[k] = q[o + k]

LEMMA RestParts ==
    ASSUME NEW S, NEW q \in Seq(S), NEW L \in Nat, L = Len(q), NEW o \in 0..L,
           NEW z, z = SubSeq(q, o + 1, L)
    PROVE  IsRest(z, q, o, S)
<1>1. \A i \in (o + 1)..L : q[i] \in S
  <2> SUFFICES ASSUME NEW i \in (o + 1)..L PROVE q[i] \in S
    OBVIOUS
  <2>1. i \in 1..Len(q)
    OBVIOUS
  <2> QED BY <2>1, ElementOfSeq
<1>2. o + 1 \in Int /\ L \in Int
  OBVIOUS
<1>3. /\ z \in Seq(S)
      /\ Len(z) = IF o + 1 <= L THEN L - (o + 1) + 1 ELSE 0
      /\ \A i \in 1 .. L - (o + 1) + 1 : z[i] = q[(o + 1) + i - 1]
  BY <1>1, <1>2, SubSeqProperties
<1>4. ASSUME NEW k \in 1..(L - o) PROVE z[k] = q[o + k]
  <2>1. k \in 1 .. L - (o + 1) + 1 /\ (o + 1) + k - 1 = o + k
    OBVIOUS
  <2> QED BY <1>3, <2>1
<1>5. Len(z) = L - o
  BY <1>3
<1> QED BY <1>3, <1>4, <1>5 DEF IsRest

LEMMA DropParts ==
    ASSUME NEW tr \in Truths, NEW t \in Threads, NEW L \in Nat, L = Len(tr.groups[t]),
           NEW o \in 0..L, NEW z, IsRest(z, tr.groups[t], o, SUBSET Entries),
           NEW tr2, tr2 = [tr EXCEPT !.groups[t] = z]
    PROVE  tr2 \in Truths /\ Drops(tr, t, o, tr2)
<1>1. tr.groups[t] \in Seq(SUBSET Entries)
  BY DEF Truths
<1>2. /\ z \in Seq(SUBSET Entries) /\ Len(z) = L - o
      /\ \A k \in 1..(L - o) : z[k] = tr.groups[t][o + k]
  BY DEF IsRest
<1>3. tr2 = [tr EXCEPT !.groups = [tr.groups EXCEPT ![t] = z]]
  BY DEF Truths
<1>4. tr2 \in Truths
  <2>1. [tr.groups EXCEPT ![t] = z] \in [Threads -> Seq(SUBSET Entries)]
    BY <1>2 DEF Truths
  <2> QED BY <1>3, <2>1 DEF Truths
<1>5. /\ tr2.log = tr.log /\ tr2.races = tr.races /\ tr2.open = tr.open
      /\ tr2.groups[t] = z /\ \A v \in Threads : v # t => tr2.groups[v] = tr.groups[v]
  BY <1>3 DEF Truths
<1> QED BY <1>2, <1>4, <1>5 DEF Drops

(* Which copies a wait lets go: with a groups done before, and L in        *)
(* flight, those of the first o of these.                                  *)
WhichGo(a, L, o, keepFrom) ==
    \A k \in 1..L : /\ a + k # 0
                    /\ a + k < keepFrom => k <= o
                    /\ k <= o => a + k < keepFrom

LEMMA WhichStay ==
    ASSUME NEW G \in Nat, NEW L \in Nat, L <= G, NEW pending \in Nat, NEW L2,
           L2 = (IF L > pending THEN pending ELSE L)
    PROVE  /\ L2 \in 0..L /\ L - L2 \in 0..L /\ G - L \in Nat
           /\ WhichGo(G - L, L, L - L2, KeepFrom(G, pending))
<1>1. CASE L > pending
  BY <1>1 DEF KeepFrom, WhichGo
<1>2. CASE ~(L > pending)
  <2>1. CASE G > pending
    BY <1>2, <2>1 DEF KeepFrom, WhichGo
  <2>2. CASE ~(G > pending)
    BY <1>2, <2>2 DEF KeepFrom, WhichGo
  <2> QED BY <2>1, <2>2
<1> QED BY <1>1, <1>2

(* Where a group is after the first o are gone.                            *)
LEMMA Shift ==
    ASSUME NEW L \in Nat, NEW o \in 0..L, NEW a \in Nat
    PROVE  /\ \A k \in 1..L : k > o => k - o \in 1..(L - o) /\ o + (k - o) = k
           /\ \A k \in 1..(L - o) : o + k \in 1..L /\ o + k > o
           /\ \A g \in Nat : g - (a + o) = (g - a) - o /\ a + (g - a) = g
           /\ \A k \in 1..(L - o) : a + (o + k) = (a + o) + k
           /\ (a + L) - L = a /\ (a + L) - (L - o) = a + o
OBVIOUS

Waiting(m, t, a, L, o, keepFrom, n, tr, tr2) ==
    /\ L = Len(tr.groups[t]) /\ m.groups[t] = a + L /\ WhichGo(a, L, o, keepFrom)
    /\ Waited(m, t, keepFrom, n) /\ Drops(tr, t, o, tr2)

LEMMA WaitKeeps ==
    ASSUME NEW m \in Memories, CellsOk(m), NEW t \in Threads,
           NEW tr \in Truths, NEW tr2 \in Truths, Tracked(m, tr),
           NEW a \in Nat, NEW L \in Nat, NEW o \in 0..L, NEW keepFrom,
           NEW n \in Memories, Waiting(m, t, a, L, o, keepFrom, n, tr, tr2)
    PROVE  /\ Tracked(n, tr2)
           /\ InFlightTrue(m.cells, tr) => InFlightTrue(n.cells, tr2)
<1> SUFFICES ASSUME L = Len(tr.groups[t]), m.groups[t] = a + L, WhichGo(a, L, o, keepFrom),
                    Waited(m, t, keepFrom, n), Drops(tr, t, o, tr2)
             PROVE  /\ Tracked(n, tr2)
                    /\ InFlightTrue(m.cells, tr) => InFlightTrue(n.cells, tr2)
  BY DEF Waiting
<1>2. /\ \A k \in 1..L : a + k # 0 /\ (a + k < keepFrom => k <= o) /\ (k <= o => a + k < keepFrom)
  BY DEF WhichGo
<1>3. /\ n.groups = m.groups
      /\ \A i \in 1..Len(n.copies) : \E p \in 1..Len(m.copies) :
            ~Done(m.copies[p], t, keepFrom) /\ n.copies[i] = m.copies[p]
      /\ \A p \in 1..Len(m.copies) : ~Done(m.copies[p], t, keepFrom) =>
            \E i \in 1..Len(n.copies) : n.copies[i] = m.copies[p]
  BY DEF Waited, Stays
<1>4. /\ tr2.log = tr.log /\ tr2.open = tr.open /\ Len(tr2.groups[t]) = L - o
      /\ \A k \in 1..(L - o) : tr2.groups[t][k] = tr.groups[t][o + k]
      /\ \A v \in Threads : v # t => tr2.groups[v] = tr.groups[v]
  BY DEF Drops
<1>5. /\ Closed(n, tr2, t) = a + o /\ Closed(m, tr, t) = a
      /\ \A v \in Threads : v # t => Closed(n, tr2, v) = Closed(m, tr, v)
  <2>1. Closed(n, tr2, t) = (a + L) - (L - o)
    BY <1>3, <1>4 DEF Closed
  <2>2. Closed(m, tr, t) = (a + L) - L
    BY DEF Closed
  <2>3. \A v \in Threads : v # t => Closed(n, tr2, v) = Closed(m, tr, v)
    BY <1>3, <1>4 DEF Closed
  <2>4. (a + L) - (L - o) = a + o /\ (a + L) - L = a
    BY Shift
  <2> QED BY <2>1, <2>2, <2>3, <2>4
<1>6. ASSUME NEW i \in 1..Len(n.copies), NEW c, c = n.copies[i]
      PROVE  /\ c.touch.exact /\ c.touch.write
             /\ \/ c.group = 0 /\ EntryOf(c) \in tr2.open[c.touch.thread]
                \/ /\ c.group - Closed(n, tr2, c.touch.thread) \in 1..Len(tr2.groups[c.touch.thread])
                   /\ EntryOf(c) \in tr2.groups[c.touch.thread][c.group - Closed(n, tr2, c.touch.thread)]
  <2>1. PICK p \in 1..Len(m.copies) : ~Done(m.copies[p], t, keepFrom) /\ c = m.copies[p]
    BY <1>3, <1>6
  <2>2. c.touch.thread \in Threads /\ c.group \in Nat
    BY <2>1, CopiesTyped DEF CopySet
  <2>3. /\ c.touch.exact /\ c.touch.write
        /\ \/ c.group = 0 /\ EntryOf(c) \in tr.open[c.touch.thread]
           \/ /\ c.group - Closed(m, tr, c.touch.thread) \in 1..Len(tr.groups[c.touch.thread])
              /\ EntryOf(c) \in tr.groups[c.touch.thread][c.group - Closed(m, tr, c.touch.thread)]
    BY <2>1 DEF Tracked
  <2>4. CASE c.touch.thread # t
    BY <1>4, <1>5, <2>2, <2>3, <2>4
  <2>5. CASE c.touch.thread = t /\ c.group = 0 /\ EntryOf(c) \in tr.open[t]
    BY <1>4, <2>3, <2>5
  <2>6. CASE /\ c.touch.thread = t /\ c.group - Closed(m, tr, t) \in 1..Len(tr.groups[t])
             /\ EntryOf(c) \in tr.groups[t][c.group - Closed(m, tr, t)]
    <3>1. PICK k \in 1..L : /\ k = c.group - a /\ c.group = a + k /\ EntryOf(c) \in tr.groups[t][k]
                            /\ c.group - (a + o) = k - o
      <4>1. c.group - a \in 1..L /\ EntryOf(c) \in tr.groups[t][c.group - a]
        BY <1>5, <2>6
      <4>2. PICK k \in 1..L : k = c.group - a
        BY <4>1
      <4>3. c.group = a + k
        <5>1. c.group \in Nat
          BY <2>2
        <5>2. a + (c.group - a) = c.group
          BY <5>1, Shift
        <5> QED BY <4>2, <5>2
      <4>4. c.group - (a + o) = k - o
        BY <4>3, Shift
      <4>5. EntryOf(c) \in tr.groups[t][k]
        BY <4>1, <4>2
      <4> QED BY <4>2, <4>3, <4>4, <4>5
    <3>2. k > o
      <4>1. a + k # 0 /\ (k <= o => a + k < keepFrom)
        BY <1>2
      <4>2. ~(c.group # 0 /\ c.group < keepFrom)
        BY <2>1, <2>6 DEF Done
      <4>3. ~(k <= o)
        <5>1. c.group = a + k
          BY <3>1
        <5> QED BY <4>1, <4>2, <5>1
      <4> QED BY <4>3
    <3>3. PICK x \in 1..(L - o) : x = k - o /\ o + x = k
      <4>1. k - o \in 1..(L - o) /\ o + (k - o) = k
        BY <3>2, Shift
      <4> QED BY <4>1
    <3>4. EntryOf(c) \in tr2.groups[t][x]
      BY <1>4, <3>1, <3>3
    <3>5. c.group - Closed(n, tr2, t) = x
      BY <1>5, <3>1, <3>3
    <3> QED BY <1>4, <2>3, <2>6, <3>3, <3>4, <3>5
  <2> QED BY <2>3, <2>4, <2>5, <2>6
<1>7. ASSUME NEW k \in 1..(L - o), NEW e \in tr2.groups[t][k]
      PROVE  /\ e.touch.thread = t
             /\ \E i \in 1..Len(n.copies) : n.copies[i] = CopyOf(e, Closed(n, tr2, t) + k)
  <2>1. PICK j \in 1..L : j = o + k /\ j > o /\ a + j = (a + o) + k
    BY Shift
  <2>2. e \in tr.groups[t][j]
    BY <1>4, <1>7, <2>1
  <2>3. PICK p \in 1..Len(m.copies) : e.touch.thread = t /\ m.copies[p] = CopyOf(e, a + j)
    <3>1. \A x \in 1..Len(tr.groups[t]) : \A d \in tr.groups[t][x] :
             /\ d.touch.thread = t
             /\ \E p \in 1..Len(m.copies) : m.copies[p] = CopyOf(d, Closed(m, tr, t) + x)
      BY DEF Tracked
    <3>2. j \in 1..Len(tr.groups[t]) /\ Closed(m, tr, t) = a
      BY <1>5
    <3>3. /\ e.touch.thread = t
          /\ \E p \in 1..Len(m.copies) : m.copies[p] = CopyOf(e, Closed(m, tr, t) + j)
      BY <2>2, <3>1, <3>2
    <3> QED BY <3>2, <3>3
  <2>4. ~Done(m.copies[p], t, keepFrom)
    BY <1>2, <2>1, <2>3 DEF Done, CopyOf
  <2>5. PICK i \in 1..Len(n.copies) : n.copies[i] = CopyOf(e, a + j)
    BY <1>3, <2>3, <2>4
  <2> QED BY <1>5, <2>1, <2>3, <2>5
<1>8. \A v \in Threads : InFlightOf(tr2, v) \subseteq InFlightOf(tr, v)
  <2> SUFFICES ASSUME NEW v \in Threads, NEW x \in InFlightOf(tr2, v) PROVE x \in InFlightOf(tr, v)
    OBVIOUS
  <2>1. CASE v # t
    BY <1>4, <2>1 DEF InFlightOf
  <2>2. CASE v = t
    <3>1. tr.groups[t] \in Seq(SUBSET Entries) /\ tr2.groups[t] \in Seq(SUBSET Entries)
      BY DEF Truths
    <3>2. CASE x \in tr.open[t]
      BY <2>2, <3>2 DEF InFlightOf
    <3>3. CASE x \notin tr.open[t]
      <4>1. PICK g \in Range(tr2.groups[t]) : x \in g
        BY <1>4, <2>2, <3>3 DEF InFlightOf
      <4>2. PICK k \in 1..Len(tr2.groups[t]) : g = tr2.groups[t][k]
        BY <3>1, <4>1, RangeIn
      <4>3. PICK j \in 1..L : g = tr.groups[t][j]
        <5>1. k \in 1..(L - o)
          BY <1>4
        <5>2. o + k \in 1..L
          BY <5>1, Shift
        <5>3. g = tr.groups[t][o + k]
          BY <1>4, <4>2, <5>1
        <5> QED BY <5>2, <5>3
      <4>4. g \in Range(tr.groups[t])
        BY <3>1, <4>3, RangeIn
      <4> QED BY <2>2, <4>1, <4>4 DEF InFlightOf
    <3> QED BY <3>2, <3>3
  <2> QED BY <2>1, <2>2
<1>9. ASSUME NEW v \in Threads
      PROVE  /\ Len(tr2.groups[v]) <= n.groups[v]
             /\ \A e \in tr2.open[v] :
                   e.touch.thread = v /\ \E i \in 1..Len(n.copies) : n.copies[i] = CopyOf(e, 0)
             /\ \A k \in 1..Len(tr2.groups[v]) : \A e \in tr2.groups[v][k] :
                   /\ e.touch.thread = v
                   /\ \E i \in 1..Len(n.copies) : n.copies[i] = CopyOf(e, Closed(n, tr2, v) + k)
             /\ InFlightOf(tr2, v) \subseteq tr2.log
  <2>1. /\ Len(tr.groups[v]) <= m.groups[v]
        /\ \A e \in tr.open[v] :
              e.touch.thread = v /\ \E i \in 1..Len(m.copies) : m.copies[i] = CopyOf(e, 0)
        /\ \A k \in 1..Len(tr.groups[v]) : \A e \in tr.groups[v][k] :
              /\ e.touch.thread = v
              /\ \E i \in 1..Len(m.copies) : m.copies[i] = CopyOf(e, Closed(m, tr, v) + k)
        /\ InFlightOf(tr, v) \subseteq tr.log
    BY DEF Tracked
  <2>2. InFlightOf(tr2, v) \subseteq tr2.log
    BY <1>4, <1>8, <2>1
  <2>3. \A e, g : CopyOf(e, g).touch = e.touch /\ CopyOf(e, g).group = g
    BY DEF CopyOf
  <2>4. \A e \in tr2.open[v] :
           e.touch.thread = v /\ \E i \in 1..Len(n.copies) : n.copies[i] = CopyOf(e, 0)
    <3> SUFFICES ASSUME NEW e \in tr.open[v]
                 PROVE  e.touch.thread = v /\ \E i \in 1..Len(n.copies) : n.copies[i] = CopyOf(e, 0)
      BY <1>4
    <3>1. PICK p \in 1..Len(m.copies) : e.touch.thread = v /\ m.copies[p] = CopyOf(e, 0)
      BY <2>1
    <3>2. ~Done(m.copies[p], t, keepFrom)
      BY <2>3, <3>1 DEF Done
    <3> QED BY <1>3, <3>1, <3>2
  <2>5. CASE v # t
    <3>1. Len(tr2.groups[v]) <= n.groups[v]
      BY <1>3, <1>4, <2>1, <2>5
    <3>2. ASSUME NEW k \in 1..Len(tr2.groups[v]), NEW e \in tr2.groups[v][k]
          PROVE  /\ e.touch.thread = v
                 /\ \E i \in 1..Len(n.copies) : n.copies[i] = CopyOf(e, Closed(n, tr2, v) + k)
      <4>1. PICK p \in 1..Len(m.copies) :
               e.touch.thread = v /\ m.copies[p] = CopyOf(e, Closed(m, tr, v) + k)
        BY <1>4, <2>1, <2>5, <3>2
      <4>2. ~Done(m.copies[p], t, keepFrom)
        BY <2>3, <2>5, <4>1 DEF Done
      <4>3. Closed(n, tr2, v) = Closed(m, tr, v)
        BY <1>5, <2>5
      <4> QED BY <1>3, <4>1, <4>2, <4>3
    <3> QED BY <2>2, <2>4, <3>1, <3>2
  <2>6. CASE v = t
    <3>1. Len(tr2.groups[t]) = L - o /\ L - o <= n.groups[t]
      BY <1>3, <1>4
    <3> QED BY <1>7, <2>2, <2>4, <2>6, <3>1
  <2> QED BY <2>5, <2>6
<1>10. Tracked(n, tr2)
  BY <1>6, <1>9 DEF Tracked
<1>11. ASSUME InFlightTrue(m.cells, tr),
              NEW b \in Bytes, n.cells[b].inFlight, NEW w \in n.cells[b].writer
       PROVE  \E d \in InFlightOf(tr2, w.thread) : d.touch = w /\ b \in d.bytes
  <2>1. /\ n.cells[b].writer = m.cells[b].writer /\ m.cells[b].inFlight
        /\ \A i \in 1..Len(m.copies) :
              Done(m.copies[i], t, keepFrom) => b \notin m.copies[i].bytes
    BY <1>11 DEF Waited
  <2>2. PICK d \in InFlightOf(tr, w.thread) : d.touch = w /\ b \in d.bytes
    BY <1>11, <2>1 DEF InFlightTrue
  <2>3. w.thread \in Threads
    BY <1>11, <2>1, CellsTyped DEF Cells, Touches
  <2>4. CASE w.thread # t \/ d \in tr.open[w.thread]
    <3>1. d \in InFlightOf(tr2, w.thread)
      BY <1>4, <2>2, <2>3, <2>4 DEF InFlightOf
    <3> QED BY <2>2, <3>1
  <2>5. CASE w.thread = t /\ d \notin tr.open[t]
    <3>1. tr.groups[t] \in Seq(SUBSET Entries) /\ tr2.groups[t] \in Seq(SUBSET Entries)
      BY DEF Truths
    <3>2. PICK g \in Range(tr.groups[t]) : d \in g
      BY <2>2, <2>5 DEF InFlightOf
    <3>3. PICK k \in 1..L : g = tr.groups[t][k]
      BY <3>1, <3>2, RangeIn
    <3>4. PICK p \in 1..Len(m.copies) : d.touch.thread = t /\ m.copies[p] = CopyOf(d, a + k)
      <4>1. \A x \in 1..Len(tr.groups[t]) : \A f \in tr.groups[t][x] :
               /\ f.touch.thread = t
               /\ \E p \in 1..Len(m.copies) : m.copies[p] = CopyOf(f, Closed(m, tr, t) + x)
        BY DEF Tracked
      <4>2. k \in 1..Len(tr.groups[t]) /\ Closed(m, tr, t) = a /\ d \in tr.groups[t][k]
        BY <1>5, <3>2, <3>3
      <4>3. /\ d.touch.thread = t
            /\ \E p \in 1..Len(m.copies) : m.copies[p] = CopyOf(d, Closed(m, tr, t) + k)
        BY <4>1, <4>2
      <4> QED BY <4>2, <4>3
    <3>5. /\ m.copies[p].touch = w /\ m.copies[p].bytes = d.bytes
          /\ m.copies[p].group = a + k
      BY <2>2, <3>4 DEF CopyOf
    <3>6. ~Done(m.copies[p], t, keepFrom)
      BY <2>1, <2>2, <3>5
    <3>7. k > o
      BY <1>2, <2>5, <3>5, <3>6 DEF Done
    <3>8. PICK x \in 1..(L - o) : x = k - o /\ o + x = k
      BY <3>7, Shift
    <3>9. tr2.groups[t][x] = g
      BY <1>4, <3>3, <3>8
    <3>10. g \in Range(tr2.groups[t])
      BY <1>4, <3>1, <3>8, <3>9, RangeIn
    <3>11. d \in InFlightOf(tr2, t)
      BY <3>2, <3>10 DEF InFlightOf
    <3> QED BY <2>2, <2>5, <3>11
  <2> QED BY <2>4, <2>5
<1> QED BY <1>10, <1>11 DEF InFlightTrue

LEMMA WaitSound ==
    ASSUME NEW s \in Sound, NEW op \in Ops, NEW t \in Threads, NEW turn,
           NEW r, r = AsyncWait(s, op, t, turn)
    PROVE  r \in Sound /\ (Good(s) => Good(r))
<1> DEFINE m == s.check.mem
           tr == s.truth
           q == tr.groups[t]
           L == Len(q)
           G == m.groups[t]
           L2 == IF L > op.n THEN op.n ELSE L
           n == Wait(m, t, op.n)
           tr2 == [tr EXCEPT !.groups[t] = SubSeq(q, L - L2 + 1, L)]
           keepFrom == KeepFrom(G, op.n)
<1>1. m \in Memories /\ CellsOk(m) /\ tr \in Truths /\ op.n \in Nat
  BY SoundParts DEF Ops, OpSet
<1>2. r = Held(s, n, tr2)
  <2>1. r = [s EXCEPT !.check.mem = n, !.truth.groups[t] = SubSeq(q, L - L2 + 1, L)]
    BY DEF AsyncWait
  <2> HIDE DEF n, L2
  <2> QED BY <2>1 DEF Held, Sound, States, Checks, Truths
<1>3. L \in Nat /\ G \in Nat
  <2>1. q \in Seq(SUBSET Entries) /\ m.groups \in [Threads -> Nat]
    BY <1>1 DEF Truths, Memories
  <2> HIDE DEF q
  <2> QED BY <2>1, LenProperties
<1>4. n \in Memories /\ CellsOk(n) /\ Waited(m, t, keepFrom, n)
  <2> HIDE DEF m
  <2> QED BY <1>1, WaitParts
<1>5. PICK z : z = SubSeq(q, L - L2 + 1, L)
  OBVIOUS
<1>6. tr2 = [tr EXCEPT !.groups[t] = z]
  BY <1>5
<1> HIDE DEF tr2, n
<1>7. L2 \in 0..L
  BY <1>1, <1>3
<1>8. PICK o \in 0..L : o = L - L2
  <2> HIDE DEF L2, L
  <2> QED BY <1>3, <1>7
<1>9. tr2 \in Truths /\ Drops(tr, t, o, tr2)
  <2>0. IsRest(z, q, o, SUBSET Entries)
    <3>1. z = SubSeq(q, o + 1, L)
      BY <1>5, <1>8
    <3>2. q \in Seq(SUBSET Entries) /\ L = Len(q)
      BY <1>1 DEF Truths
    <3> HIDE DEF L, L2, q
    <3> QED BY <1>3, <3>1, <3>2, RestParts
  <2>1. IsRest(z, tr.groups[t], o, SUBSET Entries)
    BY <2>0
  <2>2. L = Len(q)
    OBVIOUS
  <2> HIDE DEF L, L2
  <2> QED BY <1>1, <1>3, <1>6, <2>1, <2>2, DropParts
<1>10. Tracked(m, tr) => G - L \in Nat /\ WhichGo(G - L, L, o, keepFrom)
  <2>1. Tracked(m, tr) => L <= G
    BY DEF Tracked
  <2>2. L2 = IF L > op.n THEN op.n ELSE L
    OBVIOUS
  <2> HIDE DEF L, G, L2
  <2>3. keepFrom = KeepFrom(G, op.n)
    OBVIOUS
  <2> HIDE DEF keepFrom
  <2> QED BY <1>1, <1>3, <1>8, <2>1, <2>2, <2>3, WhichStay
<1> HIDE DEF m, tr, keepFrom, L, G, L2
<1>11. Faithful(m, tr) => Faithful(n, tr2)
  <2> SUFFICES ASSUME Faithful(m, tr) PROVE Faithful(n, tr2)
    OBVIOUS
  <2>0. /\ CleanFree(m, tr) /\ Logged(m.cells, tr.log) /\ InFlightTrue(m.cells, tr)
        /\ Tracked(m, tr) /\ PairsTold(m.copies, tr.races) /\ HazardsReal(m.hazards, tr.races)
        /\ RangesCover(m.ranges, tr.log) /\ LaterTold(m.hazards, tr.races)
    BY DEF Faithful
  <2>1. /\ n.hazards = m.hazards /\ n.ranges = m.ranges
        /\ tr2.log = tr.log /\ tr2.races = tr.races
    BY <1>4, <1>9 DEF Waited, Drops
  <2>2. \A b \in Bytes :
          LET c == m.cells[b]
              d == n.cells[b]
          IN  d.writer = c.writer /\ d.reader = c.reader /\ d.other = c.other /\ d.far = c.far
    BY <1>4 DEF Waited
  <2>3. CleanFree(n, tr2)
    <3>1. AllMarked(m.cells, tr.log) => AllMarked(n.cells, tr2.log)
      BY <2>1, <2>2 DEF AllMarked, Marked
    <3> QED BY <2>0, <2>1, <3>1 DEF CleanFree
  <2>4. Logged(n.cells, tr2.log)
    BY <2>0, <2>1, <2>2 DEF Logged, Known
  <2>5. HazardsReal(n.hazards, tr2.races) /\ RangesCover(n.ranges, tr2.log)
        /\ LaterTold(n.hazards, tr2.races)
    BY <2>0, <2>1
  <2>6. Tracked(n, tr2) /\ InFlightTrue(n.cells, tr2)
    <3>1. PICK a \in Nat : a = G - L /\ WhichGo(a, L, o, keepFrom)
      BY <1>10, <2>0
    <3>2. L = Len(tr.groups[t]) /\ m.groups[t] = a + L
      <4>1. G = a + L
        BY <1>3, <3>1
      <4> QED BY <4>1 DEF L, G
    <3>3. Tracked(m, tr) /\ InFlightTrue(m.cells, tr)
      BY <2>0
    <3>4. tr2 \in Truths /\ Drops(tr, t, o, tr2)
      BY <1>9
    <3>5. n \in Memories /\ Waited(m, t, keepFrom, n)
      BY <1>4
    <3>6. m \in Memories /\ CellsOk(m) /\ tr \in Truths
      BY <1>1
    <3>7. Waiting(m, t, a, L, o, keepFrom, n, tr, tr2)
      BY <3>1, <3>2, <3>4, <3>5 DEF Waiting
    <3> QED BY <1>3, <3>1, <3>3, <3>4, <3>5, <3>6, <3>7, WaitKeeps
  <2>7. PairsTold(n.copies, tr2.races)
    <3>1. \A i, j \in 1..Len(n.copies) : i < j =>
             \E p, x \in 1..Len(m.copies) : p < x /\ n.copies[i] = m.copies[p] /\ n.copies[j] = m.copies[x]
      BY <1>4 DEF Waited, Stays
    <3> SUFFICES ASSUME NEW i \in 1..Len(n.copies), NEW j \in 1..Len(n.copies), i < j,
                        n.copies[i].bytes \cap n.copies[j].bytes # {},
                        n.copies[i].touch.thread # n.copies[j].touch.thread
                 PROVE  Conflict(n.copies[i].touch, n.copies[j].touch) \subseteq tr.races
      BY <2>1 DEF PairsTold
    <3>2. PICK p \in 1..Len(m.copies), x \in 1..Len(m.copies) :
             p < x /\ n.copies[i] = m.copies[p] /\ n.copies[j] = m.copies[x]
      BY <3>1
    <3> QED BY <2>0, <3>2 DEF PairsTold
  <2> QED BY <2>3, <2>4, <2>5, <2>6, <2>7 DEF Faithful
<1>12. Held(s, n, tr2) \in Sound /\ (Good(Held(s, n, tr2)) <=> Faithful(n, tr2))
  BY <1>4, <1>9, HeldSound
<1>13. Good(s) <=> Faithful(m, tr)
  BY SoundParts DEF m, tr
<1> QED BY <1>2, <1>11, <1>12, <1>13

-----------------------------------------------------------------------------
(* A barrier *)

Cleaned(m) == [m EXCEPT !.cells = EmptyMemory.cells, !.reached = {}, !.ranges = {}]
IsAgain(m, a) ==
    a = [n \in 0..Len(m.copies) |->
           IF n = 0 THEN Cleaned(m)
                    ELSE Mark(a[n - 1], m.copies[n].bytes, m.copies[n].touch, TRUE)]

LEMMA CleanedParts ==
    ASSUME NEW m \in Memories, NEW n, n = Cleaned(m)
    PROVE  /\ n \in Memories /\ CellsOk(n)
           /\ n.hazards = m.hazards /\ n.ranges = {} /\ n.copies = m.copies /\ n.groups = m.groups
           /\ \A b \in Bytes : n.cells[b] = Cell
<1>1. Cell \in Cells
  BY DEF Cell, Cells
<1>2. EmptyMemory.cells \in [Bytes -> Cells] /\ \A b \in Bytes : EmptyMemory.cells[b] = Cell
  BY <1>1 DEF EmptyMemory
<1> HIDE DEF EmptyMemory
<1>3. n \in Memories
  BY <1>2 DEF Memories, Cleaned
<1>4. /\ n.hazards = m.hazards /\ n.ranges = {} /\ n.copies = m.copies /\ n.groups = m.groups
      /\ \A b \in Bytes : n.cells[b] = Cell
  BY <1>2 DEF Memories, Cleaned
<1>5. CellOk(Cell) /\ IsEmpty(Cell)
  BY DEF Cell, CellOk, IsEmpty
<1> QED BY <1>3, <1>4, <1>5 DEF CellsOk

LEMMA AgainTyped ==
    ASSUME NEW m \in Memories, NEW i \in 1..Len(m.copies), NEW x \in Memories, CellsOk(x),
           NEW y, y = Mark(x, m.copies[i].bytes, m.copies[i].touch, TRUE)
    PROVE  /\ y \in Memories /\ CellsOk(y)
           /\ m.copies[i].bytes \in SUBSET Bytes /\ m.copies[i].touch \in Touches
           /\ m.copies[i].touch.exact /\ m.copies[i].touch.write
<1>1. /\ m.copies[i].bytes \in SUBSET Bytes /\ m.copies[i].touch \in Touches
      /\ m.copies[i].touch.exact /\ m.copies[i].touch.write
  BY CopiesTyped DEF CopySet
<1>2. PICK fl \in BOOLEAN : y = Mark(x, m.copies[i].bytes, m.copies[i].touch, fl)
  OBVIOUS
<1> QED BY <1>1, <1>2, MarkSound

LEMMA AgainExists ==
    ASSUME NEW m \in Memories
    PROVE  \E a : IsAgain(m, a)
<1> DEFINE k == Len(m.copies)
           S == {x \in Memories : CellsOk(x)}
           Step(x, i) == Mark(x, m.copies[i].bytes, m.copies[i].touch, TRUE)
           F == [i \in 1..k |-> [x \in S |-> Step(x, i)]]
<1>1. k \in Nat /\ Cleaned(m) \in S
  <2>1. k \in Nat
    BY LenProperties DEF Memories
  <2> QED BY <2>1, CleanedParts
<1>2. \A i \in 1..k, x \in S : Step(x, i) \in S
  <2> SUFFICES ASSUME NEW i \in 1..k, NEW x \in S PROVE Step(x, i) \in S
    OBVIOUS
  <2> QED BY AgainTyped
<1> HIDE DEF S
<1>3. PICK f \in [0..k -> S] : f[0] = Cleaned(m) /\ \A i \in 1..k : f[i] = F[i][f[i - 1]]
  <2>1. F \in [1..k -> [S -> S]]
    BY <1>2
  <2> HIDE DEF F
  <2>2. Turns(F, k, S)
    BY <2>1 DEF Turns
  <2>3. InTurn(F, k, S, Cleaned(m))
    BY <1>1, <2>2, FoldExists
  <2> QED BY <2>3 DEF InTurn
<1>4. ASSUME NEW n \in 1..k PROVE f[n] = Step(f[n - 1], n)
  <2>1. n - 1 \in 0..k
    BY <1>1
  <2>2. f[n - 1] \in S /\ f[n] = F[n][f[n - 1]]
    BY <1>3, <2>1
  <2> HIDE DEF Step
  <2> QED BY <2>2
<1>5. ASSUME NEW n \in 0..k
      PROVE  f[n] = IF n = 0 THEN Cleaned(m)
                    ELSE Mark(f[n - 1], m.copies[n].bytes, m.copies[n].touch, TRUE)
  <2>1. CASE n = 0
    BY <1>3, <2>1
  <2>2. CASE n # 0
    <3>1. n \in 1..k
      BY <1>1, <2>2
    <3> QED BY <1>4, <2>2, <3>1
  <2> QED BY <2>1, <2>2
<1>6. IsAgain(m, f)
  BY <1>3, <1>5 DEF IsAgain
<1> QED BY <1>6

LEMMA EpochIsAgain ==
    ASSUME NEW m \in Memories
    PROVE  \E a : IsAgain(m, a) /\ NextEpoch(m) = a[Len(m.copies)]
<1> DEFINE again[n \in 0 .. Len(m.copies)] ==
             IF n = 0 THEN Cleaned(m)
                      ELSE Mark(again[n - 1], m.copies[n].bytes, m.copies[n].touch, TRUE)
<1>1. NextEpoch(m) = again[Len(m.copies)]
  BY DEF NextEpoch, Cleaned
<1>2. again = CHOOSE a : IsAgain(m, a)
  BY DEF IsAgain
<1> HIDE DEF again
<1>3. IsAgain(m, again)
  BY <1>2, AgainExists
<1> QED BY <1>1, <1>3

(* What holds once the first k copies are written again.                   *)
Rewritten(m, k) == {EntryOf(m.copies[i]) : i \in 1..k}
AgainTo(m, tr, k, x) ==
    /\ x \in Memories /\ CellsOk(x)
    /\ x.copies = m.copies /\ x.groups = m.groups /\ x.ranges = {}
    /\ m.hazards \subseteq x.hazards
AgainGood(m, tr, k, x) ==
    /\ NoCta(x.hazards) => AllMarked(x.cells, Rewritten(m, k))
    /\ Logged(x.cells, Rewritten(m, k))
    /\ InFlightTrue(x.cells, tr)
    /\ HazardsReal(x.hazards, tr.races)

LEMMA AgainStep ==
    ASSUME NEW m \in Memories, NEW tr \in Truths, NEW i \in 1..Len(m.copies),
           NEW x, AgainTo(m, tr, i - 1, x),
           NEW y, y = Mark(x, m.copies[i].bytes, m.copies[i].touch, TRUE)
    PROVE  /\ AgainTo(m, tr, i, y)
           /\ Tracked(m, tr) /\ PairsTold(m.copies, tr.races) /\ AgainGood(m, tr, i - 1, x) =>
                 AgainGood(m, tr, i, y)
<1> DEFINE at == m.copies[i].bytes
           t == m.copies[i].touch
           f == EntryOf(m.copies[i])
           old == Rewritten(m, i - 1)
<1>1. /\ x \in Memories /\ CellsOk(x)
      /\ x.copies = m.copies /\ x.groups = m.groups /\ x.ranges = {}
      /\ m.hazards \subseteq x.hazards
  BY DEF AgainTo
<1>2. at \in SUBSET Bytes /\ t \in Touches /\ t.exact /\ t.write
  BY <1>1, AgainTyped
<1>3. PICK fl \in BOOLEAN : fl /\ y = Mark(x, at, t, fl)
  OBVIOUS
<1>4. f = [bytes |-> at, touch |-> t]
  BY DEF EntryOf
<1>5. Len(m.copies) \in Nat
  BY LenProperties DEF Memories
<1>6. Rewritten(m, i) = old \cup {f}
  <2>1. \A j \in 1..i : j \in 1..(i - 1) \/ j = i
    BY <1>5
  <2>2. 1..(i - 1) \subseteq 1..i /\ i \in 1..i
    BY <1>5
  <2> QED BY <2>1, <2>2 DEF Rewritten
<1>7. old \in SUBSET Entries
  <2> SUFFICES ASSUME NEW j \in 1..(i - 1) PROVE EntryOf(m.copies[j]) \in Entries
    BY DEF Rewritten
  <2>1. j \in 1..Len(m.copies)
    BY <1>5
  <2>2. m.copies[j] \in CopySet
    BY <2>1, CopiesTyped
  <2> QED BY <2>2 DEF CopySet, Entries, EntryOf
<1> HIDE DEF at, t, f, old
<1>8. Marking(x, at, t, fl, y)
  BY <1>1, <1>2, <1>3, MarkParts
<1>9. y \in Memories /\ CellsOk(y)
  BY <1>1, <1>2, <1>3, MarkSound
<1>10. /\ y.ranges = x.ranges /\ y.copies = x.copies /\ y.groups = x.groups
       /\ x.hazards \subseteq y.hazards
  BY <1>8 DEF Marking
<1>11. AgainTo(m, tr, i, y)
  BY <1>1, <1>9, <1>10 DEF AgainTo
<1>12. ASSUME Tracked(m, tr), PairsTold(m.copies, tr.races), AgainGood(m, tr, i - 1, x)
       PROVE  AgainGood(m, tr, i, y)
  <2>1. /\ NoCta(x.hazards) => AllMarked(x.cells, old)
        /\ Logged(x.cells, old) /\ InFlightTrue(x.cells, tr) /\ HazardsReal(x.hazards, tr.races)
    BY <1>12 DEF AgainGood, old
  <2>2. ASSUME NoCta(y.hazards) PROVE AllMarked(y.cells, old \cup {f})
    <3>1. AllMarked(x.cells, old)
      BY <1>10, <2>1, <2>2 DEF NoCta
    <3> QED BY <1>1, <1>2, <1>3, <1>4, <1>7, <2>2, <3>1, MarkMarks
  <2>3. Logged(y.cells, old \cup {f})
    BY <1>1, <1>2, <1>3, <1>4, <2>1, MarkLogged
  <2>4. InFlightTrue(y.cells, tr)
    <3>1. f \in InFlightOf(tr, t.thread)
      BY <1>12, CopyLogged DEF f, t
    <3>2. fl /\ t.write => [bytes |-> at, touch |-> t] \in InFlightOf(tr, t.thread)
      BY <1>4, <3>1
    <3>3. \A u \in Threads : InFlightOf(tr, u) \subseteq InFlightOf(tr, u)
      OBVIOUS
    <3> QED BY <1>1, <1>2, <1>3, <2>1, <3>2, <3>3, MarkInFlight
  <2>5. ASSUME NEW h \in y.hazards, h \notin x.hazards PROVE Happening(h, tr.races)
    <3>0. PICK b \in at : \E e \in Found(x.cells[b], t) :
                  Meets(x.cells[b], e, t) /\ h \in Conflict(e, t)
      <4>1. Ranged(x, at, t) = {}
        BY <1>1 DEF Ranged
      <4> QED BY <1>8, <2>5, <4>1 DEF Marking
    <3>1. PICK e \in Found(x.cells[b], t) : Meets(x.cells[b], e, t) /\ h \in Conflict(e, t)
      BY <3>0
    <3>2. e.thread # t.thread
      BY <1>2, <3>1 DEF Meets
    <3>3. b \in Bytes /\ e \in Known(x.cells[b])
      BY <1>2, FoundKnown
    <3>4. PICK d \in old : d.touch = e /\ b \in d.bytes
      BY <2>1, <3>3 DEF Logged
    <3>5. PICK j \in 1..(i - 1) : d = EntryOf(m.copies[j])
      BY <3>4 DEF old, Rewritten
    <3>6. j \in 1..Len(m.copies) /\ j < i
      BY <1>5
    <3>7. m.copies[j].touch = e /\ b \in m.copies[j].bytes
      BY <3>4, <3>5 DEF EntryOf
    <3>8. Conflict(e, t) \subseteq tr.races
      BY <1>12, <3>1, <3>2, <3>6, <3>7 DEF PairsTold, at, t
    <3> QED BY <3>1, <3>8 DEF Happening
  <2>6. HazardsReal(y.hazards, tr.races)
    BY <2>1, <2>5 DEF HazardsReal
  <2> QED BY <1>6, <2>2, <2>3, <2>4, <2>6 DEF AgainGood
<1> QED BY <1>11, <1>12

LEMMA AgainAll ==
    ASSUME NEW m \in Memories, NEW tr \in Truths, NEW n, n = NextEpoch(m)
    PROVE  /\ AgainTo(m, tr, Len(m.copies), n)
           /\ Tracked(m, tr) /\ PairsTold(m.copies, tr.races) /\ HazardsReal(m.hazards, tr.races) =>
                 AgainGood(m, tr, Len(m.copies), n)
<1> DEFINE k == Len(m.copies)
           Told == Tracked(m, tr) /\ PairsTold(m.copies, tr.races) /\ HazardsReal(m.hazards, tr.races)
<1>1. k \in Nat
  BY LenProperties DEF Memories
<1>2. PICK a : IsAgain(m, a) /\ n = a[k]
  BY EpochIsAgain
<1>3. \A i \in 0..k : a[i] = IF i = 0 THEN Cleaned(m)
                             ELSE Mark(a[i - 1], m.copies[i].bytes, m.copies[i].touch, TRUE)
  <2>1. IsAgain(m, a)
    BY <1>2
  <2> QED BY <2>1 DEF IsAgain
<1> DEFINE T == {i \in 0..k : AgainTo(m, tr, i, a[i]) /\ (Told => AgainGood(m, tr, i, a[i]))}
<1>4. 0 \in T
  <2>0. 0 \in 0..k
    BY <1>1
  <2>1. a[0] = Cleaned(m)
    <3> HIDE DEF k
    <3> QED BY <1>3, <2>0
  <2>2. PICK x : x = a[0]
    OBVIOUS
  <2>3. /\ x \in Memories /\ CellsOk(x)
        /\ x.hazards = m.hazards /\ x.ranges = {} /\ x.copies = m.copies /\ x.groups = m.groups
        /\ \A b \in Bytes : x.cells[b] = Cell
    BY <2>1, <2>2, CleanedParts
  <2>4. AgainTo(m, tr, 0, x)
    BY <2>3 DEF AgainTo
  <2>5. Rewritten(m, 0) = {}
    BY DEF Rewritten
  <2>6. \A b \in Bytes : Known(x.cells[b]) = {} /\ ~x.cells[b].inFlight
    BY <2>3 DEF Known, Cell
  <2>7. Told => AgainGood(m, tr, 0, x)
    BY <2>3, <2>5, <2>6 DEF AgainGood, AllMarked, Logged, InFlightTrue
  <2> HIDE DEF Told
  <2> QED BY <1>1, <2>2, <2>4, <2>7
<1>5. ASSUME NEW i \in 1..k, i - 1 \in T PROVE i \in T
  <2>1. i \in 0..k /\ i # 0 /\ AgainTo(m, tr, i - 1, a[i - 1])
        /\ (Told => AgainGood(m, tr, i - 1, a[i - 1]))
    BY <1>1, <1>5
  <2>2. a[i] = Mark(a[i - 1], m.copies[i].bytes, m.copies[i].touch, TRUE)
    BY <1>3, <2>1
  <2>3. PICK x, y : x = a[i - 1] /\ y = a[i]
    OBVIOUS
  <2>4. /\ AgainTo(m, tr, i, y)
        /\ Tracked(m, tr) /\ PairsTold(m.copies, tr.races) /\ AgainGood(m, tr, i - 1, x) =>
              AgainGood(m, tr, i, y)
    BY <2>1, <2>2, <2>3, AgainStep
  <2> QED BY <2>1, <2>3, <2>4
<1> HIDE DEF T, Told
<1>6. k \in 0..k
  BY <1>1
<1>7. k \in T
  BY <1>1, <1>4, <1>5, <1>6, UpTo
<1> QED BY <1>2, <1>7 DEF T, Told

(* The copies in flight are those that are written again.                  *)
LEMMA FlightRewritten ==
    ASSUME NEW m \in Memories, NEW tr \in Truths, Tracked(m, tr)
    PROVE  Rewritten(m, Len(m.copies)) = UNION {InFlightOf(tr, t) : t \in Threads}
<1> DEFINE log == UNION {InFlightOf(tr, t) : t \in Threads}
<1>1. ASSUME NEW i \in 1..Len(m.copies) PROVE EntryOf(m.copies[i]) \in log
  <2>1. m.copies[i].touch.thread \in Threads
    BY CopiesTyped
  <2>2. EntryOf(m.copies[i]) \in InFlightOf(tr, m.copies[i].touch.thread)
    BY CopyLogged
  <2> QED BY <2>1, <2>2
<1>2. ASSUME NEW t \in Threads, NEW e \in InFlightOf(tr, t)
      PROVE  \E i \in 1..Len(m.copies) : e = EntryOf(m.copies[i])
  <2>1. /\ tr.groups[t] \in Seq(SUBSET Entries) /\ tr.open[t] \subseteq Entries
    BY DEF Truths
  <2>2. e \in tr.open[t] \/ \E k \in 1..Len(tr.groups[t]) : e \in tr.groups[t][k]
    BY <2>1, RangeIn DEF InFlightOf
  <2>3. e \in Entries
    <3>1. CASE e \in tr.open[t]
      BY <2>1, <3>1
    <3>2. CASE \E k \in 1..Len(tr.groups[t]) : e \in tr.groups[t][k]
      <4>1. PICK k \in 1..Len(tr.groups[t]) : e \in tr.groups[t][k]
        BY <3>2
      <4>2. tr.groups[t][k] \in SUBSET Entries
        BY <2>1, ElementOfSeq
      <4> QED BY <4>1, <4>2
    <3> QED BY <2>2, <3>1, <3>2
  <2>4. \E g : \E i \in 1..Len(m.copies) : m.copies[i] = CopyOf(e, g)
    <3>1. CASE e \in tr.open[t]
      BY <3>1 DEF Tracked
    <3>2. CASE \E k \in 1..Len(tr.groups[t]) : e \in tr.groups[t][k]
      BY <3>2 DEF Tracked
    <3> QED BY <2>2, <3>1, <3>2
  <2>5. \A g : EntryOf(CopyOf(e, g)) = e
    BY <2>3 DEF EntryOf, CopyOf, Entries
  <2> QED BY <2>4, <2>5
<1> QED BY <1>1, <1>2 DEF Rewritten

LEMMA EpochKeeps ==
    ASSUME NEW m \in Memories, CellsOk(m), NEW n, n = NextEpoch(m),
           NEW tr \in Truths,
           NEW tr2, tr2 = [tr EXCEPT !.log = UNION {InFlightOf(tr, t) : t \in Threads}]
    PROVE  /\ n \in Memories /\ CellsOk(n) /\ tr2 \in Truths
           /\ Faithful(m, tr) => Faithful(n, tr2)
<1> DEFINE k == Len(m.copies)
           log == UNION {InFlightOf(tr, t) : t \in Threads}
<1>1. AgainTo(m, tr, k, n)
  BY AgainAll
<1>2. /\ n \in Memories /\ CellsOk(n)
      /\ n.copies = m.copies /\ n.groups = m.groups /\ n.ranges = {}
      /\ m.hazards \subseteq n.hazards
  BY <1>1 DEF AgainTo
<1>3. log \in SUBSET Entries
  <2> SUFFICES ASSUME NEW t \in Threads, NEW e \in InFlightOf(tr, t) PROVE e \in Entries
    OBVIOUS
  <2>1. tr.groups[t] \in Seq(SUBSET Entries) /\ tr.open[t] \subseteq Entries
    BY DEF Truths
  <2>2. e \in tr.open[t] \/ \E j \in 1..Len(tr.groups[t]) : e \in tr.groups[t][j]
    BY <2>1, RangeIn DEF InFlightOf
  <2>3. \A j \in 1..Len(tr.groups[t]) : tr.groups[t][j] \in SUBSET Entries
    BY <2>1, ElementOfSeq
  <2> QED BY <2>1, <2>2, <2>3
<1> HIDE DEF log
<1>4. /\ tr2 \in Truths /\ tr2.log = log /\ tr2.races = tr.races
      /\ tr2.open = tr.open /\ tr2.groups = tr.groups
  <2>1. tr2 = [tr EXCEPT !.log = log]
    BY DEF log
  <2> QED BY <1>3, <2>1 DEF Truths
<1>5. ASSUME Faithful(m, tr) PROVE Faithful(n, tr2)
  <2>1. /\ CleanFree(m, tr) /\ Tracked(m, tr) /\ PairsTold(m.copies, tr.races)
        /\ HazardsReal(m.hazards, tr.races) /\ LaterTold(m.hazards, tr.races)
    BY <1>5 DEF Faithful
  <2>2. AgainGood(m, tr, k, n)
    BY <2>1, AgainAll
  <2>3. Rewritten(m, k) = log
    BY <2>1, FlightRewritten DEF log
  <2>4. /\ NoCta(n.hazards) => AllMarked(n.cells, log)
        /\ Logged(n.cells, log) /\ InFlightTrue(n.cells, tr) /\ HazardsReal(n.hazards, tr.races)
    BY <2>2, <2>3 DEF AgainGood
  <2>5. CleanFree(n, tr2)
    BY <1>2, <1>4, <2>1, <2>4 DEF CleanFree, NoCta
  <2>6. Logged(n.cells, tr2.log) /\ HazardsReal(n.hazards, tr2.races)
    BY <1>4, <2>4
  <2>7. InFlightTrue(n.cells, tr2)
    BY <1>4, <2>4 DEF InFlightTrue, InFlightOf
  <2>8. Tracked(n, tr2)
    <3>1. \A v \in Threads : InFlightOf(tr, v) \subseteq tr2.log
      BY <1>4 DEF log
    <3> QED BY <1>2, <1>4, <2>1, <3>1, TrackedStays
  <2>9. PairsTold(n.copies, tr2.races)
    BY <1>2, <1>4, <2>1
  <2>10. RangesCover(n.ranges, tr2.log)
    <3>1. ASSUME NEW d \in log PROVE d.touch.exact
      <4>1. PICK i \in 1..k : d = EntryOf(m.copies[i])
        BY <2>3, <3>1 DEF Rewritten
      <4>2. d.touch = m.copies[i].touch /\ m.copies[i].touch.exact
        BY <2>1, <4>1, CopyLogged DEF EntryOf
      <4> QED BY <4>2
    <3> QED BY <1>2, <1>4, <3>1 DEF RangesCover
  <2>11. LaterTold(n.hazards, tr2.races)
    BY <1>2, <1>4, <2>1 DEF LaterTold
  <2> QED BY <2>5, <2>6, <2>7, <2>8, <2>9, <2>10, <2>11 DEF Faithful
<1> QED BY <1>2, <1>4, <1>5

LEMMA BarrierSound ==
    ASSUME NEW s \in Sound, NEW mask, NEW r, r = Barrier(s, mask)
    PROVE  r \in Sound /\ (Good(s) => Good(r))
<1> DEFINE m == s.check.mem
           tr == s.truth
           n == NextEpoch(m)
           tr2 == [tr EXCEPT !.log = UNION {InFlightOf(tr, t) : t \in Threads}]
<1>1. m \in Memories /\ CellsOk(m) /\ tr \in Truths /\ (Good(s) <=> Faithful(m, tr))
  BY SoundParts
<1>2. /\ n \in Memories /\ CellsOk(n) /\ tr2 \in Truths
      /\ Faithful(m, tr) => Faithful(n, tr2)
  <2> HIDE DEF m, tr
  <2> QED BY <1>1, EpochKeeps
<1>3. PICK d \in BOOLEAN : d = (s.check.divergent \/ mask # Threads)
  OBVIOUS
<1>4. r = [check |-> [mem |-> n, stamps |-> s.check.stamps, divergent |-> d], truth |-> tr2]
  <2>1. r = [s EXCEPT !.check.mem = n, !.check.divergent = d,
                      !.truth.log = UNION {InFlightOf(tr, t) : t \in Threads}]
    BY <1>3 DEF Barrier
  <2> HIDE DEF n
  <2> QED BY <2>1 DEF Sound, States, Checks, Truths
<1>5. s.check.stamps \in [Warps -> Nat]
  BY SoundParts
<1> HIDE DEF n, tr2, m, tr
<1> QED BY <1>1, <1>2, <1>3, <1>4, <1>5 DEF Sound, States, Checks, Good

-----------------------------------------------------------------------------
(* A warp-wide op counts a stamp, and a fence with it.                     *)
LEMMA WarpSyncSound ==
    ASSUME NEW s \in Sound, NEW mask, NEW r, r = WarpSync(s, mask)
    PROVE  r \in Sound /\ (Good(s) => Good(r))
<1> DEFINE st == [w \in Warps |-> IF \E t \in mask : WarpOf(t) = w THEN s.check.stamps[w] + 1
                                                                 ELSE s.check.stamps[w]]
<1>1. /\ s.check.mem \in Memories /\ CellsOk(s.check.mem) /\ s.truth \in Truths
      /\ s.check.stamps \in [Warps -> Nat] /\ s.check.divergent \in BOOLEAN
      /\ Good(s) <=> Faithful(s.check.mem, s.truth)
  BY SoundParts
<1>2. st \in [Warps -> Nat]
  BY <1>1
<1>3. r = [s EXCEPT !.check.stamps = st]
  BY DEF WarpSync
<1> HIDE DEF st
<1>4. r = [check |-> [mem |-> s.check.mem, stamps |-> st, divergent |-> s.check.divergent],
           truth |-> s.truth]
  BY <1>3 DEF Sound, States, Checks
<1> QED BY <1>1, <1>2, <1>4 DEF Sound, States, Checks, Good

-----------------------------------------------------------------------------
(* A kernel's ops, turn by turn *)

(* The states of a kernel: all of them, and those where the check is right. *)
Reliable == {s \in Sound : Good(s)}
Lots == {Sound, Reliable}

Laned == Accesses \cup {"group", "wait"}

LEMMA LaneSound ==
    ASSUME NEW S \in Lots, NEW s \in S, NEW op \in Ops, op.kind \in Laned,
           NEW t \in op.mask, NEW turn \in Nat
    PROVE  Lane(s, op, t, turn) \in S
<1>1. PICK r : r = Lane(s, op, t, turn)
  OBVIOUS
<1>2. s \in Sound /\ t \in Threads
  BY DEF Lots, Reliable, Ops, OpSet
<1>3. r \in Sound /\ (Good(s) => Good(r))
  <2>1. CASE op.kind = "copy"
    <3>1. r = Copy(s, op, t, turn)
      BY <1>1, <2>1 DEF Lane
    <3> QED BY <1>2, <2>1, <3>1, CopySound
  <2>2. CASE op.kind = "group"
    <3>1. r = Group(s, op, t, turn)
      BY <1>1, <2>2 DEF Lane
    <3> QED BY <1>2, <3>1, GroupSound
  <2>3. CASE op.kind = "wait"
    <3>1. r = AsyncWait(s, op, t, turn)
      BY <1>1, <2>3 DEF Lane
    <3> QED BY <1>2, <3>1, WaitSound
  <2>4. CASE op.kind \in Accesses \ {"copy"}
    <3>1. op.kind # "copy" /\ op.kind # "group" /\ op.kind # "wait" /\ op.kind \in Accesses
      BY <2>4 DEF Accesses
    <3>2. r = Access(s, op, t, turn)
      BY <1>1, <3>1 DEF Lane
    <3> QED BY <1>2, <3>1, <3>2, AccessSound
  <2> QED BY <2>1, <2>2, <2>3, <2>4 DEF Laned
<1> HIDE DEF Good
<1> QED BY <1>1, <1>2, <1>3 DEF Lots, Reliable

(* The lanes of an op.                                                     *)
IsLanes(s, op, lanes, turn, a) ==
    a = [n \in 0..NThreads |->
           IF n = 0 THEN s
           ELSE IF n - 1 \in lanes THEN Lane(a[n - 1], op, n - 1, turn) ELSE a[n - 1]]

LEMMA LanesExist ==
    ASSUME NEW S \in Lots, NEW s \in S, NEW op \in Ops, op.kind \in Laned,
           NEW lanes \in SUBSET op.mask, NEW turn \in Nat
    PROVE  \E a : IsLanes(s, op, lanes, turn, a)
<1> DEFINE Step(x, i) == IF i - 1 \in lanes THEN Lane(x, op, i - 1, turn) ELSE x
           F == [i \in 1..NThreads |-> [x \in S |-> Step(x, i)]]
<1>1. NThreads \in Nat
  BY SizesAssumption
<1>2. \A i \in 1..NThreads, x \in S : Step(x, i) \in S
  <2> SUFFICES ASSUME NEW i \in 1..NThreads, NEW x \in S PROVE Step(x, i) \in S
    OBVIOUS
  <2>1. PICK t : t = i - 1
    OBVIOUS
  <2>2. t \in lanes => Lane(x, op, t, turn) \in S
    BY LaneSound
  <2> QED BY <2>1, <2>2
<1>3. PICK f \in [0..NThreads -> S] : f[0] = s /\ \A i \in 1..NThreads : f[i] = F[i][f[i - 1]]
  <2>1. F \in [1..NThreads -> [S -> S]]
    BY <1>2
  <2> HIDE DEF F
  <2>2. Turns(F, NThreads, S)
    BY <2>1 DEF Turns
  <2>3. InTurn(F, NThreads, S, s)
    BY <1>1, <2>2, FoldExists
  <2> QED BY <2>3 DEF InTurn
<1>4. ASSUME NEW n \in 1..NThreads PROVE f[n] = Step(f[n - 1], n)
  <2>1. n - 1 \in 0..NThreads
    BY <1>1
  <2>2. f[n - 1] \in S /\ f[n] = F[n][f[n - 1]]
    BY <1>3, <2>1
  <2> HIDE DEF Step
  <2> QED BY <2>2
<1>5. ASSUME NEW n \in 0..NThreads
      PROVE  f[n] = IF n = 0 THEN s
                    ELSE IF n - 1 \in lanes THEN Lane(f[n - 1], op, n - 1, turn) ELSE f[n - 1]
  <2>1. CASE n = 0
    BY <1>3, <2>1
  <2>2. CASE n # 0
    <3>1. n \in 1..NThreads
      BY <1>1, <2>2
    <3> QED BY <1>4, <2>2, <3>1
  <2> QED BY <2>1, <2>2
<1>6. IsLanes(s, op, lanes, turn, f)
  BY <1>3, <1>5 DEF IsLanes
<1> QED BY <1>6

LEMMA LanesSound ==
    ASSUME NEW S \in Lots, NEW s \in S, NEW op \in Ops, op.kind \in Laned,
           NEW lanes \in SUBSET op.mask, NEW turn \in Nat
    PROVE  Lanes(s, op, lanes, turn) \in S
<1> DEFINE after[n \in 0..NThreads] ==
             IF n = 0 THEN s
             ELSE IF n - 1 \in lanes THEN Lane(after[n - 1], op, n - 1, turn) ELSE after[n - 1]
<1>1. Lanes(s, op, lanes, turn) = after[NThreads]
  BY DEF Lanes
<1>2. after = CHOOSE a : IsLanes(s, op, lanes, turn, a)
  BY DEF IsLanes
<1> HIDE DEF after
<1>3. IsLanes(s, op, lanes, turn, after)
  BY <1>2, LanesExist
<1>4. PICK a : a = after /\ IsLanes(s, op, lanes, turn, a)
  BY <1>3
<1>5. \A n \in 0..NThreads :
         a[n] = IF n = 0 THEN s
                ELSE IF n - 1 \in lanes THEN Lane(a[n - 1], op, n - 1, turn) ELSE a[n - 1]
  <2>1. IsLanes(s, op, lanes, turn, a)
    BY <1>4
  <2> QED BY <2>1 DEF IsLanes
<1> DEFINE T == {i \in 0..NThreads : a[i] \in S}
<1>6. NThreads \in Nat /\ 0 \in 0..NThreads /\ NThreads \in 0..NThreads
  BY SizesAssumption
<1>7. 0 \in T
  BY <1>5, <1>6
<1>8. ASSUME NEW i \in 1..NThreads, i - 1 \in T PROVE i \in T
  <2>1. i \in 0..NThreads /\ i # 0 /\ a[i - 1] \in S
    BY <1>6, <1>8
  <2>2. PICK t : t = i - 1
    OBVIOUS
  <2>3. a[i] = IF t \in lanes THEN Lane(a[i - 1], op, t, turn) ELSE a[i - 1]
    BY <1>5, <2>1, <2>2
  <2>4. t \in lanes => Lane(a[i - 1], op, t, turn) \in S
    BY <2>1, LaneSound
  <2> QED BY <2>1, <2>3, <2>4
<1> HIDE DEF T
<1>9. NThreads \in T
  BY <1>6, <1>7, <1>8, UpTo
<1> QED BY <1>1, <1>4, <1>9 DEF T

LEMMA SyncSound ==
    ASSUME NEW S \in Lots, NEW s \in S, NEW mask
    PROVE  WarpSync(s, mask) \in S /\ Barrier(s, mask) \in S
<1>1. PICK x, y : x = WarpSync(s, mask) /\ y = Barrier(s, mask)
  OBVIOUS
<1>2. s \in Sound
  BY DEF Lots, Reliable
<1>3. x \in Sound /\ (Good(s) => Good(x)) /\ y \in Sound /\ (Good(s) => Good(y))
  BY <1>1, <1>2, WarpSyncSound, BarrierSound
<1> QED BY <1>1, <1>2, <1>3 DEF Lots, Reliable

LEMMA RunSound ==
    ASSUME NEW S \in Lots, NEW s \in S, NEW op \in Ops, NEW turn \in Nat
    PROVE  Run(s, op, turn) \in S
<1>1. op.kind \in Kinds
  BY DEF Ops, OpSet
<1>2. CASE op.kind \in {"load", "store", "copy", "group", "wait"}
  <2>1. op.kind \in Laned
    BY <1>2 DEF Laned, Accesses
  <2>2. Lanes(s, op, op.mask, turn) \in S
    BY <2>1, LanesSound
  <2> QED BY <1>2, <2>2 DEF Run
<1>3. CASE op.kind \in {"mmaLoad", "mmaStore"}
  <2>1. op.kind \in Laned
    BY <1>3 DEF Laned, Accesses
  <2>2. FirstLanes(op.mask) \in SUBSET op.mask
    BY DEF FirstLanes
  <2>3. PICK r : r = Lanes(s, op, FirstLanes(op.mask), turn) /\ r \in S
    BY <2>1, <2>2, LanesSound
  <2>4. WarpSync(r, op.mask) \in S
    BY <2>3, SyncSound
  <2> QED BY <1>3, <2>3, <2>4 DEF Run
<1>4. CASE op.kind = "ldMatrix"
  <2>1. op.kind \in Laned
    BY <1>4 DEF Laned, Accesses
  <2>2. PICK lanes \in SUBSET op.mask : lanes = {t \in op.mask : t % WarpSize < op.n}
    OBVIOUS
  <2>3. PICK r : r = Lanes(s, op, lanes, turn) /\ r \in S
    BY <2>1, LanesSound
  <2>4. WarpSync(r, op.mask) \in S
    BY <2>3, SyncSound
  <2>5. Run(s, op, turn) = WarpSync(r, op.mask)
    BY <1>4, <2>2, <2>3 DEF Run
  <2> QED BY <2>4, <2>5
<1>5. CASE op.kind = "warpSync"
  BY <1>5, SyncSound DEF Run
<1>6. CASE op.kind = "barrier"
  BY <1>6, SyncSound DEF Run
<1> QED BY <1>1, <1>2, <1>3, <1>4, <1>5, <1>6 DEF Kinds, Accesses

(* The ops of a body, and the turns of a loop.                             *)
IsBody(s, body, turn, a) ==
    a = [n \in 0..Len(body) |-> IF n = 0 THEN s ELSE Run(a[n - 1], body[n], turn)]

LEMMA BodyExists ==
    ASSUME NEW S \in Lots, NEW s \in S, NEW body \in Seq(Ops), NEW turn \in Nat
    PROVE  \E a : IsBody(s, body, turn, a)
<1> DEFINE k == Len(body)
           Step(x, i) == Run(x, body[i], turn)
           F == [i \in 1..k |-> [x \in S |-> Step(x, i)]]
<1>1. k \in Nat
  BY LenProperties
<1>2. \A i \in 1..k, x \in S : Step(x, i) \in S
  <2> SUFFICES ASSUME NEW i \in 1..k, NEW x \in S PROVE Step(x, i) \in S
    OBVIOUS
  <2>1. body[i] \in Ops
    BY ElementOfSeq
  <2> QED BY <2>1, RunSound
<1>3. PICK f \in [0..k -> S] : f[0] = s /\ \A i \in 1..k : f[i] = F[i][f[i - 1]]
  <2>1. F \in [1..k -> [S -> S]]
    BY <1>2
  <2> HIDE DEF F
  <2>2. Turns(F, k, S)
    BY <2>1 DEF Turns
  <2>3. InTurn(F, k, S, s)
    BY <1>1, <2>2, FoldExists
  <2> QED BY <2>3 DEF InTurn
<1>4. ASSUME NEW n \in 1..k PROVE f[n] = Step(f[n - 1], n)
  <2>1. n - 1 \in 0..k
    BY <1>1
  <2>2. f[n - 1] \in S /\ f[n] = F[n][f[n - 1]]
    BY <1>3, <2>1
  <2> HIDE DEF Step
  <2> QED BY <2>2
<1>5. ASSUME NEW n \in 0..k
      PROVE  f[n] = IF n = 0 THEN s ELSE Run(f[n - 1], body[n], turn)
  <2>1. CASE n = 0
    BY <1>3, <2>1
  <2>2. CASE n # 0
    <3>1. n \in 1..k
      BY <1>1, <2>2
    <3> QED BY <1>4, <2>2, <3>1
  <2> QED BY <2>1, <2>2
<1>6. IsBody(s, body, turn, f)
  BY <1>3, <1>5 DEF IsBody
<1> QED BY <1>6

LEMMA BodySound ==
    ASSUME NEW S \in Lots, NEW s \in S, NEW body \in Seq(Ops), NEW turn \in Nat
    PROVE  RunBody(s, body, turn) \in S
<1> DEFINE k == Len(body)
           after[n \in 0..k] == IF n = 0 THEN s ELSE Run(after[n - 1], body[n], turn)
<1>1. RunBody(s, body, turn) = after[k]
  BY DEF RunBody
<1>2. after = CHOOSE a : IsBody(s, body, turn, a)
  BY DEF IsBody
<1> HIDE DEF after
<1>3. PICK a : a = after /\ IsBody(s, body, turn, a)
  BY <1>2, BodyExists
<1>4. \A n \in 0..k : a[n] = IF n = 0 THEN s ELSE Run(a[n - 1], body[n], turn)
  <2>1. IsBody(s, body, turn, a)
    BY <1>3
  <2> QED BY <2>1 DEF IsBody
<1> DEFINE T == {i \in 0..k : a[i] \in S}
<1>5. k \in Nat /\ 0 \in 0..k /\ k \in 0..k
  BY LenProperties
<1> HIDE DEF k
<1>6. 0 \in T
  BY <1>4, <1>5
<1>7. ASSUME NEW i \in 1..k, i - 1 \in T PROVE i \in T
  <2>1. i \in 0..k /\ i # 0 /\ a[i - 1] \in S
    BY <1>5, <1>7
  <2>2. a[i] = Run(a[i - 1], body[i], turn)
    BY <1>4, <2>1
  <2>3. body[i] \in Ops
    BY ElementOfSeq DEF k
  <2> QED BY <2>1, <2>2, <2>3, RunSound
<1> HIDE DEF T
<1>8. k \in T
  BY <1>5, <1>6, <1>7, UpTo
<1> QED BY <1>1, <1>3, <1>8 DEF T

IsTurns(s, body, first, count, a) ==
    a = [n \in 0..count |-> IF n = 0 THEN s ELSE RunBody(a[n - 1], body, first + n - 1)]

LEMMA TurnsExist ==
    ASSUME NEW S \in Lots, NEW s \in S, NEW body \in Seq(Ops), NEW first \in Nat, NEW count \in Nat
    PROVE  \E a : IsTurns(s, body, first, count, a)
<1> DEFINE Step(x, i) == RunBody(x, body, first + i - 1)
           F == [i \in 1..count |-> [x \in S |-> Step(x, i)]]
<1>2. \A i \in 1..count, x \in S : Step(x, i) \in S
  <2> SUFFICES ASSUME NEW i \in 1..count, NEW x \in S PROVE Step(x, i) \in S
    OBVIOUS
  <2>1. first + i - 1 \in Nat
    OBVIOUS
  <2> QED BY <2>1, BodySound
<1>3. PICK f \in [0..count -> S] : f[0] = s /\ \A i \in 1..count : f[i] = F[i][f[i - 1]]
  <2>1. F \in [1..count -> [S -> S]]
    BY <1>2
  <2> HIDE DEF F
  <2>2. Turns(F, count, S)
    BY <2>1 DEF Turns
  <2>3. InTurn(F, count, S, s)
    BY <2>2, FoldExists
  <2> QED BY <2>3 DEF InTurn
<1>4. ASSUME NEW n \in 1..count PROVE f[n] = Step(f[n - 1], n)
  <2>1. n - 1 \in 0..count
    OBVIOUS
  <2>2. f[n - 1] \in S /\ f[n] = F[n][f[n - 1]]
    BY <1>3, <2>1
  <2> HIDE DEF Step
  <2> QED BY <2>2
<1>5. ASSUME NEW n \in 0..count
      PROVE  f[n] = IF n = 0 THEN s ELSE RunBody(f[n - 1], body, first + n - 1)
  <2>1. CASE n = 0
    BY <1>3, <2>1
  <2>2. CASE n # 0
    <3>1. n \in 1..count
      BY <2>2
    <3> QED BY <1>4, <2>2, <3>1
  <2> QED BY <2>1, <2>2
<1>6. IsTurns(s, body, first, count, f)
  BY <1>3, <1>5 DEF IsTurns
<1> QED BY <1>6

LEMMA TurnsSound ==
    ASSUME NEW S \in Lots, NEW s \in S, NEW body \in Seq(Ops), NEW first \in Nat, NEW count \in Nat
    PROVE  RunTurns(s, body, first, count) \in S
<1> DEFINE after[n \in 0..count] ==
             IF n = 0 THEN s ELSE RunBody(after[n - 1], body, first + n - 1)
<1>1. RunTurns(s, body, first, count) = after[count]
  BY DEF RunTurns
<1>2. after = CHOOSE a : IsTurns(s, body, first, count, a)
  BY DEF IsTurns
<1> HIDE DEF after
<1>3. PICK a : a = after /\ IsTurns(s, body, first, count, a)
  BY <1>2, TurnsExist
<1>4. \A n \in 0..count : a[n] = IF n = 0 THEN s ELSE RunBody(a[n - 1], body, first + n - 1)
  <2>1. IsTurns(s, body, first, count, a)
    BY <1>3
  <2> QED BY <2>1 DEF IsTurns
<1> DEFINE T == {i \in 0..count : a[i] \in S}
<1>5. 0 \in 0..count /\ count \in 0..count
  OBVIOUS
<1>6. 0 \in T
  BY <1>4, <1>5
<1>7. ASSUME NEW i \in 1..count, i - 1 \in T PROVE i \in T
  <2>1. i \in 0..count /\ i # 0 /\ a[i - 1] \in S
    BY <1>7
  <2>2. a[i] = RunBody(a[i - 1], body, first + i - 1)
    BY <1>4, <2>1
  <2>3. first + i - 1 \in Nat
    OBVIOUS
  <2> QED BY <2>1, <2>2, <2>3, BodySound
<1> HIDE DEF T
<1>8. count \in T
  BY <1>5, <1>6, <1>7, UpTo
<1> QED BY <1>1, <1>3, <1>8 DEF T

-----------------------------------------------------------------------------
(* The kernel *)

LEMMA StartSound ==
    ASSUME NEW s, s = [check |-> [mem |-> EmptyMemory, stamps |-> [w \in Warps |-> 0],
                                  divergent |-> FALSE],
                       truth |-> NoTruth]
    PROVE  s \in Sound /\ Good(s)
<1>1. \A b \in Bytes : EmptyMemory.cells[b] = Cell
  BY DEF EmptyMemory
<1>2. EmptyMemory \in Memories
  <2>1. Cell \in Cells
    BY DEF Cell, Cells
  <2>2. << >> \in Seq(CopySet)
    BY EmptySeq
  <2> QED BY <2>1, <2>2 DEF EmptyMemory, Memories
<1>3. CellsOk(EmptyMemory)
  BY <1>1 DEF CellsOk, CellOk, IsEmpty, Cell
<1>4. NoTruth \in Truths
  <2>1. << >> \in Seq(SUBSET Entries)
    BY EmptySeq
  <2> QED BY <2>1 DEF NoTruth, Truths
<1>5. s \in Sound
  <2>1. [w \in Warps |-> 0] \in [Warps -> Nat]
    OBVIOUS
  <2> QED BY <1>2, <1>3, <1>4, <2>1 DEF Sound, States, Checks
<1>6. Faithful(EmptyMemory, NoTruth)
  <2>1. /\ EmptyMemory.ranges = {} /\ EmptyMemory.hazards = {} /\ EmptyMemory.copies = << >>
        /\ EmptyMemory.groups = [t \in Threads |-> 0]
    BY DEF EmptyMemory
  <2>2. /\ NoTruth.log = {} /\ NoTruth.races = {}
        /\ NoTruth.open = [t \in Threads |-> {}] /\ NoTruth.groups = [t \in Threads |-> << >>]
    BY DEF NoTruth
  <2>3. Len(<< >>) = 0 /\ \A i \in 1..0 : FALSE
    OBVIOUS
  <2>4. CleanFree(EmptyMemory, NoTruth)
    BY <2>2 DEF CleanFree, AllMarked, NoCta
  <2>5. Logged(EmptyMemory.cells, NoTruth.log)
    BY <1>1 DEF Logged, Known, Cell
  <2>6. InFlightTrue(EmptyMemory.cells, NoTruth)
    BY <1>1 DEF InFlightTrue, Cell
  <2>7. Tracked(EmptyMemory, NoTruth)
    <3>1. \A t \in Threads : InFlightOf(NoTruth, t) = {}
      <4>1. Range(<< >>) = {}
        BY DEF Range
      <4> QED BY <2>2, <4>1 DEF InFlightOf
    <3>2. \A t \in Threads : /\ NoTruth.open[t] = {} /\ NoTruth.groups[t] = << >>
                             /\ EmptyMemory.groups[t] = 0
      BY <2>1, <2>2
    <3> QED BY <2>1, <2>3, <3>1, <3>2 DEF Tracked
  <2>8. PairsTold(EmptyMemory.copies, NoTruth.races)
    BY <2>1, <2>3 DEF PairsTold
  <2>9. HazardsReal(EmptyMemory.hazards, NoTruth.races) /\ LaterTold(EmptyMemory.hazards, NoTruth.races)
    BY <2>1, <2>2 DEF HazardsReal, LaterTold
  <2>10. RangesCover(EmptyMemory.ranges, NoTruth.log)
    BY <2>1, <2>2 DEF RangesCover
  <2> QED BY <2>4, <2>5, <2>6, <2>7, <2>8, <2>9, <2>10 DEF Faithful
<1> QED BY <1>5, <1>6 DEF Good

(* An op chosen is one of a kernel.                                        *)
LEMMA OpTyped ==
    ASSUME NEW k \in Kernels, NEW site \in DOMAIN k.code, k.code[site].kind \in Kinds,
           NEW mask \in k.masks, NEW view,
           \/ k.code[site].kind \notin Accesses /\ view = << >>
           \/ view \in [mask -> k.views],
           k.code[site].kind = "copy" => \A t \in mask : view[t].exact,
           NEW op, op = [site |-> site, kind |-> k.code[site].kind, n |-> k.code[site].n,
                         mask |-> mask, view |-> view]
    PROVE  op \in Ops
<1>1. site \in Sites /\ k.code[site].n \in Nat /\ mask \in SUBSET Threads
  BY KernelsAssumption DEF Sites
<1>2. k.views \subseteq AllViews
  BY DEF AllViews
<1>3. CASE view \in [mask -> k.views]
  <2>1. view \in [mask -> AllViews]
    BY <1>2, <1>3
  <2>2. op \in OpSet
    BY <1>1, <2>1 DEF OpSet
  <2> QED BY <2>1, <2>2 DEF Ops, OpOk
<1>4. CASE k.code[site].kind \notin Accesses /\ view = << >>
  <2>1. op \in OpSet
    BY <1>1, <1>4 DEF OpSet
  <2> QED BY <1>4, <2>1 DEF Ops, OpOk
<1> QED BY <1>3, <1>4

LEMMA MovesTo ==
    ASSUME NEW r \in Sound, Moves(r)
    PROVE  State' = r
BY DEF Moves, State, Sound, States

LEMMA ExecuteSound ==
    ASSUME CheckInv, Choosing, NEW site \in DOMAIN kernel.code,
           kernel.code[site].kind \in Kinds, NEW mask \in kernel.masks, NEW view,
           \/ kernel.code[site].kind \notin Accesses /\ view = << >>
           \/ view \in [mask -> kernel.views],
           kernel.code[site].kind = "copy" => \A t \in mask : view[t].exact,
           Execute(site, mask, view)
    PROVE  CheckInv'
<1> DEFINE op == [site |-> site, kind |-> kernel.code[site].kind, n |-> kernel.code[site].n,
                  mask |-> mask, view |-> view]
<1>1. kernel \in Kernels /\ LoopType /\ State \in Sound /\ loop.turns = 0 /\ Good(State)
  BY DEF CheckInv, Choosing, NoneSkipped, END_TURNS
<1>2. op \in Ops
  BY <1>1, OpTyped
<1>3. /\ Moves(Run(State, op, 0)) /\ kernel' = kernel
      /\ loop' = [loop EXCEPT !.body = IF kernel.loops THEN Append(loop.body, op) ELSE loop.body]
  BY DEF Execute
<1> HIDE DEF op
<1>4. Run(State, op, 0) \in Reliable
  <2>1. State \in Reliable
    BY <1>1 DEF Reliable
  <2> QED BY <1>2, <2>1, RunSound DEF Lots
<1>5. State' \in Sound /\ Good(State')
  <2>1. Run(State, op, 0) \in Sound /\ Good(Run(State, op, 0))
    BY <1>4 DEF Reliable
  <2>2. State' = Run(State, op, 0)
    BY <1>3, <2>1, MovesTo
  <2> QED BY <2>1, <2>2
<1>6. LoopType'
  <2>1. loop.body \in Seq(Ops)
    BY <1>1 DEF LoopType
  <2>2. Append(loop.body, op) \in Seq(Ops)
    BY <1>2, <2>1, AppendProperties
  <2> QED BY <1>1, <1>3, <2>1, <2>2 DEF LoopType
<1>7. Good(State)'
  BY <1>5 DEF Good
<1> QED BY <1>1, <1>3, <1>5, <1>6, <1>7 DEF CheckInv

LEMMA ViewsIn ==
    ASSUME NEW mask, NEW view \in Views(mask)
    PROVE  view \in [mask -> kernel.views]
BY DEF Views

LEMMA AccessKeeps == ASSUME CheckInv, RunAccess PROVE CheckInv'
<1>1. Choosing
  BY DEF RunAccess
<1>2. PICK site \in SitesOf({"load", "store", "ldMatrix"}), mask \in kernel.masks :
        \E view \in Views(mask) : Execute(site, mask, view)
  BY DEF RunAccess
<1>3. PICK view \in Views(mask) : Execute(site, mask, view)
  BY <1>2
<1>4. /\ site \in DOMAIN kernel.code /\ kernel.code[site].kind \in Kinds
      /\ kernel.code[site].kind # "copy"
  BY DEF SitesOf, Kinds, Accesses
<1> QED BY <1>1, <1>3, <1>4, ViewsIn, ExecuteSound

LEMMA CopyKeepsInv == ASSUME CheckInv, RunCopy PROVE CheckInv'
<1>1. Choosing
  BY DEF RunCopy
<1>2. PICK site \in SitesOf({"copy"}), mask \in kernel.masks :
        \E view \in {w \in Views(mask) : \A t \in mask : w[t].exact} : Execute(site, mask, view)
  BY DEF RunCopy
<1>3. PICK view \in Views(mask) : (\A t \in mask : view[t].exact) /\ Execute(site, mask, view)
  BY <1>2
<1>4. site \in DOMAIN kernel.code /\ kernel.code[site].kind \in Kinds
  BY DEF SitesOf, Kinds, Accesses
<1> QED BY <1>1, <1>3, <1>4, ViewsIn, ExecuteSound

LEMMA CollectiveKeeps == ASSUME CheckInv, RunCollective PROVE CheckInv'
<1>1. Choosing
  BY DEF RunCollective
<1>2. PICK site \in SitesOf({"mmaLoad", "mmaStore"}), mask \in kernel.masks :
        \E view \in kernel.views : Execute(site, mask, [t \in mask |-> view])
  BY DEF RunCollective
<1>3. PICK view \in [mask -> kernel.views] : Execute(site, mask, view)
  BY <1>2
<1>4. /\ site \in DOMAIN kernel.code /\ kernel.code[site].kind \in Kinds
      /\ kernel.code[site].kind # "copy"
  BY DEF SitesOf, Kinds, Accesses
<1> QED BY <1>1, <1>3, <1>4, ExecuteSound

LEMMA OrderKeeps == ASSUME CheckInv, RunOrder PROVE CheckInv'
<1>1. Choosing
  BY DEF RunOrder
<1>2. PICK site \in SitesOf({"group", "wait", "warpSync", "barrier"}), mask \in kernel.masks :
        Execute(site, mask, << >>)
  BY DEF RunOrder
<1>3. /\ site \in DOMAIN kernel.code /\ kernel.code[site].kind \in Kinds
      /\ kernel.code[site].kind \notin Accesses
  BY DEF SitesOf, Kinds, Accesses
<1>4. kernel.code[site].kind # "copy"
  BY <1>3 DEF Accesses
<1>5. PICK view : view = << >>
  OBVIOUS
<1> QED BY <1>1, <1>2, <1>3, <1>4, <1>5, ExecuteSound

LEMMA CloseKeeps == ASSUME CheckInv, CloseBody PROVE CheckInv'
<1>1. kernel \in Kernels /\ LoopType /\ State \in Sound /\ loop.turns = 0 /\ Good(State)
  BY DEF CheckInv, CloseBody, NoneSkipped, END_TURNS
<1>2. PICK n \in LoopTurns : loop' = [loop EXCEPT !.turns = n, !.turn = 1]
  BY DEF CloseBody
<1>3. n \in Nat
  BY KernelsAssumption
<1>4. LoopType'
  BY <1>1, <1>2, <1>3 DEF LoopType
<1>5. kernel' = kernel /\ check' = check /\ truth' = truth
  BY DEF CloseBody
<1>6. State' = State
  BY <1>5 DEF State
<1>7. Good(State)'
  BY <1>1, <1>6 DEF Good
<1> QED BY <1>1, <1>4, <1>5, <1>6, <1>7 DEF CheckInv

LEMMA TurnKeeps == ASSUME CheckInv, RunTurn PROVE CheckInv'
<1>1. kernel \in Kernels /\ LoopType /\ State \in Sound
  BY DEF CheckInv
<1>2. /\ Moves(RunBody(State, loop.body, loop.turn)) /\ kernel' = kernel
      /\ loop' = [loop EXCEPT !.turn = loop.turn + 1]
  BY DEF RunTurn
<1>3. loop.body \in Seq(Ops) /\ loop.turn \in Nat
  BY <1>1 DEF LoopType
<1>4. PICK r : r = RunBody(State, loop.body, loop.turn)
  OBVIOUS
<1>5. r \in Sound /\ State' = r
  <2>1. r \in Sound
    BY <1>1, <1>3, <1>4, BodySound DEF Lots
  <2> QED BY <1>2, <1>4, <2>1, MovesTo
<1>6. ASSUME NoneSkipped' PROVE Good(State)'
  <2>0. NoneSkipped
    BY <1>1, <1>2, <1>3, <1>6 DEF NoneSkipped, END_TURNS, LoopType
  <2>1. State \in Reliable
    BY <1>1, <2>0 DEF CheckInv, Reliable
  <2>2. r \in Reliable
    BY <1>3, <1>4, <2>1, BodySound DEF Lots
  <2> QED BY <1>5, <2>2 DEF Reliable, Good
<1>7. LoopType' /\ loop'.turns = loop.turns
  BY <1>1, <1>2 DEF LoopType
<1> QED BY <1>1, <1>2, <1>5, <1>6, <1>7 DEF CheckInv

LEMMA SkipKeeps == ASSUME CheckInv, SkipTurns PROVE CheckInv'
<1>1. kernel \in Kernels /\ LoopType /\ State \in Sound
  BY DEF CheckInv
<1>2. loop.body \in Seq(Ops) /\ loop.turn \in Nat /\ loop.turns \in Nat
  BY <1>1 DEF LoopType
<1>3. loop.turn = 2 /\ loop.turns > 4
  BY DEF SkipTurns, Skips, END_TURNS
<1>4. PICK last \in Nat : last = loop.turns - 2 /\ last - loop.turn \in Nat
  BY <1>2, <1>3
<1>5. PICK all : all = RunTurns(State, loop.body, loop.turn, last - loop.turn)
  OBVIOUS
<1>6. /\ check' = [check EXCEPT !.stamps = all.check.stamps] /\ truth' = all.truth
      /\ loop' = [loop EXCEPT !.turn = last] /\ kernel' = kernel
  BY <1>4, <1>5 DEF SkipTurns, END_TURNS
<1>7. all \in Sound
  BY <1>1, <1>2, <1>4, <1>5, TurnsSound DEF Lots
<1>8. State' \in Sound
  <2>1. check' = [mem |-> State.check.mem, stamps |-> all.check.stamps,
                  divergent |-> State.check.divergent]
    BY <1>1, <1>6 DEF State, Sound, States, Checks
  <2>2. State' = [check |-> check', truth |-> truth']
    BY DEF State
  <2>3. /\ State.check.mem \in Memories /\ CellsOk(State.check.mem)
        /\ State.check.divergent \in BOOLEAN
    BY <1>1, SoundParts
  <2>4. all.check.stamps \in [Warps -> Nat] /\ all.truth \in Truths
    BY <1>7, SoundParts
  <2> QED BY <1>6, <2>1, <2>2, <2>3, <2>4 DEF Sound, States, Checks
<1>9. LoopType' /\ loop'.turns = loop.turns
  BY <1>1, <1>4, <1>6 DEF LoopType
<1>10. ~NoneSkipped'
  <2>1. last > 2 /\ loop'.turn = last
    BY <1>1, <1>2, <1>3, <1>4, <1>6 DEF LoopType
  <2> QED BY <1>2, <1>3, <1>9, <2>1 DEF NoneSkipped, END_TURNS
<1> QED BY <1>1, <1>6, <1>8, <1>9, <1>10 DEF CheckInv

THEOREM CheckInvariant == Spec => []CheckInv
<1>1. Init => CheckInv
  <2> SUFFICES ASSUME Init PROVE CheckInv
    OBVIOUS
  <2>1. State \in Sound /\ Good(State)
    <3>1. State = [check |-> [mem |-> EmptyMemory, stamps |-> [w \in Warps |-> 0],
                              divergent |-> FALSE],
                   truth |-> NoTruth]
      BY DEF Init, State
    <3> QED BY <3>1, StartSound
  <2>2. LoopType
    <3>1. << >> \in Seq(Ops)
      BY EmptySeq
    <3> QED BY <3>1 DEF Init, LoopType
  <2> QED BY <2>1, <2>2 DEF Init, CheckInv
<1>2. CheckInv /\ [Next]_vars => CheckInv'
  <2> SUFFICES ASSUME CheckInv, [Next]_vars PROVE CheckInv'
    OBVIOUS
  <2>1. CASE RunAccess
    BY <2>1, AccessKeeps
  <2>2. CASE RunCopy
    BY <2>2, CopyKeepsInv
  <2>3. CASE RunCollective
    BY <2>3, CollectiveKeeps
  <2>4. CASE RunOrder
    BY <2>4, OrderKeeps
  <2>5. CASE CloseBody
    BY <2>5, CloseKeeps
  <2>6. CASE RunTurn
    BY <2>6, TurnKeeps
  <2>7. CASE SkipTurns
    BY <2>7, SkipKeeps
  <2>8. CASE UNCHANGED vars
    BY <2>8 DEF vars, CheckInv, NoneSkipped, LoopType, State, Good
  <2> QED BY <2>1, <2>2, <2>3, <2>4, <2>5, <2>6, <2>7, <2>8 DEF Next
<1> QED BY <1>1, <1>2, PTL DEF Spec

(* The memory of the check keeps its shape, in loops that skip turns too: a cell has a    *)
(* second reader only after a first, and is in flight only if written (memory.rs, Cell).  *)
THEOREM CheckTypes == Spec => []TypeOK
<1>1. CheckInv => TypeOK
  <2> SUFFICES ASSUME CheckInv PROVE TypeOK
    OBVIOUS
  <2>1. /\ check.mem \in Memories /\ CellsOk(check.mem)
    BY SoundParts DEF CheckInv, State
  <2>2. PICK m : m = check.mem
    OBVIOUS
  <2>3. m.ranges \subseteq [bytes : SUBSET Bytes, shared : BOOLEAN, touch : {r.touch : r \in m.ranges}]
    <3> SUFFICES ASSUME NEW r \in m.ranges
                 PROVE  r \in [bytes : SUBSET Bytes, shared : BOOLEAN,
                               touch : {x.touch : x \in m.ranges}]
      OBVIOUS
    <3>1. r \in RangeSet
      BY <2>1, <2>2 DEF Memories
    <3> QED BY <3>1 DEF RangeSet
  <2>4. m.hazards \subseteq HazardType
    BY <2>1, <2>2 DEF Memories
  <2>5. ASSUME NEW b \in Bytes
        PROVE  /\ m.cells[b].far # {} => m.cells[b].other # {}
               /\ m.cells[b].other # {} => m.cells[b].reader # {}
               /\ m.cells[b].inFlight => m.cells[b].writer # {}
               /\ ~IsEmpty(m.cells[b]) => b \in m.reached
    BY <2>1, <2>2 DEF CellsOk, CellOk
  <2> QED BY <2>2, <2>3, <2>4, <2>5 DEF TypeOK
<1> QED BY <1>1, CheckInvariant, PTL

(* Of a kernel called clean, no two threads of different warps raced, with copies in      *)
(* flight, barriers that keep them, and any number of threads, bytes, ops and turns run,  *)
(* although a cell keeps one writer and three readers only (memory.rs:29-34).             *)
THEOREM CleanKernels == Spec => [](NoneSkipped => CleanMeansNoRace)
<1>1. CheckInv => (NoneSkipped => CleanMeansNoRace)
  <2> SUFFICES ASSUME CheckInv, NoneSkipped PROVE CleanMeansNoRace
    OBVIOUS
  <2>1. CleanFree(check.mem, truth)
    BY DEF CheckInv, Good, Faithful, State
  <2> QED BY <2>1 DEF CleanMeansNoRace, Clean, CleanFree, NoCta
<1> QED BY <1>1, CheckInvariant, PTL

(* A race reported between exact accesses happened: at these two sites, in this order, of *)
(* two warps, of lanes that nothing orders, or a thread's read of its own copy in flight. *)
THEOREM ReportedRaces == Spec => [](NoneSkipped => RacesAreReal)
<1>1. CheckInv => (NoneSkipped => RacesAreReal)
  <2> SUFFICES ASSUME CheckInv, NoneSkipped PROVE RacesAreReal
    OBVIOUS
  <2>1. HazardsReal(check.mem.hazards, truth.races)
    BY DEF CheckInv, Good, Faithful, State
  <2> QED BY <2>1 DEF RacesAreReal, HazardsReal, Happening
<1> QED BY <1>1, CheckInvariant, PTL

(* An exact access that meets an earlier one of unknown address by another thread is      *)
(* reported, although a range is kept for an op and not for a thread.                     *)
THEOREM LaterExactReported == Spec => [](NoneSkipped => LaterExactFound)
<1>1. CheckInv => (NoneSkipped => LaterExactFound)
  <2> SUFFICES ASSUME CheckInv, NoneSkipped PROVE LaterExactFound
    OBVIOUS
  <2>1. LaterTold(check.mem.hazards, truth.races)
    BY DEF CheckInv, Good, Faithful, State
  <2> QED BY <2>1 DEF LaterExactFound, LaterTold
<1> QED BY <1>1, CheckInvariant, PTL

=============================================================================
