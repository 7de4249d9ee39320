---------------------------- MODULE PodEngineProofs ----------------------------
(***************************************************************************)
(* Theorems about PodEngine, for every job and every plan that is as       *)
(* PlanAssumption says.                                                    *)
(***************************************************************************)
EXTENDS PodEngine, ListProofs

-----------------------------------------------------------------------------
(* The job and its plan *)

LEMMA TheJob ==
    ASSUME jobName \in DOMAIN Jobs
    PROVE  /\ Job = Jobs[jobName] /\ Job.arena \in Nat /\ Job.width \in Nat \ {0}
           /\ \A n \in Pods : /\ InOrder(Job, n) /\ Named(Job, n)
                              /\ AllocFirst(Job, n) /\ Counted(Job, n)
<1>1. Job = Jobs[jobName]
  BY DEF Job, Catalog
<1>2. Job.arena \in Nat /\ Job.width \in Nat \ {0}
  BY <1>1, PodAssumption
<1>3. Pods = 0..(Jobs[jobName].width - 1)
  BY <1>1 DEF Pods
<1>4. \A n \in Pods : /\ InOrder(Job, n) /\ Named(Job, n)
                      /\ AllocFirst(Job, n) /\ Counted(Job, n)
  BY <1>1, <1>3, PlanAssumption
<1> QED BY <1>1, <1>2, <1>4

-----------------------------------------------------------------------------
(* Maps *)

IsMap(f) == f = [x \in DOMAIN f |-> f[x]]

-----------------------------------------------------------------------------
(* Engines and their arenas *)

Fields == {"table", "ready", "allocs", "frees", "running", "finished", "io", "tiles", "bump",
           "slabs", "parked", "kernels", "waiting", "fetching", "completions"}

IsEngine(e) == e = [f \in Fields |-> e[f]]

Buffers == [addr : Nat, class : Nat, resident : BOOLEAN, serves : Nat, expected : Nat]

TilesOk(e) ==
    /\ IsMap(e.tiles)
    /\ \A t \in DOMAIN e.tiles : e.tiles[t] \in Buffers
ListsOk(e) ==
    /\ IsMap(e.slabs) /\ DOMAIN e.slabs \subseteq Nat
    /\ \A c \in DOMAIN e.slabs : e.slabs[c] \in Seq(Nat)

(* All of it lies below the bump pointer, which lies in the arena.         *)
BelowBump(e) ==
    /\ e.bump \in 0..Job.arena
    /\ \A t \in DOMAIN e.tiles : e.tiles[t].addr + e.tiles[t].class <= e.bump
    /\ \A c \in DOMAIN e.slabs : \A i \in DOMAIN e.slabs[c] : e.slabs[c][i] + c <= e.bump

(* c bytes at a and d bytes at b have none in common.                      *)
Clear(a, c, b, d) == a + c <= b \/ b + d <= a

TilesClear(e) ==
    \A t, u \in DOMAIN e.tiles :
        t # u => Clear(e.tiles[t].addr, e.tiles[t].class, e.tiles[u].addr, e.tiles[u].class)
TilesClearOfLists(e) ==
    \A t \in DOMAIN e.tiles : \A c \in DOMAIN e.slabs : \A i \in DOMAIN e.slabs[c] :
        Clear(e.tiles[t].addr, e.tiles[t].class, e.slabs[c][i], c)
ListsClear(e) ==
    \A c, d \in DOMAIN e.slabs : \A i \in DOMAIN e.slabs[c], j \in DOMAIN e.slabs[d] :
        <<c, i>> # <<d, j>> => Clear(e.slabs[c][i], c, e.slabs[d][j], d)

ArenaOk(e) ==
    /\ TilesOk(e) /\ ListsOk(e) /\ BelowBump(e)
    /\ TilesClear(e) /\ TilesClearOfLists(e) /\ ListsClear(e)

LEMMA AlignUpIs ==
    ASSUME NEW x \in Nat
    PROVE  AlignUp(x) \in Nat /\ x <= AlignUp(x)
BY DEF AlignUp, ALIGN

LEMMA ClassIs ==
    ASSUME jobName \in DOMAIN Jobs, NEW n \in Pods, NEW id \in AllIds(n)
    PROVE  TileClass(Code(n, id).tile) \in Nat
<1> DEFINE b == TileBytes(Job, Code(n, id).tile)
<1>1. b \in Nat
  BY TheJob DEF Named, AllIds, Code
<1> HIDE DEF b
<1>2. AlignUp(b) \in Nat
  BY <1>1, AlignUpIs
<1>3. \E x \in {AlignUp(b), 256} : \A y \in {AlignUp(b), 256} : x >= y
  BY <1>2
<1>4. Max({AlignUp(b), 256}) \in {AlignUp(b), 256}
  BY <1>3 DEF Max
<1>5. Max({AlignUp(b), 256}) \in Nat
  BY <1>2, <1>4
<1> QED BY <1>5 DEF TileClass, SizeClass, MIN_CLASS, b

LEMMA FrontIs ==
    ASSUME NEW s \in Seq(Nat), s # <<>>
    PROVE  /\ Len(s) \in Nat \ {0} /\ DOMAIN s = 1..Len(s) /\ Last(s) = s[Len(s)]
           /\ Last(s) \in Nat /\ Front(s) \in Seq(Nat)
           /\ DOMAIN Front(s) = 1..(Len(s) - 1)
           /\ \A i \in 1..(Len(s) - 1) : Front(s)[i] = s[i]
<1>1. Len(s) \in Nat \ {0} /\ DOMAIN s = 1..Len(s) /\ Last(s) = s[Len(s)] /\ s[Len(s)] \in Nat
  BY LenProperties, EmptySeq, ElementOfSeq DEF Last
<1>2. Front(s) = SubSeq(s, 1, Len(s) - 1)
  BY DEF Front
<1>3. \A i \in 1..(Len(s) - 1) : s[i] \in Nat
  BY <1>1, ElementOfSeq
<1>4. /\ SubSeq(s, 1, Len(s) - 1) \in Seq(Nat)
      /\ DOMAIN SubSeq(s, 1, Len(s) - 1) = 1..(Len(s) - 1)
      /\ \A i \in 1..(Len(s) - 1) : SubSeq(s, 1, Len(s) - 1)[i] = s[i]
  BY <1>1
<1> QED BY <1>1, <1>2, <1>4


(* What an ALLOC does to the store and the arena.                          *)
LEMMA AllocFields ==
    ASSUME NEW e, IsEngine(e), NEW t
    PROVE  LET class == TileClass(t)
               addr  == Address(e, class)
               buf   == [addr |-> addr, class |-> class, resident |-> FALSE,
                         serves |-> 0, expected |-> 0]
               f     == AllocTile(e, t)
           IN /\ IsEngine(f) /\ f.tiles = Put(e.tiles, t, buf)
              /\ \A x \in Fields \ {"tiles", "slabs", "bump"} : f[x] = e[x]
              /\ FreeSlabs(e, class) # <<>> =>
                    f.slabs = [e.slabs EXCEPT ![class] = Front(@)] /\ f.bump = e.bump
              /\ FreeSlabs(e, class) = <<>> => f.slabs = e.slabs /\ f.bump = addr + class
<1> DEFINE class == TileClass(t)
           addr  == Address(e, class)
           buf   == [addr |-> addr, class |-> class, resident |-> FALSE,
                     serves |-> 0, expected |-> 0]
<1>1. AllocTile(e, t) =
        IF FreeSlabs(e, class) # <<>>
        THEN [e EXCEPT !.slabs[class] = Front(@), !.tiles = Put(@, t, buf)]
        ELSE [e EXCEPT !.bump = addr + class, !.tiles = Put(@, t, buf)]
  BY DEF AllocTile
<1> HIDE DEF buf, addr, class
<1>2. CASE FreeSlabs(e, class) # <<>>
  <2> DEFINE f == [e EXCEPT !.slabs[class] = Front(@), !.tiles = Put(@, t, buf)]
  <2>1. IsEngine(f) /\ f.tiles = Put(e.tiles, t, buf) /\ f.bump = e.bump
        /\ f.slabs = [e.slabs EXCEPT ![class] = Front(@)]
    BY DEF IsEngine, Fields
  <2>2. \A x \in Fields \ {"tiles", "slabs", "bump"} : f[x] = e[x]
    BY DEF IsEngine, Fields
  <2> HIDE DEF f
  <2>3. AllocTile(e, t) = f
    BY <1>1, <1>2 DEF f
  <2> QED BY <1>2, <2>1, <2>2, <2>3 DEF class, addr, buf
<1>3. CASE FreeSlabs(e, class) = <<>>
  <2> DEFINE f == [e EXCEPT !.bump = addr + class, !.tiles = Put(@, t, buf)]
  <2>1. IsEngine(f) /\ f.tiles = Put(e.tiles, t, buf) /\ f.bump = addr + class
        /\ f.slabs = e.slabs
    BY DEF IsEngine, Fields
  <2>2. \A x \in Fields \ {"tiles", "slabs", "bump"} : f[x] = e[x]
    BY DEF IsEngine, Fields
  <2> HIDE DEF f
  <2>3. AllocTile(e, t) = f
    BY <1>1, <1>3 DEF f
  <2> QED BY <1>3, <2>1, <2>2, <2>3 DEF class, addr, buf
<1> QED BY <1>2, <1>3

SameBut(e, f, S) == \A x \in Fields \ S : f[x] = e[x]

LEMMA AllocRest ==
    ASSUME NEW e, IsEngine(e), NEW t
    PROVE  SameBut(e, AllocTile(e, t), {"tiles", "slabs", "bump"})
<1> DEFINE class == TileClass(t)
           addr  == Address(e, class)
           buf   == [addr |-> addr, class |-> class, resident |-> FALSE,
                     serves |-> 0, expected |-> 0]
<1>1. AllocTile(e, t) =
        IF FreeSlabs(e, class) # <<>>
        THEN [e EXCEPT !.slabs[class] = Front(@), !.tiles = Put(@, t, buf)]
        ELSE [e EXCEPT !.bump = addr + class, !.tiles = Put(@, t, buf)]
  BY DEF AllocTile
<1> HIDE DEF buf, addr, class
<1> QED BY <1>1 DEF IsEngine, Fields, SameBut

LEMMA AllocArena ==
    ASSUME jobName \in DOMAIN Jobs, NEW e, IsEngine(e), ArenaOk(e), NEW t, TileClass(t) \in Nat,
           CanAlloc(e, TileClass(t))
    PROVE  ArenaOk(AllocTile(e, t))
<1> DEFINE class == TileClass(t)
           addr  == Address(e, class)
           buf   == [addr |-> addr, class |-> class, resident |-> FALSE,
                     serves |-> 0, expected |-> 0]
           f     == AllocTile(e, t)
<1>0. class \in Nat /\ Job.arena \in Nat /\ CanAlloc(e, class)
  BY TheJob
<1>1. /\ IsEngine(f) /\ f.tiles = Put(e.tiles, t, buf)
      /\ FreeSlabs(e, class) # <<>> =>
            f.slabs = [e.slabs EXCEPT ![class] = Front(@)] /\ f.bump = e.bump
      /\ FreeSlabs(e, class) = <<>> => f.slabs = e.slabs /\ f.bump = addr + class
  BY AllocFields
<1> HIDE DEF f, class
<1>2. /\ IsMap(f.tiles) /\ DOMAIN f.tiles = DOMAIN e.tiles \cup {t} /\ f.tiles[t] = buf
      /\ \A u \in DOMAIN e.tiles : u # t => f.tiles[u] = e.tiles[u]
  <2> HIDE DEF buf
  <2>1. f.tiles = Put(e.tiles, t, buf)
    BY <1>1
  <2>2. /\ IsMap(Put(e.tiles, t, buf)) /\ DOMAIN Put(e.tiles, t, buf) = DOMAIN e.tiles \cup {t}
        /\ Put(e.tiles, t, buf)[t] = buf
        /\ \A u \in DOMAIN e.tiles : u # t => Put(e.tiles, t, buf)[u] = e.tiles[u]
    BY DEF IsMap, Put
  <2> QED BY <2>1, <2>2
<1>3. f.tiles[t].addr = addr /\ f.tiles[t].class = class
  BY <1>2
<1>4. CASE FreeSlabs(e, class) # <<>>
  <2> DEFINE s == e.slabs[class]
             m == Len(s)
  <2>1. class \in DOMAIN e.slabs /\ FreeSlabs(e, class) = s /\ s \in Seq(Nat)
    BY <1>4 DEF FreeSlabs, ArenaOk, ListsOk
  <2>2. /\ m \in Nat \ {0} /\ DOMAIN s = 1..m /\ Last(s) = s[m]
        /\ Last(s) \in Nat /\ Front(s) \in Seq(Nat) /\ DOMAIN Front(s) = 1..(m - 1)
        /\ \A i \in 1..(m - 1) : Front(s)[i] = s[i]
    BY <1>4, <2>1, FrontIs
  <2>3. addr = s[m] /\ addr \in Nat
    BY <1>4, <2>1, <2>2 DEF Address
  <2>4. f.slabs = [e.slabs EXCEPT ![class] = Front(@)] /\ f.bump = e.bump
    BY <1>1, <1>4
  <2>5. /\ IsMap(f.slabs) /\ DOMAIN f.slabs = DOMAIN e.slabs /\ f.slabs[class] = Front(s)
        /\ \A c \in DOMAIN e.slabs : c # class => f.slabs[c] = e.slabs[c]
    BY <2>1, <2>4 DEF IsMap, ArenaOk, ListsOk
  <2> HIDE DEF s, m
  <2>6. ASSUME NEW c \in DOMAIN f.slabs, NEW i \in DOMAIN f.slabs[c]
        PROVE  /\ c \in DOMAIN e.slabs /\ i \in DOMAIN e.slabs[c]
               /\ f.slabs[c][i] = e.slabs[c][i] /\ <<c, i>> # <<class, m>>
    <3>1. CASE c = class
      BY <2>2, <2>5, <2>6, <3>1 DEF s
    <3>2. CASE c # class
      BY <2>5, <2>6, <3>2
    <3> QED BY <3>1, <3>2
  <2>7. m \in DOMAIN e.slabs[class] /\ e.slabs[class][m] = addr
    BY <2>2, <2>3 DEF s
  <2>8. TilesOk(f)
    <3>1. buf \in Buffers
      BY <1>0, <2>3 DEF Buffers
    <3> QED BY <1>2, <3>1 DEF TilesOk, ArenaOk
  <2>9. ListsOk(f)
    BY <2>2, <2>5 DEF ListsOk, ArenaOk
  <2>10. BelowBump(f)
    <3>1. addr + class <= e.bump
      BY <2>1, <2>7 DEF ArenaOk, BelowBump
    <3> QED BY <1>2, <1>3, <2>4, <2>6, <3>1 DEF ArenaOk, BelowBump
  <2>11. TilesClear(f)
    <3>1. ASSUME NEW u \in DOMAIN e.tiles
          PROVE  Clear(e.tiles[u].addr, e.tiles[u].class, addr, class)
      BY <2>1, <2>7 DEF ArenaOk, TilesClearOfLists
    <3>2. ASSUME NEW u \in DOMAIN f.tiles, NEW v \in DOMAIN f.tiles, u # v
          PROVE  Clear(f.tiles[u].addr, f.tiles[u].class, f.tiles[v].addr, f.tiles[v].class)
      <4>1. CASE u = t
        BY <1>2, <1>3, <3>1, <3>2, <4>1 DEF Clear
      <4>2. CASE v = t
        BY <1>2, <1>3, <3>1, <3>2, <4>2 DEF Clear
      <4>3. CASE u # t /\ v # t
        BY <1>2, <3>2, <4>3 DEF ArenaOk, TilesClear
      <4> QED BY <4>1, <4>2, <4>3
    <3> QED BY <3>2 DEF TilesClear
  <2>12. TilesClearOfLists(f)
    <3> SUFFICES ASSUME NEW u \in DOMAIN f.tiles, NEW c \in DOMAIN f.slabs, NEW i \in DOMAIN f.slabs[c]
                 PROVE  Clear(f.tiles[u].addr, f.tiles[u].class, f.slabs[c][i], c)
      BY DEF TilesClearOfLists
    <3>1. /\ c \in DOMAIN e.slabs /\ i \in DOMAIN e.slabs[c]
          /\ f.slabs[c][i] = e.slabs[c][i] /\ <<class, m>> # <<c, i>>
      BY <2>6
    <3>2. CASE u = t
      <4>1. Clear(e.slabs[class][m], class, e.slabs[c][i], c)
        BY <2>1, <2>7, <3>1 DEF ArenaOk, ListsClear
      <4> QED BY <1>3, <2>7, <3>1, <3>2, <4>1
    <3>3. CASE u # t
      BY <1>2, <3>1, <3>3 DEF ArenaOk, TilesClearOfLists
    <3> QED BY <3>2, <3>3
  <2>13. ListsClear(f)
    BY <2>6 DEF ArenaOk, ListsClear
  <2> QED BY <2>8, <2>9, <2>10, <2>11, <2>12, <2>13 DEF ArenaOk, f
<1>5. CASE FreeSlabs(e, class) = <<>>
  <2>1. f.slabs = e.slabs /\ f.bump = addr + class
    BY <1>1, <1>5
  <2>2. addr = AlignUp(e.bump) /\ AlignUp(e.bump) + class <= Job.arena
    BY <1>0, <1>5 DEF Address, CanAlloc, FitsOnTop
  <2>3. e.bump \in 0..Job.arena /\ e.bump \in Nat
    BY <1>0 DEF ArenaOk, BelowBump
  <2>4. addr \in Nat /\ e.bump <= addr /\ addr + class <= Job.arena
    BY <2>2, <2>3, AlignUpIs
  <2>5. TilesOk(f)
    <3>1. buf \in Buffers
      BY <1>0, <2>4 DEF Buffers
    <3> QED BY <1>2, <3>1 DEF TilesOk, ArenaOk
  <2>6. ListsOk(f)
    BY <2>1 DEF ListsOk, ArenaOk
  <2> HIDE DEF addr
  <2>7. ASSUME NEW u \in DOMAIN e.tiles
        PROVE  /\ e.tiles[u].addr \in Nat /\ e.tiles[u].class \in Nat
               /\ e.tiles[u].addr + e.tiles[u].class <= addr
    <3>1. e.tiles[u] \in Buffers /\ e.tiles[u].addr + e.tiles[u].class <= e.bump
      BY DEF ArenaOk, TilesOk, BelowBump
    <3> QED BY <2>3, <2>4, <3>1 DEF Buffers
  <2>8. ASSUME NEW c \in DOMAIN e.slabs, NEW i \in DOMAIN e.slabs[c]
        PROVE  c \in Nat /\ e.slabs[c][i] \in Nat /\ e.slabs[c][i] + c <= addr
    <3>1. c \in Nat /\ e.slabs[c] \in Seq(Nat) /\ e.slabs[c][i] + c <= e.bump
      BY DEF ArenaOk, ListsOk, BelowBump
    <3>2. e.slabs[c][i] \in Nat
      BY <3>1, LenProperties, ElementOfSeq
    <3> QED BY <2>3, <2>4, <3>1, <3>2
  <2>9. BelowBump(f)
    <3>1. f.bump \in 0..Job.arena
      BY <1>0, <2>1, <2>4
    <3>2. ASSUME NEW u \in DOMAIN f.tiles PROVE f.tiles[u].addr + f.tiles[u].class <= f.bump
      <4>1. CASE u = t
        BY <1>0, <1>3, <2>1, <2>4, <4>1
      <4>2. CASE u # t
        <5>1. u \in DOMAIN e.tiles /\ f.tiles[u] = e.tiles[u]
          BY <1>2, <4>2
        <5> QED BY <1>0, <2>1, <2>4, <2>7, <5>1
      <4> QED BY <4>1, <4>2
    <3>3. ASSUME NEW c \in DOMAIN f.slabs, NEW i \in DOMAIN f.slabs[c]
          PROVE  f.slabs[c][i] + c <= f.bump
      BY <1>0, <2>1, <2>4, <2>8
    <3> QED BY <3>1, <3>2, <3>3 DEF BelowBump
  <2>10. TilesClear(f)
    <3> SUFFICES ASSUME NEW u \in DOMAIN f.tiles, NEW v \in DOMAIN f.tiles, u # v
                 PROVE  Clear(f.tiles[u].addr, f.tiles[u].class, f.tiles[v].addr, f.tiles[v].class)
      BY DEF TilesClear
    <3>1. CASE u = t
      BY <1>2, <1>3, <2>7, <3>1 DEF Clear
    <3>2. CASE v = t
      BY <1>2, <1>3, <2>7, <3>2 DEF Clear
    <3>3. CASE u # t /\ v # t
      BY <1>2, <3>3 DEF ArenaOk, TilesClear
    <3> QED BY <3>1, <3>2, <3>3
  <2>11. TilesClearOfLists(f)
    <3> SUFFICES ASSUME NEW u \in DOMAIN f.tiles, NEW c \in DOMAIN f.slabs, NEW i \in DOMAIN f.slabs[c]
                 PROVE  Clear(f.tiles[u].addr, f.tiles[u].class, f.slabs[c][i], c)
      BY DEF TilesClearOfLists
    <3>1. CASE u = t
      BY <1>3, <2>1, <2>8, <3>1 DEF Clear
    <3>2. CASE u # t
      BY <1>2, <2>1, <3>2 DEF ArenaOk, TilesClearOfLists
    <3> QED BY <3>1, <3>2
  <2>12. ListsClear(f)
    BY <2>1 DEF ArenaOk, ListsClear
  <2> QED BY <2>5, <2>6, <2>9, <2>10, <2>11, <2>12 DEF ArenaOk, f
<1> QED BY <1>4, <1>5 DEF f


(* What a FREE does to them.                                               *)
LEMMA FreeFields ==
    ASSUME NEW e, IsEngine(e), NEW t
    PROVE  LET buf == e.tiles[t]
               f   == FreeTile(e, t)
           IN /\ IsEngine(f) /\ f.tiles = Without(e.tiles, t)
              /\ f.slabs = Put(e.slabs, buf.class, Append(FreeSlabs(e, buf.class), buf.addr))
              /\ \A x \in Fields \ {"tiles", "slabs"} : f[x] = e[x]
<1> DEFINE buf == e.tiles[t]
           new == Append(FreeSlabs(e, buf.class), buf.addr)
           f   == [e EXCEPT !.tiles = Without(@, t), !.slabs = Put(@, buf.class, new)]
<1>1. FreeTile(e, t) = f
  BY DEF FreeTile
<1> HIDE DEF buf, new
<1>2. /\ IsEngine(f) /\ f.tiles = Without(e.tiles, t) /\ f.slabs = Put(e.slabs, buf.class, new)
      /\ \A x \in Fields \ {"tiles", "slabs"} : f[x] = e[x]
  BY DEF IsEngine, Fields
<1> HIDE DEF f
<1> QED BY <1>1, <1>2 DEF buf, new

LEMMA FreeArena ==
    ASSUME NEW e, IsEngine(e), ArenaOk(e), NEW t \in DOMAIN e.tiles
    PROVE  ArenaOk(FreeTile(e, t))
<1> DEFINE buf == e.tiles[t]
           k   == buf.class
           old == FreeSlabs(e, k)
           new == Append(old, buf.addr)
           m   == Len(old)
           f   == FreeTile(e, t)
<1>1. /\ f.tiles = Without(e.tiles, t) /\ f.slabs = Put(e.slabs, k, new) /\ f.bump = e.bump
  <2>1. "bump" \in Fields \ {"tiles", "slabs"}
    BY DEF Fields
  <2> QED BY <2>1, FreeFields
<1>2. k \in Nat /\ buf.addr \in Nat /\ buf.addr + k <= e.bump
  BY DEF ArenaOk, TilesOk, Buffers, BelowBump
<1>3. old \in Seq(Nat)
  BY EmptySeq DEF FreeSlabs, ArenaOk, ListsOk
<1> HIDE DEF buf, k, f
<1>4. /\ new \in Seq(Nat) /\ m \in Nat /\ DOMAIN old = 1..m /\ DOMAIN new = 1..(m + 1)
      /\ \A i \in 1..m : new[i] = old[i]
      /\ new[m + 1] = buf.addr
  BY <1>2, <1>3, AppendProperties, LenProperties
<1>5. k \in DOMAIN e.slabs => old = e.slabs[k]
  BY DEF FreeSlabs
<1>6. k \notin DOMAIN e.slabs => m = 0
  BY EmptySeq DEF FreeSlabs
<1> HIDE DEF old, new, m
<1>7. /\ IsMap(f.tiles) /\ DOMAIN f.tiles = DOMAIN e.tiles \ {t}
      /\ \A u \in DOMAIN f.tiles : f.tiles[u] = e.tiles[u]
  BY <1>1 DEF IsMap, Without
<1>8. /\ IsMap(f.slabs) /\ DOMAIN f.slabs = DOMAIN e.slabs \cup {k} /\ f.slabs[k] = new
      /\ \A c \in DOMAIN e.slabs : c # k => f.slabs[c] = e.slabs[c]
  BY <1>1 DEF IsMap, Put
(* A slab on a list was there before, or is the tile's.                    *)
<1>9. ASSUME NEW c \in DOMAIN f.slabs, NEW i \in DOMAIN f.slabs[c]
      PROVE  \/ c = k /\ i = m + 1 /\ f.slabs[c][i] = buf.addr
             \/ c \in DOMAIN e.slabs /\ i \in DOMAIN e.slabs[c] /\ f.slabs[c][i] = e.slabs[c][i]
  <2>1. CASE c # k
    BY <1>8, <1>9, <2>1
  <2>2. CASE c = k
    <3>1. i \in 1..(m + 1) /\ f.slabs[c][i] = new[i]
      BY <1>4, <1>8, <1>9, <2>2
    <3>2. CASE i = m + 1
      BY <1>4, <2>2, <3>1, <3>2
    <3>3. CASE i # m + 1
      <4>1. i \in 1..m
        BY <1>4, <3>1, <3>3
      <4>2. k \in DOMAIN e.slabs
        BY <1>6, <4>1
      <4> QED BY <1>4, <1>5, <2>2, <3>1, <4>1, <4>2
    <3> QED BY <3>2, <3>3
  <2> QED BY <2>1, <2>2
<1>10. TilesOk(f)
  BY <1>7 DEF TilesOk, ArenaOk
<1>11. ListsOk(f)
  BY <1>2, <1>4, <1>8 DEF ListsOk, ArenaOk
<1>12. BelowBump(f)
  <2>1. \A u \in DOMAIN f.tiles : f.tiles[u].addr + f.tiles[u].class <= f.bump
    BY <1>1, <1>7 DEF ArenaOk, BelowBump
  <2>2. ASSUME NEW c \in DOMAIN f.slabs, NEW i \in DOMAIN f.slabs[c]
        PROVE  f.slabs[c][i] + c <= f.bump
    BY <1>1, <1>2, <1>9 DEF ArenaOk, BelowBump
  <2> QED BY <1>1, <2>1, <2>2 DEF ArenaOk, BelowBump
<1>13. TilesClear(f)
  BY <1>7 DEF ArenaOk, TilesClear
<1>14. TilesClearOfLists(f)
  <2> SUFFICES ASSUME NEW u \in DOMAIN f.tiles, NEW c \in DOMAIN f.slabs, NEW i \in DOMAIN f.slabs[c]
               PROVE  Clear(f.tiles[u].addr, f.tiles[u].class, f.slabs[c][i], c)
    BY DEF TilesClearOfLists
  <2>1. u \in DOMAIN e.tiles /\ u # t /\ f.tiles[u] = e.tiles[u]
    BY <1>7
  <2>2. CASE c = k /\ i = m + 1 /\ f.slabs[c][i] = buf.addr
    BY <2>1, <2>2 DEF ArenaOk, TilesClear, buf, k
  <2>3. CASE c \in DOMAIN e.slabs /\ i \in DOMAIN e.slabs[c] /\ f.slabs[c][i] = e.slabs[c][i]
    BY <2>1, <2>3 DEF ArenaOk, TilesClearOfLists
  <2> QED BY <1>9, <2>2, <2>3
<1>15. ListsClear(f)
  <2> SUFFICES ASSUME NEW c \in DOMAIN f.slabs, NEW d \in DOMAIN f.slabs,
                      NEW i \in DOMAIN f.slabs[c], NEW j \in DOMAIN f.slabs[d],
                      <<c, i>> # <<d, j>>
               PROVE  Clear(f.slabs[c][i], c, f.slabs[d][j], d)
    BY DEF ListsClear
  <2> DEFINE Old(x, y) == /\ x \in DOMAIN e.slabs /\ y \in DOMAIN e.slabs[x]
                          /\ f.slabs[x][y] = e.slabs[x][y]
             New(x, y) == x = k /\ y = m + 1 /\ f.slabs[x][y] = buf.addr
  <2>1. ASSUME NEW x, NEW y, Old(x, y) PROVE Clear(buf.addr, k, f.slabs[x][y], x)
    BY <2>1 DEF ArenaOk, TilesClearOfLists, buf, k
  <2>2. CASE Old(c, i) /\ Old(d, j)
    BY <2>2 DEF ArenaOk, ListsClear
  <2>3. CASE New(c, i) /\ Old(d, j)
    BY <2>1, <2>3
  <2>4. CASE Old(c, i) /\ New(d, j)
    BY <2>1, <2>4 DEF Clear
  <2>5. ~(New(c, i) /\ New(d, j))
    OBVIOUS
  <2> QED BY <1>9, <2>2, <2>3, <2>4, <2>5
<1> QED BY <1>10, <1>11, <1>12, <1>13, <1>14, <1>15 DEF ArenaOk, f

(* The arena is as good as it was when no buffer moved.                    *)
SameBlocks(e, f) ==
    /\ f.slabs = e.slabs /\ f.bump = e.bump
    /\ IsMap(f.tiles) /\ DOMAIN f.tiles = DOMAIN e.tiles
    /\ \A t \in DOMAIN e.tiles : /\ f.tiles[t].addr = e.tiles[t].addr
                                 /\ f.tiles[t].class = e.tiles[t].class
                                 /\ f.tiles[t] \in Buffers

LEMMA SameArena ==
    ASSUME NEW e, NEW f, ArenaOk(e), SameBlocks(e, f)
    PROVE  ArenaOk(f)
<1>1. TilesOk(f) /\ ListsOk(f)
  BY DEF ArenaOk, TilesOk, ListsOk, SameBlocks
<1>2. BelowBump(f)
  BY DEF ArenaOk, BelowBump, SameBlocks
<1>3. TilesClear(f)
  BY DEF ArenaOk, TilesClear, SameBlocks
<1>4. TilesClearOfLists(f) /\ ListsClear(f)
  BY DEF ArenaOk, TilesClearOfLists, ListsClear, SameBlocks
<1> QED BY <1>1, <1>2, <1>3, <1>4 DEF ArenaOk


-----------------------------------------------------------------------------
(* An engine between two of its operations: L are the ids of the table     *)
(* that somebody else has in hand, D what was reported, and B bounds the   *)
(* serves there can have been of a tile.                                   *)

(* The places in which an id can wait.                                     *)
Placed(e) ==
    ToSet(e.ready) \cup ToSet(e.allocs) \cup ToSet(e.frees) \cup ToSet(e.waiting)
    \cup DOMAIN e.running

ListOf(n, s) == s \in Seq(AllIds(n)) /\ IsInjective(s)

ListsOfIds(n, e) ==
    ListOf(n, e.ready) /\ ListOf(n, e.allocs) /\ ListOf(n, e.frees) /\ ListOf(n, e.waiting)

(* An id of the table is in one place, or in none.                         *)
Apart(e, L) ==
    /\ L \cap Placed(e) = {}
    /\ DOMAIN e.running \cap (ToSet(e.ready) \cup ToSet(e.allocs) \cup ToSet(e.frees)
                              \cup ToSet(e.waiting)) = {}
    /\ ToSet(e.waiting) \cap (ToSet(e.ready) \cup ToSet(e.allocs) \cup ToSet(e.frees)) = {}
    /\ ToSet(e.frees) \cap (ToSet(e.ready) \cup ToSet(e.allocs)) = {}
    /\ ToSet(e.allocs) \cap ToSet(e.ready) = {}

InTable(n, e, L) ==
    /\ e.table \subseteq AllIds(n) /\ Placed(e) \cup L \subseteq e.table
    /\ e.finished \subseteq DOMAIN e.running

(* What waits in a place waits for what the place is for.                  *)
OpsOk(n, e) ==
    /\ \A id \in ToSet(e.allocs) : Code(n, id).op = "alloc"
    /\ \A id \in ToSet(e.frees) : Code(n, id).op = "free"
    /\ \A id \in ToSet(e.waiting) \cup DOMAIN e.running : Code(n, id).op = "compute"

(* The ids that are done, and their order.                                 *)
Done(e, D) == D \cup e.completions

DoneOk(n, e, D) ==
    /\ Done(e, D) \subseteq AllIds(n) /\ Done(e, D) \cap e.table = {}
    /\ \A id \in Done(e, D) : Code(n, id).op # "alloc" =>
            \A t \in Uses(Code(n, id)) : Alloc(t) \in Done(e, D)

DepsOk(n, e, L, D) ==
    /\ \A id \in e.table : Code(n, id).deps \subseteq e.table \cup Done(e, D)
    /\ \A id \in Placed(e) \cup L : Code(n, id).deps \cap e.table = {}

(* Tiles, and the serves their FREEs wait for.                             *)
TileSet(n) == {id[2] : id \in AllIds(n)}

TilesKnown(n, e, D) ==
    /\ DOMAIN e.tiles \subseteq TileSet(n)
    /\ \A id \in Done(e, D) : Code(n, id).op = "alloc" =>
            id[2] \in DOMAIN e.tiles \/ Free(id[2]) \in Done(e, D)

FreesKnown(n, e, L) ==
    \A id \in ToSet(e.frees) \cup L : Code(n, id).op = "free" =>
        id[2] \in DOMAIN e.tiles /\ e.tiles[id[2]].expected = Code(n, id).serves

ServesOk(n, e, D, B) ==
    /\ \A t \in DOMAIN e.tiles : e.tiles[t].serves <= B[t]
    /\ \A id \in Done(e, D) : Code(n, id).op = "free" => Code(n, id).serves <= B[id[2]]

Orderly(n, e, L, D) ==
    /\ IsEngine(e) /\ ListsOfIds(n, e) /\ Apart(e, L) /\ InTable(n, e, L)
    /\ OpsOk(n, e) /\ DoneOk(n, e, D) /\ DepsOk(n, e, L, D)
Stocked(n, e, L, D, B) ==
    ArenaOk(e) /\ TilesKnown(n, e, D) /\ FreesKnown(n, e, L) /\ ServesOk(n, e, D, B)
Good(n, e, L, D, B) == Orderly(n, e, L, D) /\ Stocked(n, e, L, D, B)

Context(n, D, B) ==
    /\ jobName \in DOMAIN Jobs /\ n \in Pods /\ D \subseteq AllIds(n)
    /\ B \in [TileSet(n) -> Nat]

(* What operations leave as it was.                                        *)
Kept == {"running", "finished", "io", "kernels", "waiting", "fetching", "parked"}

Moves(n, e, f) ==
    /\ f.table \subseteq e.table /\ e.completions \subseteq f.completions
    /\ f.completions \cup f.table = e.completions \cup e.table
    /\ \A id \in ToSet(f.ready) : id \in ToSet(e.ready) \/ Code(n, id).deps \cap e.table # {}
    /\ \A x \in Kept : f[x] = e[x]

LEMMA MovesOn ==
    ASSUME NEW n, NEW e, NEW f, NEW g, Moves(n, e, f), Moves(n, f, g)
    PROVE  Moves(n, e, g)
BY DEF Moves

(* All that a tile's users need is done when what they depend on is.       *)
LEMMA AllocDone ==
    ASSUME NEW n, NEW D, NEW B, Context(n, D, B), NEW e, DoneOk(n, e, D),
           NEW id \in AllIds(n), Code(n, id).op # "alloc", Code(n, id).deps \subseteq Done(e, D),
           NEW t \in Uses(Code(n, id))
    PROVE  Alloc(t) \in Done(e, D)
<1>1. AllocFirst(Job, n) /\ Code(n, id) = Job.code[n][id] /\ id \in DOMAIN Job.code[n]
  BY TheJob DEF Context, Code, AllIds
<1>2. \/ Alloc(t) \in Code(n, id).deps
      \/ \E d \in Code(n, id).deps : Code(n, d).op # "alloc" /\ t \in Uses(Code(n, d))
  BY <1>1 DEF AllocFirst, Code
<1>3. CASE Alloc(t) \in Code(n, id).deps
  BY <1>3
<1>4. ASSUME NEW d \in Code(n, id).deps, Code(n, d).op # "alloc", t \in Uses(Code(n, d))
      PROVE  Alloc(t) \in Done(e, D)
  BY <1>4 DEF DoneOk
<1> QED BY <1>2, <1>3, <1>4

(* What a completion changes.                                              *)
Now(n, e, id) == Only(Ids(Program(n)), Released(n, e.table \ {id}, id))

Completed(n, e, id, f) ==
    /\ IsEngine(f) /\ f.table = e.table \ {id}
    /\ f.ready = e.ready \o Now(n, e, id)
    /\ f.completions = e.completions \cup {id}
    /\ \A x \in Fields \ {"table", "ready", "completions"} : f[x] = e[x]

LEMMA CompleteFields ==
    ASSUME NEW n, NEW e, IsEngine(e), NEW id, id \in e.table
    PROVE  Completed(n, e, id, Complete(n, e, id))
<1> DEFINE left == e.table \ {id}
           now  == Only(Ids(Program(n)), Released(n, left, id))
           f    == [e EXCEPT !.table = left, !.ready = @ \o now, !.completions = @ \cup {id}]
<1>1. Complete(n, e, id) = f
  BY DEF Complete
<1> HIDE DEF left, now
<1>2. /\ IsEngine(f) /\ f.table = left /\ f.ready = e.ready \o now
      /\ f.completions = e.completions \cup {id}
      /\ \A x \in Fields \ {"table", "ready", "completions"} : f[x] = e[x]
  BY DEF IsEngine, Fields
<1> HIDE DEF f
<1> QED BY <1>1, <1>2 DEF left, now, Now, Completed

LEMMA ReleasedIs ==
    ASSUME NEW n, NEW D, NEW B, Context(n, D, B), NEW left, NEW id
    PROVE  LET now == Only(Ids(Program(n)), Released(n, left, id))
           IN ListOf(n, now) /\ ToSet(now) \subseteq Released(n, left, id)
<1> DEFINE s == Ids(Program(n))
           S == Released(n, left, id)
<1>1. s \in Seq(AllIds(n)) /\ IsInjective(s)
  BY TheJob DEF Context, InOrder, Program, AllIds
<1> HIDE DEF s, S
<1>2. /\ Only(s, S) \in Seq(AllIds(n)) /\ ToSet(Only(s, S)) = ToSet(s) \cap S
      /\ IsInjective(Only(s, S))
  BY <1>1, OnlyIs
<1> QED BY <1>2 DEF ListOf, s, S


LEMMA CompleteOrderly ==
    ASSUME NEW n, NEW D, NEW B, Context(n, D, B), NEW e, NEW L, Orderly(n, e, L, D),
           NEW id \in L
    PROVE  Orderly(n, Complete(n, e, id), L \ {id}, D) /\ Moves(n, e, Complete(n, e, id))
<1> DEFINE f    == Complete(n, e, id)
           left == e.table \ {id}
           now  == Only(Ids(Program(n)), Released(n, left, id))
           M    == L \ {id}
<1>1. id \in e.table /\ id \notin Placed(e) /\ id \in AllIds(n) /\ IsEngine(e)
  BY DEF Orderly, InTable, Apart
<1>2. /\ IsEngine(f) /\ f.table = left /\ f.ready = e.ready \o now
      /\ f.completions = e.completions \cup {id}
      /\ \A x \in Fields \ {"table", "ready", "completions"} : f[x] = e[x]
  <2>1. Completed(n, e, id, f)
    BY <1>1, CompleteFields
  <2> HIDE DEF f, now
  <2>2. now = Now(n, e, id)
    BY DEF now, Now
  <2> QED BY <2>1, <2>2 DEF Completed
<1>3. ListOf(n, now) /\ ToSet(now) \subseteq Released(n, left, id)
  BY ReleasedIs
<1> HIDE DEF f, now
<1>4. /\ f.allocs = e.allocs /\ f.frees = e.frees /\ f.waiting = e.waiting
      /\ f.running = e.running /\ f.finished = e.finished /\ f.tiles = e.tiles
  BY <1>2 DEF Fields
(* Who is released still depended on the id, so it waited nowhere.         *)
<1>5. ToSet(now) \subseteq left /\ ToSet(now) \cap (Placed(e) \cup L) = {}
  <2>1. \A i \in ToSet(now) : i \in left /\ id \in Code(n, i).deps
    BY <1>3 DEF Released
  <2>2. \A i \in Placed(e) \cup L : id \notin Code(n, i).deps
    BY <1>1 DEF Orderly, DepsOk
  <2> QED BY <2>1, <2>2
<1>6. /\ ListOf(n, f.ready) /\ ToSet(f.ready) = ToSet(e.ready) \cup ToSet(now)
  <2>1. ListOf(n, e.ready)
    BY DEF Orderly, ListsOfIds
  <2>2. ToSet(e.ready) \cap ToSet(now) = {}
    BY <1>5 DEF Placed
  <2>3. /\ e.ready \o now \in Seq(AllIds(n))
        /\ ToSet(e.ready \o now) = ToSet(e.ready) \cup ToSet(now)
        /\ IsInjective(e.ready \o now)
    BY <1>3, <2>1, <2>2, ConcatIs DEF ListOf
  <2> QED BY <1>2, <2>3 DEF ListOf
<1>7. ListsOfIds(n, f)
  BY <1>4, <1>6 DEF Orderly, ListsOfIds
<1>8. Placed(f) = Placed(e) \cup ToSet(now)
  BY <1>4, <1>6 DEF Placed
<1>9. Apart(f, M)
  <2>1. Apart(e, L)
    BY DEF Orderly
  <2>2. M \cap Placed(f) = {}
    BY <1>5, <1>8, <2>1 DEF Apart
  <2>3. ToSet(now) \cap (DOMAIN e.running \cup ToSet(e.waiting) \cup ToSet(e.frees)
                         \cup ToSet(e.allocs)) = {}
    BY <1>5 DEF Placed
  <2> QED BY <1>4, <1>6, <2>1, <2>2, <2>3 DEF Apart
<1>10. InTable(n, f, M)
  <2>1. InTable(n, e, L)
    BY DEF Orderly
  <2>2. f.table \subseteq AllIds(n) /\ f.finished \subseteq DOMAIN f.running
    BY <1>2, <1>4, <2>1 DEF InTable
  <2>3. Placed(f) \cup M \subseteq f.table
    BY <1>1, <1>2, <1>5, <1>8, <2>1 DEF InTable
  <2> QED BY <2>2, <2>3 DEF InTable
<1>11. OpsOk(n, f)
  BY <1>4 DEF Orderly, OpsOk
<1>12. Done(f, D) = Done(e, D) \cup {id}
  BY <1>2 DEF Done
<1>13. Code(n, id).deps \subseteq Done(e, D)
  BY <1>1 DEF Orderly, DepsOk
<1>14. DoneOk(n, f, D)
  <2>1. DoneOk(n, e, D)
    BY DEF Orderly
  <2>2. Code(n, id).op # "alloc" => \A t \in Uses(Code(n, id)) : Alloc(t) \in Done(e, D)
    BY <1>1, <1>13, <2>1, AllocDone
  <2>3. Done(f, D) \subseteq AllIds(n) /\ Done(f, D) \cap f.table = {}
    BY <1>1, <1>2, <1>12, <2>1 DEF DoneOk
  <2>4. ASSUME NEW i \in Done(f, D), Code(n, i).op # "alloc", NEW t \in Uses(Code(n, i))
        PROVE  Alloc(t) \in Done(f, D)
    BY <1>12, <2>1, <2>2, <2>4 DEF DoneOk
  <2> QED BY <2>3, <2>4 DEF DoneOk
<1>15. DepsOk(n, f, M, D)
  <2>1. DepsOk(n, e, L, D)
    BY DEF Orderly
  <2>2. \A i \in f.table : Code(n, i).deps \subseteq f.table \cup Done(f, D)
    BY <1>2, <1>12, <2>1 DEF DepsOk
  <2>3. \A i \in ToSet(now) : Code(n, i).deps \cap left = {}
    BY <1>3 DEF Released
  <2>4. \A i \in Placed(f) \cup M : Code(n, i).deps \cap f.table = {}
    BY <1>2, <1>8, <2>1, <2>3 DEF DepsOk
  <2> QED BY <2>2, <2>4 DEF DepsOk
<1>16. Moves(n, e, f)
  <2>1. \A x \in Kept : f[x] = e[x]
    BY <1>2 DEF Kept, Fields
  <2>2. \A i \in ToSet(now) : id \in Code(n, i).deps
    BY <1>3 DEF Released
  <2>3. \A i \in ToSet(f.ready) : i \in ToSet(e.ready) \/ Code(n, i).deps \cap e.table # {}
    BY <1>1, <1>6, <2>2
  <2> QED BY <1>1, <1>2, <2>1, <2>3 DEF Moves
<1>17. Orderly(n, f, M, D)
  BY <1>2, <1>7, <1>9, <1>10, <1>11, <1>14, <1>15 DEF Orderly
<1> QED BY <1>16, <1>17 DEF f

(* What has nothing to do with the store leaves it as it was.              *)
LEMMA CompleteStocked ==
    ASSUME NEW n, NEW D, NEW B, Context(n, D, B), NEW e, NEW L, Good(n, e, L, D, B),
           NEW id \in L, Code(n, id).op \notin {"alloc", "free"}
    PROVE  Good(n, Complete(n, e, id), L \ {id}, D, B)
<1> DEFINE f == Complete(n, e, id)
<1>1. id \in e.table /\ IsEngine(e)
  BY DEF Good, Orderly, InTable
<1>2. /\ f.tiles = e.tiles /\ f.slabs = e.slabs /\ f.bump = e.bump /\ f.frees = e.frees
      /\ f.completions = e.completions \cup {id}
  <2>1. Completed(n, e, id, f)
    BY <1>1, CompleteFields
  <2> HIDE DEF f
  <2> QED BY <2>1 DEF Fields, Completed
<1>3. Orderly(n, f, L \ {id}, D)
  BY CompleteOrderly DEF Good
<1> HIDE DEF f
<1>4. Done(f, D) = Done(e, D) \cup {id}
  BY <1>2 DEF Done
<1>5. ArenaOk(f)
  BY <1>2 DEF Good, Stocked, ArenaOk, TilesOk, ListsOk, BelowBump, TilesClear,
              TilesClearOfLists, ListsClear
<1>6. TilesKnown(n, f, D)
  BY <1>2, <1>4 DEF Good, Stocked, TilesKnown
<1>7. FreesKnown(n, f, L \ {id})
  BY <1>2 DEF Good, Stocked, FreesKnown
<1>8. ServesOk(n, f, D, B)
  BY <1>2, <1>4 DEF Good, Stocked, ServesOk
<1> QED BY <1>3, <1>5, <1>6, <1>7, <1>8 DEF Good, Stocked, f


-----------------------------------------------------------------------------
(* ALLOC and FREE *)

(* The order is what it was when only the store and the arena changed.     *)
LEMMA SameOrder ==
    ASSUME NEW n, NEW D, NEW e, NEW f, NEW L, Orderly(n, e, L, D), IsEngine(f),
           \A x \in Fields \ {"tiles", "slabs", "bump"} : f[x] = e[x]
    PROVE  /\ Orderly(n, f, L, D) /\ Moves(n, e, f) /\ Done(f, D) = Done(e, D)
           /\ f.frees = e.frees /\ f.table = e.table
<1>1. /\ f.table = e.table /\ f.ready = e.ready /\ f.allocs = e.allocs /\ f.frees = e.frees
      /\ f.waiting = e.waiting /\ f.running = e.running /\ f.finished = e.finished
      /\ f.completions = e.completions /\ \A x \in Kept : f[x] = e[x]
  BY DEF Fields, Kept
<1>2. Placed(f) = Placed(e) /\ Done(f, D) = Done(e, D)
  BY <1>1 DEF Placed, Done
<1>3. ListsOfIds(n, f) /\ Apart(f, L) /\ InTable(n, f, L) /\ OpsOk(n, f)
  BY <1>1, <1>2 DEF Orderly, ListsOfIds, Apart, InTable, OpsOk
<1>4. DoneOk(n, f, D) /\ DepsOk(n, f, L, D)
  BY <1>1, <1>2 DEF Orderly, DoneOk, DepsOk
<1>5. Orderly(n, f, L, D)
  BY <1>3, <1>4 DEF Orderly
<1>6. Moves(n, e, f)
  BY <1>1 DEF Moves
<1> QED BY <1>1, <1>2, <1>5, <1>6

(* And what is in store when only the order did.                           *)
LEMMA SameStock ==
    ASSUME NEW e, NEW f, ArenaOk(e), f.tiles = e.tiles, f.slabs = e.slabs, f.bump = e.bump
    PROVE  ArenaOk(f)
BY DEF ArenaOk, TilesOk, ListsOk, BelowBump, TilesClear, TilesClearOfLists, ListsClear

(* An id that somebody has in hand is put in a list of its own kind.       *)
LEMMA ParkedOrder ==
    ASSUME NEW n, NEW D, NEW e, NEW L, Orderly(n, e, L, D), NEW id \in L,
           NEW f, IsEngine(f),
           \/ /\ f.allocs = Append(e.allocs, id) /\ Code(n, id).op = "alloc"
              /\ \A x \in Fields \ {"allocs"} : f[x] = e[x]
           \/ /\ f.frees = Append(e.frees, id) /\ Code(n, id).op = "free"
              /\ \A x \in Fields \ {"frees"} : f[x] = e[x]
    PROVE  /\ Orderly(n, f, L \ {id}, D) /\ Moves(n, e, f) /\ Done(f, D) = Done(e, D)
           /\ ToSet(f.frees) \cup (L \ {id}) \subseteq ToSet(e.frees) \cup L
<1>1. /\ f.table = e.table /\ f.ready = e.ready /\ f.waiting = e.waiting
      /\ f.running = e.running /\ f.finished = e.finished
      /\ f.completions = e.completions /\ \A x \in Kept : f[x] = e[x]
  BY DEF Fields, Kept
<1>2. Done(f, D) = Done(e, D) /\ Moves(n, e, f)
  BY <1>1 DEF Done, Moves
<1>3. id \in AllIds(n) /\ id \in e.table /\ id \notin Placed(e)
  BY DEF Orderly, InTable, Apart
<1>4. ListsOfIds(n, e) /\ Apart(e, L) /\ InTable(n, e, L) /\ OpsOk(n, e) /\ DoneOk(n, e, D)
      /\ DepsOk(n, e, L, D)
  BY DEF Orderly
<1>5. DoneOk(n, f, D)
  BY <1>1, <1>2, <1>4 DEF DoneOk
<1>6. CASE f.allocs = Append(e.allocs, id) /\ Code(n, id).op = "alloc" /\ f.frees = e.frees
  <2>1. e.allocs \in Seq(AllIds(n)) /\ IsInjective(e.allocs) /\ id \notin ToSet(e.allocs)
    BY <1>3, <1>4 DEF ListsOfIds, ListOf, Placed
  <2>2. ListOf(n, f.allocs) /\ ToSet(f.allocs) = ToSet(e.allocs) \cup {id}
    BY <1>3, <1>6, <2>1, AppendIs DEF ListOf
  <2>3. ListsOfIds(n, f)
    BY <1>1, <1>4, <1>6, <2>2 DEF ListsOfIds
  <2>4. Placed(f) = Placed(e) \cup {id}
    BY <1>1, <1>6, <2>2 DEF Placed
  <2>5. Apart(f, L \ {id})
    <3>1. (L \ {id}) \cap Placed(f) = {}
      BY <1>4, <2>4 DEF Apart
    <3>2. id \notin DOMAIN e.running /\ id \notin ToSet(e.waiting) /\ id \notin ToSet(e.frees)
          /\ id \notin ToSet(e.ready)
      BY <1>3 DEF Placed
    <3> QED BY <1>1, <1>4, <1>6, <2>2, <3>1, <3>2 DEF Apart
  <2>6. InTable(n, f, L \ {id})
    BY <1>1, <1>3, <1>4, <2>4 DEF InTable
  <2>7. OpsOk(n, f)
    BY <1>1, <1>4, <1>6, <2>2 DEF OpsOk
  <2>8. DepsOk(n, f, L \ {id}, D)
    BY <1>1, <1>2, <1>4, <2>4 DEF DepsOk
  <2>9. Orderly(n, f, L \ {id}, D)
    BY <1>5, <2>3, <2>5, <2>6, <2>7, <2>8 DEF Orderly
  <2> QED BY <1>2, <1>6, <2>9
<1>7. CASE f.frees = Append(e.frees, id) /\ Code(n, id).op = "free" /\ f.allocs = e.allocs
  <2>1. e.frees \in Seq(AllIds(n)) /\ IsInjective(e.frees) /\ id \notin ToSet(e.frees)
    BY <1>3, <1>4 DEF ListsOfIds, ListOf, Placed
  <2>2. ListOf(n, f.frees) /\ ToSet(f.frees) = ToSet(e.frees) \cup {id}
    BY <1>3, <1>7, <2>1, AppendIs DEF ListOf
  <2>3. ListsOfIds(n, f)
    BY <1>1, <1>4, <1>7, <2>2 DEF ListsOfIds
  <2>4. Placed(f) = Placed(e) \cup {id}
    BY <1>1, <1>7, <2>2 DEF Placed
  <2>5. Apart(f, L \ {id})
    <3>1. (L \ {id}) \cap Placed(f) = {}
      BY <1>4, <2>4 DEF Apart
    <3>2. id \notin DOMAIN e.running /\ id \notin ToSet(e.waiting) /\ id \notin ToSet(e.allocs)
          /\ id \notin ToSet(e.ready)
      BY <1>3 DEF Placed
    <3> QED BY <1>1, <1>4, <1>7, <2>2, <3>1, <3>2 DEF Apart
  <2>6. InTable(n, f, L \ {id})
    BY <1>1, <1>3, <1>4, <2>4 DEF InTable
  <2>7. OpsOk(n, f)
    BY <1>1, <1>4, <1>7, <2>2 DEF OpsOk
  <2>8. DepsOk(n, f, L \ {id}, D)
    BY <1>1, <1>2, <1>4, <2>4 DEF DepsOk
  <2>9. Orderly(n, f, L \ {id}, D)
    BY <1>5, <2>3, <2>5, <2>6, <2>7, <2>8 DEF Orderly
  <2> QED BY <1>2, <2>2, <2>9
<1> QED BY <1>6, <1>7 DEF Fields

(* What an id says of its instruction.                                     *)
LEMMA NameIs ==
    ASSUME NEW n, NEW D, NEW B, Context(n, D, B), NEW id \in AllIds(n)
    PROVE  /\ Code(n, id).tile = id[2] /\ Code(n, id).leaf \in Leaves /\ id[2] \in TileSet(n)
           /\ Code(n, id).serves \in Nat /\ id[2] \in Uses(Code(n, id))
           /\ Code(n, id).op = "alloc" <=> id = Alloc(id[2])
           /\ Code(n, id).op = "free" <=> id = Free(id[2])
           /\ Code(n, id).op = "fetch" => id = Ingest(id[2]) /\ Code(n, id).from \in Pods
<1>1. Named(Job, n) /\ Code(n, id) = Job.code[n][id] /\ id \in DOMAIN Job.code[n]
  BY TheJob DEF Context, Code, AllIds
<1> QED BY <1>1 DEF Named, TileSet, Uses, Pods

(* An ALLOC: the tile is new to the store, since its FREE cannot be done   *)
(* nor waiting while the ALLOC is not.                                     *)
LEMMA AllocIsNew ==
    ASSUME NEW n, NEW D, NEW B, Context(n, D, B), NEW e, NEW L, Orderly(n, e, L, D),
           NEW id \in L, Code(n, id).op = "alloc",
           NEW i \in ToSet(e.frees) \cup L \cup Done(e, D), Code(n, i).op = "free"
    PROVE  i[2] # id[2]
<1> SUFFICES ASSUME i[2] = id[2] PROVE FALSE
  OBVIOUS
<1>1. /\ InTable(n, e, L) /\ DoneOk(n, e, D) /\ DepsOk(n, e, L, D)
  BY DEF Orderly
<1>2. id \in e.table /\ id \in AllIds(n) /\ i \in AllIds(n)
  BY <1>1 DEF InTable, DoneOk, Placed
<1>3. id = Alloc(id[2]) /\ i[2] \in Uses(Code(n, i))
  BY <1>2, NameIs
<1>4. Alloc(i[2]) \in Done(e, D)
  <2>1. CASE i \in Done(e, D)
    BY <1>1, <1>3, <2>1 DEF DoneOk
  <2>2. CASE i \in ToSet(e.frees) \cup L
    <3>1. i \in e.table /\ i \in Placed(e) \cup L
      BY <1>1, <2>2 DEF InTable, Placed
    <3>2. Code(n, i).deps \subseteq Done(e, D)
      BY <1>1, <3>1 DEF DepsOk
    <3> QED BY <1>1, <1>2, <1>3, <3>2, AllocDone
  <2> QED BY <2>1, <2>2
<1>5. id \in Done(e, D)
  BY <1>3, <1>4
<1> QED BY <1>1, <1>2, <1>5 DEF DoneOk

LEMMA TryAllocGood ==
    ASSUME NEW n, NEW D, NEW B, Context(n, D, B), NEW e, NEW L, Good(n, e, L, D, B),
           NEW id \in L, Code(n, id).op = "alloc"
    PROVE  Good(n, TryAlloc(n, e, id), L \ {id}, D, B) /\ Moves(n, e, TryAlloc(n, e, id))
<1> DEFINE t     == id[2]
           class == TileClass(t)
           f     == AllocTile(e, t)
           g     == Complete(n, f, id)
           h     == [e EXCEPT !.allocs = Append(@, id)]
<1>1. /\ Orderly(n, e, L, D) /\ Stocked(n, e, L, D, B) /\ IsEngine(e)
      /\ id \in AllIds(n) /\ id \in e.table /\ jobName \in DOMAIN Jobs /\ n \in Pods
  BY DEF Good, Orderly, InTable, Context
<1>2. Code(n, id).tile = t /\ class \in Nat /\ t \in TileSet(n)
  BY <1>1, NameIs, ClassIs
<1>3. TryAlloc(n, e, id) = IF CanAlloc(e, class) THEN g ELSE h
  BY <1>2 DEF TryAlloc
<1>4. CASE CanAlloc(e, class)
  <2> DEFINE buf == [addr |-> Address(e, class), class |-> class, resident |-> FALSE,
                     serves |-> 0, expected |-> 0]
  <2>1. /\ IsEngine(f) /\ f.tiles = Put(e.tiles, t, buf)
        /\ \A x \in Fields \ {"tiles", "slabs", "bump"} : f[x] = e[x]
    <3>1. IsEngine(f) /\ f.tiles = Put(e.tiles, t, buf)
      <4>1. IsEngine(e)
        BY <1>1
      <4> QED BY <4>1, AllocFields, ZenonT(30)
    <3>2. SameBut(e, f, {"tiles", "slabs", "bump"})
      BY <1>1, AllocRest
    <3> QED BY <3>1, <3>2 DEF SameBut
  <2>2. ArenaOk(f)
    BY <1>1, <1>2, <1>4, AllocArena DEF Stocked
  <2> HIDE DEF f, buf
  <2>3. /\ Orderly(n, f, L, D) /\ Moves(n, e, f) /\ Done(f, D) = Done(e, D)
        /\ f.frees = e.frees /\ f.table = e.table
    BY <1>1, <2>1, SameOrder
  <2>4. /\ DOMAIN f.tiles = DOMAIN e.tiles \cup {t} /\ f.tiles[t] = buf
        /\ \A u \in DOMAIN e.tiles : u # t => f.tiles[u] = e.tiles[u]
    BY <2>1 DEF Put
  <2>5. Orderly(n, g, L \ {id}, D) /\ Moves(n, f, g)
    BY <2>3, CompleteOrderly
  <2>6. /\ g.tiles = f.tiles /\ g.slabs = f.slabs /\ g.bump = f.bump /\ g.frees = f.frees
        /\ g.completions = f.completions \cup {id}
    <3>1. Completed(n, f, id, g)
      BY <1>1, <2>1, <2>3, CompleteFields
    <3> HIDE DEF g
    <3> QED BY <3>1 DEF Fields, Completed
  <2> HIDE DEF g
  <2>7. ArenaOk(g)
    BY <2>2, <2>6, SameStock
  <2>8. Done(g, D) = Done(e, D) \cup {id}
    BY <2>3, <2>6 DEF Done
  <2>9. TilesKnown(n, g, D)
    BY <1>1, <1>2, <2>4, <2>6, <2>8 DEF Stocked, TilesKnown
  <2>10. \A i \in ToSet(e.frees) \cup L \cup Done(e, D) : Code(n, i).op = "free" => i[2] # t
    BY <1>1, AllocIsNew
  <2>11. FreesKnown(n, g, L \ {id})
    BY <1>1, <2>3, <2>4, <2>6, <2>10 DEF Stocked, FreesKnown
  <2>12. ServesOk(n, g, D, B)
    <3>1. B[t] \in Nat /\ buf.serves = 0
      BY <1>2 DEF Context, buf
    <3>2. ServesOk(n, e, D, B)
      BY <1>1 DEF Stocked
    <3>3. ASSUME NEW u \in DOMAIN g.tiles PROVE g.tiles[u].serves <= B[u]
      BY <2>4, <2>6, <3>1, <3>2 DEF ServesOk
    <3>4. ASSUME NEW i \in Done(g, D), Code(n, i).op = "free"
          PROVE  Code(n, i).serves <= B[i[2]]
      BY <2>8, <3>2, <3>4 DEF ServesOk
    <3> QED BY <3>3, <3>4 DEF ServesOk
  <2>13. Moves(n, e, g)
    BY <2>3, <2>5, MovesOn
  <2>14. Good(n, g, L \ {id}, D, B)
    BY <2>5, <2>7, <2>9, <2>11, <2>12 DEF Good, Stocked
  <2> QED BY <1>3, <1>4, <2>13, <2>14
<1>5. CASE ~CanAlloc(e, class)
  <2>1. /\ IsEngine(h) /\ h.allocs = Append(e.allocs, id)
        /\ \A x \in Fields \ {"allocs"} : h[x] = e[x]
    BY <1>1 DEF IsEngine, Fields
  <2> HIDE DEF h
  <2>2. /\ h.tiles = e.tiles /\ h.slabs = e.slabs /\ h.bump = e.bump
    BY <2>1 DEF Fields
  <2>3. /\ Orderly(n, h, L \ {id}, D) /\ Moves(n, e, h) /\ Done(h, D) = Done(e, D)
        /\ ToSet(h.frees) \cup (L \ {id}) \subseteq ToSet(e.frees) \cup L
    BY <1>1, <2>1, ParkedOrder
  <2>4. ArenaOk(h)
    BY <1>1, <2>2, SameStock DEF Stocked
  <2>5. Stocked(n, h, L \ {id}, D, B)
    BY <1>1, <2>2, <2>3, <2>4 DEF Stocked, TilesKnown, FreesKnown, ServesOk
  <2> QED BY <1>3, <1>5, <2>3, <2>5 DEF Good
<1> QED BY <1>4, <1>5

LEMMA TryFreeGood ==
    ASSUME NEW n, NEW D, NEW B, Context(n, D, B), NEW e, NEW L, Good(n, e, L, D, B),
           NEW id \in L, Code(n, id).op = "free"
    PROVE  Good(n, TryFree(n, e, id), L \ {id}, D, B) /\ Moves(n, e, TryFree(n, e, id))
<1> DEFINE t == id[2]
           f == FreeTile(e, t)
           g == Complete(n, f, id)
           h == [e EXCEPT !.frees = Append(@, id)]
<1>1. /\ Orderly(n, e, L, D) /\ Stocked(n, e, L, D, B) /\ IsEngine(e)
      /\ id \in AllIds(n) /\ id \in e.table
  BY DEF Good, Orderly, InTable
<1>2. Code(n, id).tile = t /\ t \in TileSet(n) /\ id = Free(t) /\ Code(n, id).serves \in Nat
  BY <1>1, NameIs
<1>3. TryFree(n, e, id) = IF ServesSatisfied(e, t) THEN g ELSE h
  BY <1>2 DEF TryFree
<1>4. CASE ServesSatisfied(e, t)
  <2>0. /\ t \in DOMAIN e.tiles /\ e.tiles[t].serves >= e.tiles[t].expected
        /\ e.tiles[t].expected = Code(n, id).serves
    BY <1>1, <1>4 DEF ServesSatisfied, Stocked, FreesKnown
  <2>1. /\ IsEngine(f) /\ f.tiles = Without(e.tiles, t)
        /\ \A x \in Fields \ {"tiles", "slabs"} : f[x] = e[x]
    BY <1>1, FreeFields
  <2>2. ArenaOk(f)
    BY <1>1, <2>0, FreeArena DEF Stocked
  <2> HIDE DEF f
  <2>3. /\ Orderly(n, f, L, D) /\ Moves(n, e, f) /\ Done(f, D) = Done(e, D)
        /\ f.frees = e.frees /\ f.table = e.table
    BY <1>1, <2>1, SameOrder
  <2>4. /\ DOMAIN f.tiles = DOMAIN e.tiles \ {t}
        /\ \A u \in DOMAIN f.tiles : f.tiles[u] = e.tiles[u]
    BY <2>1 DEF Without
  <2>5. Orderly(n, g, L \ {id}, D) /\ Moves(n, f, g)
    BY <2>3, CompleteOrderly
  <2>6. /\ g.tiles = f.tiles /\ g.slabs = f.slabs /\ g.bump = f.bump /\ g.frees = f.frees
        /\ g.completions = f.completions \cup {id}
    <3>1. Completed(n, f, id, g)
      BY <1>1, <2>1, <2>3, CompleteFields
    <3> HIDE DEF g
    <3> QED BY <3>1 DEF Fields, Completed
  <2> HIDE DEF g
  <2>7. ArenaOk(g)
    BY <2>2, <2>6, SameStock
  <2>8. Done(g, D) = Done(e, D) \cup {id}
    BY <2>3, <2>6 DEF Done
  <2>9. TilesKnown(n, g, D)
    BY <1>1, <1>2, <2>4, <2>6, <2>8 DEF Stocked, TilesKnown
  (* Another FREE is another tile's.                                       *)
  <2>10. ASSUME NEW i \in ToSet(e.frees) \cup (L \ {id}), Code(n, i).op = "free"
         PROVE  i[2] # t
    <3>1. id \notin Placed(e) /\ i # id
      BY <1>1 DEF Orderly, Apart, Placed
    <3>2. i \in AllIds(n)
      BY <1>1 DEF Orderly, InTable, Placed
    <3>3. i = Free(i[2])
      BY <2>10, <3>2, NameIs
    <3> QED BY <1>2, <3>1, <3>3
  <2>11. FreesKnown(n, g, L \ {id})
    <3> SUFFICES ASSUME NEW i \in ToSet(g.frees) \cup (L \ {id}), Code(n, i).op = "free"
                 PROVE  i[2] \in DOMAIN g.tiles /\ g.tiles[i[2]].expected = Code(n, i).serves
      BY DEF FreesKnown
    <3>1. i \in ToSet(e.frees) \cup (L \ {id})
      BY <2>3, <2>6
    <3>2. i[2] # t
      BY <2>10, <3>1
    <3>3. i[2] \in DOMAIN e.tiles /\ e.tiles[i[2]].expected = Code(n, i).serves
      BY <1>1, <3>1 DEF Stocked, FreesKnown
    <3> QED BY <2>4, <2>6, <3>2, <3>3
  <2>12. ServesOk(n, g, D, B)
    <3>1. ServesOk(n, e, D, B)
      BY <1>1 DEF Stocked
    <3>2. e.tiles[t].serves \in Nat /\ B[t] \in Nat
      BY <1>1, <1>2, <2>0 DEF Context, Stocked, ArenaOk, TilesOk, Buffers
    <3>3. Code(n, id).serves <= B[t]
      BY <1>2, <2>0, <3>1, <3>2 DEF ServesOk
    <3>4. ASSUME NEW u \in DOMAIN g.tiles PROVE g.tiles[u].serves <= B[u]
      BY <2>4, <2>6, <3>1 DEF ServesOk
    <3>5. ASSUME NEW i \in Done(g, D), Code(n, i).op = "free"
          PROVE  Code(n, i).serves <= B[i[2]]
      BY <2>8, <3>1, <3>3, <3>5 DEF ServesOk
    <3> QED BY <3>4, <3>5 DEF ServesOk
  <2>13. Moves(n, e, g)
    BY <2>3, <2>5, MovesOn
  <2>14. Good(n, g, L \ {id}, D, B)
    BY <2>5, <2>7, <2>9, <2>11, <2>12 DEF Good, Stocked
  <2> QED BY <1>3, <1>4, <2>13, <2>14
<1>5. CASE ~ServesSatisfied(e, t)
  <2>1. /\ IsEngine(h) /\ h.frees = Append(e.frees, id)
        /\ \A x \in Fields \ {"frees"} : h[x] = e[x]
    BY <1>1 DEF IsEngine, Fields
  <2> HIDE DEF h
  <2>2. /\ h.tiles = e.tiles /\ h.slabs = e.slabs /\ h.bump = e.bump
    BY <2>1 DEF Fields
  <2>3. /\ Orderly(n, h, L \ {id}, D) /\ Moves(n, e, h) /\ Done(h, D) = Done(e, D)
        /\ ToSet(h.frees) \cup (L \ {id}) \subseteq ToSet(e.frees) \cup L
    BY <1>1, <2>1, ParkedOrder
  <2>4. ArenaOk(h)
    BY <1>1, <2>2, SameStock DEF Stocked
  <2>5. Stocked(n, h, L \ {id}, D, B)
    BY <1>1, <2>2, <2>3, <2>4 DEF Stocked, TilesKnown, FreesKnown, ServesOk
  <2> QED BY <1>3, <1>5, <2>3, <2>5 DEF Good
<1> QED BY <1>4, <1>5

-----------------------------------------------------------------------------
(* Trying again *)

LEMMA TheIs ==
    ASSUME NEW x
    PROVE  The({x}) = x
BY DEF The

(* The engines that Tried goes through.                                    *)
IsTried(n, e, ids, after) ==
    after = [k \in 0..Len(ids) |->
                IF k = 0 THEN e ELSE The({Try(n, prior, ids[k]) : prior \in {after[k - 1]}})]

LEMMA TriedExists ==
    ASSUME NEW n, NEW e, NEW R, NEW ids \in Seq(R)
    PROVE  \E after : IsTried(n, e, ids, after)
<1> DEFINE len == Len(ids)
           Then(k, x) == The({Try(n, prior, ids[k]) : prior \in {x}})
           Upto(m) == \E f : /\ f = [k \in 0..m |-> f[k]] /\ f[0] = e
                             /\ \A k \in 1..m : f[k] = Then(k, f[k - 1])
           T == {m \in 0..len : Upto(m)}
<1>0. len \in Nat
  BY LenProperties
<1> HIDE DEF Then
<1>1. 0 \in T
  <2> DEFINE g == [k \in 0..0 |-> e]
  <2>1. g = [k \in 0..0 |-> g[k]] /\ g[0] = e /\ \A k \in 1..0 : g[k] = Then(k, g[k - 1])
    OBVIOUS
  <2> HIDE DEF g
  <2>2. Upto(0)
    BY <2>1
  <2> QED BY <1>0, <2>2
<1>2. ASSUME NEW m \in 1..len, m - 1 \in T PROVE m \in T
  <2>1. PICK f : /\ f = [k \in 0..(m - 1) |-> f[k]] /\ f[0] = e
                 /\ \A k \in 1..(m - 1) : f[k] = Then(k, f[k - 1])
    BY <1>2
  <2> DEFINE g == [k \in 0..m |-> IF k = m THEN Then(m, f[m - 1]) ELSE f[k]]
  <2>2. g = [k \in 0..m |-> g[k]] /\ g[0] = e
    BY <2>1
  <2>3. ASSUME NEW k \in 1..m PROVE g[k] = Then(k, g[k - 1])
    <3>1. g[k - 1] = f[k - 1]
      OBVIOUS
    <3>2. CASE k = m
      <4>1. g[m] = Then(m, f[m - 1])
        OBVIOUS
      <4> QED BY <3>1, <3>2, <4>1
    <3>3. CASE k # m
      <4>1. k \in 1..(m - 1) /\ g[k] = f[k]
        BY <3>3
      <4> QED BY <4>1, <3>1, <2>1
    <3> QED BY <3>2, <3>3
  <2> HIDE DEF g
  <2>4. Upto(m)
    BY <2>2, <2>3
  <2> HIDE DEF Upto
  <2> QED BY <2>4
<1>3. len \in T
  <2> HIDE DEF T
  <2>1. \A i \in 0..len : i \in T
    BY <1>0, <1>1, <1>2, UpTo
  <2> QED BY <1>0, <2>1
<1>4. PICK f : /\ f = [k \in 0..len |-> f[k]] /\ f[0] = e
               /\ \A k \in 1..len : f[k] = Then(k, f[k - 1])
  BY <1>3
<1>5. ASSUME NEW k \in 0..len
      PROVE  f[k] = IF k = 0 THEN e ELSE Then(k, f[k - 1])
  BY <1>0, <1>4
<1>6. f = [k \in 0..len |-> IF k = 0 THEN e ELSE Then(k, f[k - 1])]
  BY <1>4, <1>5
<1> QED BY <1>6 DEF IsTried, Then

LEMMA TryGood ==
    ASSUME NEW n, NEW D, NEW B, Context(n, D, B), NEW e, NEW L, Good(n, e, L, D, B),
           NEW id \in L, Code(n, id).op \in {"alloc", "free"}
    PROVE  Good(n, Try(n, e, id), L \ {id}, D, B) /\ Moves(n, e, Try(n, e, id))
<1>1. CASE Code(n, id).op = "alloc"
  BY <1>1, TryAllocGood DEF Try
<1>2. CASE Code(n, id).op = "free"
  BY <1>2, TryFreeGood DEF Try
<1> QED BY <1>1, <1>2

(* Who has been tried is parked or done.                                   *)
LEMMA TriedGood ==
    ASSUME NEW n, NEW D, NEW B, Context(n, D, B), NEW ids, ListOf(n, ids),
           NEW L, L \cap ToSet(ids) = {}, NEW e, Good(n, e, L \cup ToSet(ids), D, B),
           \A id \in ToSet(ids) : Code(n, id).op \in {"alloc", "free"}
    PROVE  Good(n, Tried(n, e, ids), L, D, B) /\ Moves(n, e, Tried(n, e, ids))
<1> DEFINE len == Len(ids)
           after == CHOOSE f : IsTried(n, e, ids, f)
           Rest(k) == {ids[i] : i \in (k + 1)..len}
           T == {k \in 0..len : Good(n, after[k], L \cup Rest(k), D, B) /\ Moves(n, e, after[k])}
<1>1. /\ len \in Nat /\ DOMAIN ids = 1..len /\ ToSet(ids) = Rest(0) /\ Rest(len) = {}
      /\ IsInjective(ids)
  <2>1. len \in Nat /\ DOMAIN ids = 1..len /\ IsInjective(ids)
    BY LenProperties DEF ListOf
  <2>2. ToSet(ids) = {ids[i] : i \in DOMAIN ids}
    BY DEF ToSet
  <2>3. ToSet(ids) = Rest(0)
    BY <2>1, <2>2
  <2>4. (len + 1)..len = {}
    BY <2>1
  <2>5. Rest(len) = {}
    BY <2>4
  <2> QED BY <2>1, <2>3, <2>5
<1>2. \E f : IsTried(n, e, ids, f)
  BY TriedExists DEF ListOf
<1>3. IsTried(n, e, ids, after)
  BY <1>2
<1>4. Tried(n, e, ids) = after[len]
  BY DEF Tried, IsTried
<1> HIDE DEF after
<1>5. after[0] = e
  BY <1>1, <1>3 DEF IsTried
<1>6. ASSUME NEW k \in 1..len
      PROVE  after[k] = Try(n, after[k - 1], ids[k])
  <2>1. k \in 0..len /\ k # 0
    BY <1>1
  <2>2. after[k] = The({Try(n, prior, ids[k]) : prior \in {after[k - 1]}})
    BY <1>3, <2>1 DEF IsTried
  <2>3. {Try(n, prior, ids[k]) : prior \in {after[k - 1]}} = {Try(n, after[k - 1], ids[k])}
    OBVIOUS
  <2> QED BY <2>2, <2>3, TheIs
<1>7. 0 \in T
  <2>1. Moves(n, e, e)
    BY DEF Moves
  <2>2. Good(n, after[0], L \cup Rest(0), D, B)
    <3> HIDE DEF Rest
    <3> QED BY <1>1, <1>5
  <2> QED BY <1>1, <1>5, <2>1, <2>2
<1>8. ASSUME NEW k \in 1..len, k - 1 \in T PROVE k \in T
  <2> DEFINE x == after[k - 1]
             M == L \cup Rest(k - 1)
  <2>1. Good(n, x, M, D, B) /\ Moves(n, e, x)
    BY <1>8
  <2>2. ids[k] \in Rest(k - 1) /\ ids[k] \in ToSet(ids)
    BY <1>1 DEF ToSet
  <2>3. M \ {ids[k]} = L \cup Rest(k)
    <3>1. ids[k] \notin L
      BY <2>2
    <3>2. ids[k] \notin Rest(k)
      BY <1>1 DEF IsInjective
    <3>3. ((k - 1) + 1)..len = {k} \cup (k + 1)..len
      BY <1>1
    <3>4. Rest(k - 1) = {ids[k]} \cup Rest(k)
      BY <3>3
    <3> HIDE DEF Rest
    <3> QED BY <3>1, <3>2, <3>4
  <2> HIDE DEF Rest, x, M
  <2>4. /\ Good(n, Try(n, x, ids[k]), M \ {ids[k]}, D, B)
        /\ Moves(n, x, Try(n, x, ids[k]))
    <3>1. ids[k] \in M /\ Code(n, ids[k]).op \in {"alloc", "free"}
      BY <2>2 DEF M
    <3> QED BY <2>1, <3>1, TryGood
  <2>5. after[k] = Try(n, x, ids[k])
    BY <1>6 DEF x
  <2>6. Good(n, after[k], L \cup Rest(k), D, B) /\ Moves(n, x, after[k])
    BY <2>3, <2>4, <2>5
  <2>7. Moves(n, e, after[k])
    BY <2>1, <2>6, MovesOn
  <2>8. k \in 0..len
    BY <1>1
  <2> QED BY <2>6, <2>7, <2>8
<1>9. len \in T
  <2> HIDE DEF T
  <2>1. \A k \in 0..len : k \in T
    BY <1>1, <1>7, <1>8, UpTo
  <2> QED BY <1>1, <2>1
<1>10. Good(n, after[len], L \cup Rest(len), D, B) /\ Moves(n, e, after[len])
  BY <1>9
<1>11. L \cup Rest(len) = L
  <2> HIDE DEF Rest
  <2> QED BY <1>1
<1> HIDE DEF Rest, len
<1> QED BY <1>4, <1>10, <1>11

LEMMA EmptyList ==
    ASSUME NEW n
    PROVE  ListOf(n, <<>>) /\ ToSet(<<>>) = {}
<1>1. <<>> \in Seq(AllIds(n)) /\ DOMAIN <<>> = {}
  BY EmptySeq
<1>2. IsInjective(<<>>)
  BY <1>1 DEF IsInjective
<1> QED BY <1>1, <1>2 DEF ListOf, ToSet

(* What was parked is in hand.                                             *)
LEMMA Unparked ==
    ASSUME NEW n, NEW D, NEW B, NEW e, NEW L, Good(n, e, L, D, B), NEW f, IsEngine(f), NEW s,
           \/ /\ s = e.allocs /\ f.allocs = <<>> /\ \A x \in Fields \ {"allocs"} : f[x] = e[x]
           \/ /\ s = e.frees /\ f.frees = <<>> /\ \A x \in Fields \ {"frees"} : f[x] = e[x]
    PROVE  /\ Good(n, f, L \cup ToSet(s), D, B) /\ Moves(n, e, f)
           /\ ListOf(n, s) /\ L \cap ToSet(s) = {}
           /\ \A id \in ToSet(s) : Code(n, id).op \in {"alloc", "free"}
<1>1. /\ f.table = e.table /\ f.ready = e.ready /\ f.waiting = e.waiting
      /\ f.running = e.running /\ f.finished = e.finished /\ f.completions = e.completions
      /\ f.tiles = e.tiles /\ f.slabs = e.slabs /\ f.bump = e.bump
      /\ \A x \in Kept : f[x] = e[x]
  BY DEF Fields, Kept
<1>2. Done(f, D) = Done(e, D) /\ Moves(n, e, f)
  BY <1>1 DEF Done, Moves
<1>3. /\ ListsOfIds(n, e) /\ Apart(e, L) /\ InTable(n, e, L) /\ OpsOk(n, e) /\ DoneOk(n, e, D)
      /\ DepsOk(n, e, L, D) /\ Stocked(n, e, L, D, B)
  BY DEF Good, Orderly
<1>4. ListOf(n, <<>>) /\ ToSet(<<>>) = {}
  BY EmptyList
<1> DEFINE M == L \cup ToSet(s)
<1>5. \/ s = e.allocs /\ f.allocs = <<>> /\ f.frees = e.frees
      \/ s = e.frees /\ f.frees = <<>> /\ f.allocs = e.allocs
  BY DEF Fields
<1>6. ListsOfIds(n, f) /\ ListOf(n, s)
  BY <1>1, <1>3, <1>4, <1>5 DEF ListsOfIds
<1>7. Placed(e) = Placed(f) \cup ToSet(s) /\ Placed(f) \cap ToSet(s) = {}
  BY <1>1, <1>3, <1>4, <1>5 DEF Placed, Apart
<1>8. L \cap ToSet(s) = {} /\ Placed(f) \cup M = Placed(e) \cup L
  BY <1>3, <1>7 DEF Apart
<1>9. Apart(f, M)
  <2>1. M \cap Placed(f) = {}
    BY <1>3, <1>7 DEF Apart
  <2> QED BY <1>1, <1>3, <1>4, <1>5, <2>1 DEF Apart
<1>10. InTable(n, f, M)
  BY <1>1, <1>3, <1>8 DEF InTable
<1>11. OpsOk(n, f) /\ \A id \in ToSet(s) : Code(n, id).op \in {"alloc", "free"}
  BY <1>1, <1>3, <1>4, <1>5 DEF OpsOk
<1>12. DoneOk(n, f, D)
  BY <1>1, <1>2, <1>3 DEF DoneOk
<1>13. DepsOk(n, f, M, D)
  BY <1>1, <1>2, <1>3, <1>8 DEF DepsOk
<1>14. Orderly(n, f, M, D)
  BY <1>6, <1>9, <1>10, <1>11, <1>12, <1>13 DEF Orderly
<1>15. ArenaOk(f)
  BY <1>1, <1>3, SameStock DEF Stocked
<1>16. FreesKnown(n, f, M)
  <2>1. \A id \in ToSet(s) : Code(n, id).op = "free" => id \in ToSet(e.frees)
    BY <1>3, <1>5 DEF OpsOk
  <2>2. ToSet(f.frees) \subseteq ToSet(e.frees)
    BY <1>4, <1>5
  <2> QED BY <1>1, <1>3, <2>1, <2>2 DEF Stocked, FreesKnown
<1>17. Stocked(n, f, M, D, B)
  BY <1>1, <1>2, <1>3, <1>15, <1>16 DEF Stocked, TilesKnown, ServesOk
<1> QED BY <1>2, <1>6, <1>8, <1>11, <1>14, <1>17 DEF Good

LEMMA RetryAllocsGood ==
    ASSUME NEW n, NEW D, NEW B, Context(n, D, B), NEW e, NEW L, Good(n, e, L, D, B)
    PROVE  Good(n, RetryAllocs(n, e), L, D, B) /\ Moves(n, e, RetryAllocs(n, e))
<1> DEFINE f == [e EXCEPT !.allocs = <<>>]
           s == e.allocs
<1>1. IsEngine(e)
  BY DEF Good, Orderly
<1>2. IsEngine(f) /\ f.allocs = <<>> /\ \A x \in Fields \ {"allocs"} : f[x] = e[x]
  BY <1>1 DEF IsEngine, Fields
<1>3. RetryAllocs(n, e) = Tried(n, f, s)
  BY DEF RetryAllocs
<1> HIDE DEF f
<1>4. /\ Good(n, f, L \cup ToSet(s), D, B) /\ Moves(n, e, f)
      /\ ListOf(n, s) /\ L \cap ToSet(s) = {}
      /\ \A id \in ToSet(s) : Code(n, id).op \in {"alloc", "free"}
  BY <1>2, Unparked
<1> HIDE DEF s
<1>5. Good(n, Tried(n, f, s), L, D, B) /\ Moves(n, f, Tried(n, f, s))
  BY <1>4, TriedGood
<1>6. Moves(n, e, Tried(n, f, s))
  BY <1>4, <1>5, MovesOn
<1> QED BY <1>3, <1>5, <1>6

LEMMA RetryFreesGood ==
    ASSUME NEW n, NEW D, NEW B, Context(n, D, B), NEW e, NEW L, Good(n, e, L, D, B)
    PROVE  Good(n, RetryFrees(n, e), L, D, B) /\ Moves(n, e, RetryFrees(n, e))
<1> DEFINE f == [e EXCEPT !.frees = <<>>]
           s == e.frees
           g == FreesTried(n, e)
<1>1. IsEngine(e)
  BY DEF Good, Orderly
<1>2. IsEngine(f) /\ f.frees = <<>> /\ \A x \in Fields \ {"frees"} : f[x] = e[x]
  BY <1>1 DEF IsEngine, Fields
<1>3. g = Tried(n, f, s)
  BY DEF FreesTried
<1> HIDE DEF f
<1>4. /\ Good(n, f, L \cup ToSet(s), D, B) /\ Moves(n, e, f)
      /\ ListOf(n, s) /\ L \cap ToSet(s) = {}
      /\ \A id \in ToSet(s) : Code(n, id).op \in {"alloc", "free"}
  BY <1>2, Unparked
<1> HIDE DEF s, g
<1>5. Good(n, Tried(n, f, s), L, D, B) /\ Moves(n, f, Tried(n, f, s))
  BY <1>4, TriedGood
<1>6. Good(n, g, L, D, B) /\ Moves(n, e, g)
  BY <1>3, <1>4, <1>5, MovesOn
<1>7. RetryFrees(n, e) = g \/ RetryFrees(n, e) = RetryAllocs(n, g)
  BY DEF RetryFrees, g
<1>8. Good(n, RetryAllocs(n, g), L, D, B) /\ Moves(n, g, RetryAllocs(n, g))
  BY <1>6, RetryAllocsGood
<1>9. Moves(n, e, RetryAllocs(n, g))
  BY <1>6, <1>8, MovesOn
<1> QED BY <1>6, <1>7, <1>8, <1>9

-----------------------------------------------------------------------------
(* Serves *)

(* Some fields are of no account to what is Good.                          *)
Aside == {"io", "kernels", "fetching", "parked"}

Touches(n, e, f, B, C) ==
    /\ \A t \in TileSet(n) : B[t] <= C[t]
    /\ IsEngine(f) /\ SameBut(e, f, {"tiles"} \cup Aside) /\ SameBlocks(e, f)
    /\ \A t \in DOMAIN e.tiles : /\ f.tiles[t].expected = e.tiles[t].expected
                                 /\ f.tiles[t].serves <= C[t]

LEMMA Touched ==
    ASSUME NEW n, NEW D, NEW B, Context(n, D, B), NEW C, Context(n, D, C),
           NEW e, NEW L, Good(n, e, L, D, B), NEW f, Touches(n, e, f, B, C)
    PROVE  /\ Good(n, f, L, D, C) /\ f.table = e.table /\ f.completions = e.completions
           /\ f.running = e.running /\ f.finished = e.finished /\ f.waiting = e.waiting
<1>0. /\ \A t \in TileSet(n) : B[t] <= C[t]
      /\ IsEngine(f) /\ SameBut(e, f, {"tiles"} \cup Aside) /\ SameBlocks(e, f)
      /\ \A t \in DOMAIN e.tiles : /\ f.tiles[t].expected = e.tiles[t].expected
                                   /\ f.tiles[t].serves <= C[t]
  BY DEF Touches
<1>1. /\ f.table = e.table /\ f.ready = e.ready /\ f.waiting = e.waiting
      /\ f.allocs = e.allocs /\ f.frees = e.frees
      /\ f.running = e.running /\ f.finished = e.finished /\ f.completions = e.completions
  BY <1>0 DEF Fields, SameBut, Aside
<1>2. Placed(f) = Placed(e) /\ Done(f, D) = Done(e, D)
  BY <1>1 DEF Placed, Done
<1>3. /\ ListsOfIds(n, e) /\ Apart(e, L) /\ InTable(n, e, L) /\ OpsOk(n, e) /\ DoneOk(n, e, D)
      /\ DepsOk(n, e, L, D) /\ Stocked(n, e, L, D, B)
  BY DEF Good, Orderly
<1>4. Orderly(n, f, L, D)
  <2>1. ListsOfIds(n, f) /\ Apart(f, L) /\ InTable(n, f, L) /\ OpsOk(n, f)
    BY <1>1, <1>2, <1>3 DEF ListsOfIds, Apart, InTable, OpsOk
  <2>2. DoneOk(n, f, D) /\ DepsOk(n, f, L, D)
    BY <1>1, <1>2, <1>3 DEF DoneOk, DepsOk
  <2> QED BY <1>0, <2>1, <2>2 DEF Orderly
<1>5. DOMAIN f.tiles = DOMAIN e.tiles /\ DOMAIN e.tiles \subseteq TileSet(n)
  BY <1>0, <1>3 DEF SameBlocks, Stocked, TilesKnown
<1>6. ArenaOk(f)
  BY <1>0, <1>3, SameArena DEF Stocked
<1>7. TilesKnown(n, f, D) /\ FreesKnown(n, f, L)
  BY <1>0, <1>1, <1>2, <1>3, <1>5 DEF Stocked, TilesKnown, FreesKnown
<1>8. ServesOk(n, f, D, C)
  <2>1. ASSUME NEW id \in Done(f, D), Code(n, id).op = "free"
        PROVE  Code(n, id).serves <= C[id[2]]
    <3>1. id \in AllIds(n) /\ Code(n, id).serves <= B[id[2]]
      BY <1>2, <1>3, <2>1 DEF DoneOk, Stocked, ServesOk
    <3>2. id[2] \in TileSet(n) /\ Code(n, id).serves \in Nat
      BY <3>1, NameIs
    <3>3. B[id[2]] \in Nat /\ C[id[2]] \in Nat /\ B[id[2]] <= C[id[2]]
      BY <1>0, <3>2 DEF Context
    <3> QED BY <3>1, <3>2, <3>3
  <2>2. \A t \in DOMAIN f.tiles : f.tiles[t].serves <= C[t]
    BY <1>0, <1>5
  <2> QED BY <2>1, <2>2 DEF ServesOk
<1> QED BY <1>1, <1>4, <1>6, <1>7, <1>8 DEF Good, Stocked

(* k serves more of a tile.                                                *)
More(B, tile, k) == [t \in DOMAIN B |-> IF t = tile THEN B[t] + k ELSE B[t]]

LEMMA MoreIs ==
    ASSUME NEW n, NEW D, NEW B, Context(n, D, B), NEW tile, NEW k \in Nat
    PROVE  /\ Context(n, D, More(B, tile, k))
           /\ \A t \in TileSet(n) : /\ B[t] \in Nat /\ B[t] <= More(B, tile, k)[t]
                                    /\ More(B, tile, k)[t] = IF t = tile THEN B[t] + k ELSE B[t]
           /\ More(B, tile, k + 1) = More(More(B, tile, k), tile, 1)
           /\ More(B, tile, 0) = B
<1>1. B \in [TileSet(n) -> Nat] /\ DOMAIN B = TileSet(n)
  BY DEF Context
<1>2. \A t \in TileSet(n) : B[t] \in Nat
  BY <1>1
<1>3. More(B, tile, k) \in [TileSet(n) -> Nat]
  BY <1>1 DEF More
<1>4. \A t \in TileSet(n) : More(B, tile, k)[t] = IF t = tile THEN B[t] + k ELSE B[t]
  BY <1>1 DEF More
<1>5. Context(n, D, More(B, tile, k))
  BY <1>3 DEF Context
<1>6. \A t \in TileSet(n) : B[t] <= More(B, tile, k)[t]
  BY <1>2, <1>4
<1>7. More(B, tile, k + 1) = More(More(B, tile, k), tile, 1)
  BY <1>1 DEF More
<1>8. More(B, tile, 0) = B
  BY <1>1 DEF More
<1> QED BY <1>2, <1>4, <1>5, <1>6, <1>7, <1>8

LEMMA ServeGood ==
    ASSUME NEW n, NEW D, NEW B, Context(n, D, B), NEW e, NEW L, Good(n, e, L, D, B), NEW tile
    PROVE  Good(n, Serve(n, e, tile), L, D, More(B, tile, 1)) /\ Moves(n, e, Serve(n, e, tile))
<1> DEFINE f == [e EXCEPT !.tiles[tile].serves = @ + 1]
           C == More(B, tile, 1)
<1>1. IsEngine(e) /\ ArenaOk(e) /\ TilesKnown(n, e, D) /\ ServesOk(n, e, D, B)
  BY DEF Good, Orderly, Stocked
<1>2. /\ Context(n, D, C)
      /\ \A t \in TileSet(n) : /\ B[t] \in Nat /\ B[t] <= C[t]
                               /\ C[t] = IF t = tile THEN B[t] + 1 ELSE B[t]
  BY MoreIs
<1> HIDE DEF C
<1>3. /\ IsEngine(f) /\ f.tiles = [e.tiles EXCEPT ![tile].serves = @ + 1]
      /\ \A x \in Fields \ {"tiles"} : f[x] = e[x]
  BY <1>1 DEF IsEngine, Fields
<1>4. Serve(n, e, tile) = RetryFrees(n, f)
  BY DEF Serve
<1> HIDE DEF f
<1>5. IsMap(e.tiles) /\ \A t \in DOMAIN e.tiles : e.tiles[t] \in Buffers
  BY <1>1 DEF ArenaOk, TilesOk
<1>6. /\ IsMap(f.tiles) /\ DOMAIN f.tiles = DOMAIN e.tiles
      /\ \A t \in DOMAIN e.tiles : t # tile => f.tiles[t] = e.tiles[t]
      /\ tile \in DOMAIN e.tiles => f.tiles[tile] = [e.tiles[tile] EXCEPT !.serves = @ + 1]
  BY <1>3 DEF IsMap
<1>7. ASSUME NEW t \in DOMAIN e.tiles
      PROVE  /\ f.tiles[t] \in Buffers /\ f.tiles[t].addr = e.tiles[t].addr
             /\ f.tiles[t].class = e.tiles[t].class
             /\ f.tiles[t].expected = e.tiles[t].expected /\ f.tiles[t].serves <= C[t]
  <2>1. t \in TileSet(n) /\ e.tiles[t].serves <= B[t]
    BY <1>1 DEF TilesKnown, ServesOk
  <2>2. e.tiles[t].serves \in Nat /\ B[t] \in Nat /\ C[t] = IF t = tile THEN B[t] + 1 ELSE B[t]
    BY <1>2, <1>5, <2>1 DEF Buffers
  <2>3. CASE t = tile
    <3>1. f.tiles[t] = [e.tiles[t] EXCEPT !.serves = @ + 1] /\ e.tiles[t] \in Buffers
      BY <1>5, <1>6, <2>3
    <3>2. f.tiles[t].serves = e.tiles[t].serves + 1
      BY <3>1 DEF Buffers
    <3>3. f.tiles[t].serves <= C[t]
      BY <2>1, <2>2, <2>3, <3>2
    <3> QED BY <3>1, <3>3 DEF Buffers
  <2>4. CASE t # tile
    BY <1>5, <1>6, <2>1, <2>2, <2>4
  <2> QED BY <2>3, <2>4
<1>8. SameBlocks(e, f)
  BY <1>3, <1>6, <1>7 DEF SameBlocks, Fields
<1>9. SameBut(e, f, {"tiles"} \cup Aside)
  BY <1>3 DEF SameBut
<1>9a. Touches(n, e, f, B, C)
  BY <1>2, <1>3, <1>7, <1>8, <1>9 DEF Touches
<1>10. /\ Good(n, f, L, D, C) /\ f.table = e.table /\ f.completions = e.completions
       /\ f.running = e.running /\ f.finished = e.finished /\ f.waiting = e.waiting
  BY <1>2, <1>9a, Touched
<1>11. Moves(n, e, f)
  BY <1>3, <1>10 DEF Moves, Kept, Fields
<1>12. Good(n, RetryFrees(n, f), L, D, C) /\ Moves(n, f, RetryFrees(n, f))
  BY <1>2, <1>10, RetryFreesGood
<1>13. Moves(n, e, RetryFrees(n, f))
  BY <1>11, <1>12, MovesOn
<1> QED BY <1>4, <1>12, <1>13 DEF C

(* The engines that serve one request after the other of a tile.           *)
IsServed(n, e, tile, count, after) ==
    after = [k \in 0..count |->
                IF k = 0 THEN e ELSE The({Serve(n, prior, tile) : prior \in {after[k - 1]}})]

LEMMA ServedExists ==
    ASSUME NEW n, NEW e, NEW tile, NEW count \in Nat
    PROVE  \E after : IsServed(n, e, tile, count, after)
<1> DEFINE Then(k, x) == The({Serve(n, prior, tile) : prior \in {x}})
           Upto(m) == \E f : /\ f = [k \in 0..m |-> f[k]] /\ f[0] = e
                             /\ \A k \in 1..m : f[k] = Then(k, f[k - 1])
           T == {m \in 0..count : Upto(m)}
<1> HIDE DEF Then
<1>1. 0 \in T
  <2> DEFINE g == [k \in 0..0 |-> e]
  <2>1. g = [k \in 0..0 |-> g[k]] /\ g[0] = e /\ \A k \in 1..0 : g[k] = Then(k, g[k - 1])
    OBVIOUS
  <2> HIDE DEF g
  <2>2. Upto(0)
    BY <2>1
  <2> QED BY <2>2
<1>2. ASSUME NEW m \in 1..count, m - 1 \in T PROVE m \in T
  <2>1. PICK f : /\ f = [k \in 0..(m - 1) |-> f[k]] /\ f[0] = e
                 /\ \A k \in 1..(m - 1) : f[k] = Then(k, f[k - 1])
    BY <1>2
  <2> DEFINE g == [k \in 0..m |-> IF k = m THEN Then(m, f[m - 1]) ELSE f[k]]
  <2>2. g = [k \in 0..m |-> g[k]] /\ g[0] = e
    BY <2>1
  <2>3. ASSUME NEW k \in 1..m PROVE g[k] = Then(k, g[k - 1])
    <3>1. g[k - 1] = f[k - 1]
      OBVIOUS
    <3>2. CASE k = m
      <4>1. g[m] = Then(m, f[m - 1])
        OBVIOUS
      <4> QED BY <3>1, <3>2, <4>1
    <3>3. CASE k # m
      <4>1. k \in 1..(m - 1) /\ g[k] = f[k]
        BY <3>3
      <4> QED BY <4>1, <3>1, <2>1
    <3> QED BY <3>2, <3>3
  <2> HIDE DEF g
  <2>4. Upto(m)
    BY <2>2, <2>3
  <2> HIDE DEF Upto
  <2> QED BY <2>4
<1>3. count \in T
  <2> HIDE DEF T
  <2>1. \A i \in 0..count : i \in T
    BY <1>1, <1>2, UpTo
  <2> QED BY <2>1
<1>4. PICK f : /\ f = [k \in 0..count |-> f[k]] /\ f[0] = e
               /\ \A k \in 1..count : f[k] = Then(k, f[k - 1])
  BY <1>3
<1>5. ASSUME NEW k \in 0..count
      PROVE  f[k] = IF k = 0 THEN e ELSE Then(k, f[k - 1])
  <2>1. k = 0 \/ k \in 1..count
    OBVIOUS
  <2>2. k \in 1..count => k # 0
    OBVIOUS
  <2> QED BY <1>4, <2>1, <2>2
<1>6. f = [k \in 0..count |-> IF k = 0 THEN e ELSE Then(k, f[k - 1])]
  BY <1>4, <1>5
<1> QED BY <1>6 DEF IsServed, Then


(* OnResident starts from the engine that has the flag set, and has the    *)
(* tile's waiters in hand.                                                 *)
Filled(e, tile) ==
    [e EXCEPT !.tiles[tile].resident = TRUE, !.parked = @ \ Waiters(e, tile)]

LEMMA FilledGood ==
    ASSUME NEW n, NEW D, NEW B, Context(n, D, B), NEW e, NEW L, Good(n, e, L, D, B), NEW tile
    PROVE  LET f == Filled(e, tile)
           IN /\ Good(n, f, L, D, B) /\ f.table = e.table /\ f.completions = e.completions
              /\ f.ready = e.ready /\ f.parked = e.parked \ Waiters(e, tile)
              /\ \A x \in Kept \ {"parked"} : f[x] = e[x]
<1> DEFINE f == Filled(e, tile)
           rest == e.parked \ Waiters(e, tile)
<1>1. IsEngine(e) /\ ArenaOk(e) /\ TilesKnown(n, e, D) /\ ServesOk(n, e, D, B)
  BY DEF Good, Orderly, Stocked
<1>2. f = [e EXCEPT !.tiles[tile].resident = TRUE, !.parked = rest]
  BY DEF Filled
<1> HIDE DEF f, rest
<1>3. /\ IsEngine(f) /\ f.tiles = [e.tiles EXCEPT ![tile].resident = TRUE]
      /\ f.parked = rest
      /\ \A x \in Fields \ {"tiles", "parked"} : f[x] = e[x]
  BY <1>1, <1>2 DEF IsEngine, Fields
<1>4. IsMap(e.tiles) /\ \A t \in DOMAIN e.tiles : e.tiles[t] \in Buffers
  BY <1>1 DEF ArenaOk, TilesOk
<1>5. /\ IsMap(f.tiles) /\ DOMAIN f.tiles = DOMAIN e.tiles
      /\ \A t \in DOMAIN e.tiles : t # tile => f.tiles[t] = e.tiles[t]
      /\ tile \in DOMAIN e.tiles => f.tiles[tile] = [e.tiles[tile] EXCEPT !.resident = TRUE]
  BY <1>3 DEF IsMap
<1>6. ASSUME NEW t \in DOMAIN e.tiles
      PROVE  /\ f.tiles[t] \in Buffers /\ f.tiles[t].addr = e.tiles[t].addr
             /\ f.tiles[t].class = e.tiles[t].class
             /\ f.tiles[t].expected = e.tiles[t].expected /\ f.tiles[t].serves <= B[t]
  <2>1. e.tiles[t] \in Buffers /\ e.tiles[t].serves <= B[t]
    BY <1>1, <1>4 DEF ServesOk
  <2>2. CASE t = tile
    <3>1. f.tiles[t] = [e.tiles[t] EXCEPT !.resident = TRUE]
      BY <1>5, <2>2
    <3>2. f.tiles[t] \in Buffers /\ f.tiles[t].serves = e.tiles[t].serves
      BY <2>1, <3>1 DEF Buffers
    <3> QED BY <2>1, <3>1, <3>2 DEF Buffers
  <2>3. CASE t # tile
    BY <1>5, <2>1, <2>3
  <2> QED BY <2>2, <2>3
<1>7. SameBlocks(e, f)
  BY <1>3, <1>5, <1>6 DEF SameBlocks, Fields
<1>8. SameBut(e, f, {"tiles"} \cup Aside)
  BY <1>3 DEF SameBut, Aside
<1>9. \A t \in TileSet(n) : B[t] <= B[t]
  BY DEF Context
<1>10. Touches(n, e, f, B, B)
  BY <1>3, <1>6, <1>7, <1>8, <1>9 DEF Touches
<1>11. Good(n, f, L, D, B) /\ f.table = e.table /\ f.completions = e.completions
  BY <1>10, Touched
<1>12. f.ready = e.ready /\ \A x \in Kept \ {"parked"} : f[x] = e[x]
  BY <1>3 DEF Kept, Fields
<1> QED BY <1>3, <1>11, <1>12 DEF f, rest

(* What is served when a tile comes to be resident.                        *)
ResidentAfter(n, e, tile, f, L, D, B) ==
    /\ Good(n, f, L, D, More(B, tile, Cardinality(Waiters(e, tile))))
    /\ f.table \subseteq e.table /\ e.completions \subseteq f.completions
    /\ f.completions \cup f.table = e.completions \cup e.table
    /\ \A id \in ToSet(f.ready) : id \in ToSet(e.ready) \/ Code(n, id).deps \cap e.table # {}
    /\ f.parked = e.parked \ Waiters(e, tile)
    /\ \A x \in Kept \ {"parked"} : f[x] = e[x]

LEMMA OnResidentGood ==
    ASSUME NEW n, NEW D, NEW B, Context(n, D, B), NEW e, NEW L, Good(n, e, L, D, B), NEW tile,
           Cardinality(Waiters(e, tile)) \in Nat
    PROVE  ResidentAfter(n, e, tile, OnResident(n, e, tile), L, D, B)
<1> DEFINE count == Cardinality(Waiters(e, tile))
           base  == Filled(e, tile)
           after == CHOOSE f : IsServed(n, base, tile, count, f)
           Ok(k) == Good(n, after[k], L, D, More(B, tile, k)) /\ Moves(n, base, after[k])
           T     == {k \in 0..count : Ok(k)}
<1>0. count \in Nat
  OBVIOUS
<1>1. OnResident(n, e, tile) = after[count]
  BY DEF OnResident, IsServed, Filled
<1> HIDE DEF count
<1>2. \E f : IsServed(n, base, tile, count, f)
  BY <1>0, ServedExists
<1>3. IsServed(n, base, tile, count, after)
  BY <1>2
<1> HIDE DEF after
<1>4. after[0] = base
  BY <1>0, <1>3 DEF IsServed
<1>5. ASSUME NEW k \in 1..count
      PROVE  after[k] = Serve(n, after[k - 1], tile)
  <2>1. k \in 0..count /\ k # 0
    BY <1>0
  <2>2. after[k] = The({Serve(n, prior, tile) : prior \in {after[k - 1]}})
    BY <1>3, <2>1 DEF IsServed
  <2>3. {Serve(n, prior, tile) : prior \in {after[k - 1]}} = {Serve(n, after[k - 1], tile)}
    OBVIOUS
  <2> QED BY <2>2, <2>3, TheIs
<1>6. /\ Good(n, base, L, D, B) /\ base.table = e.table /\ base.completions = e.completions
      /\ base.ready = e.ready /\ base.parked = e.parked \ Waiters(e, tile)
      /\ \A x \in Kept \ {"parked"} : base[x] = e[x]
  BY FilledGood
<1> HIDE DEF base
<1>7. 0 \in T
  <2>1. Moves(n, base, base)
    BY DEF Moves
  <2>2. More(B, tile, 0) = B
    BY MoreIs
  <2>3. Ok(0)
    BY <1>4, <1>6, <2>1, <2>2
  <2> HIDE DEF Ok
  <2> QED BY <1>0, <2>3
<1>8. ASSUME NEW k \in 1..count, k - 1 \in T PROVE k \in T
  <2>1. Good(n, after[k - 1], L, D, More(B, tile, k - 1)) /\ Moves(n, base, after[k - 1])
    BY <1>8
  <2>2. k - 1 \in Nat /\ (k - 1) + 1 = k /\ k \in 0..count
    BY <1>0
  <2>3. /\ Context(n, D, More(B, tile, k - 1))
        /\ More(B, tile, (k - 1) + 1) = More(More(B, tile, k - 1), tile, 1)
    BY <2>2, MoreIs
  <2> DEFINE x == after[k - 1]
             C == More(B, tile, k - 1)
  <2> HIDE DEF x, C
  <2>4. Good(n, Serve(n, x, tile), L, D, More(C, tile, 1)) /\ Moves(n, x, Serve(n, x, tile))
    <3>1. Good(n, x, L, D, C) /\ Context(n, D, C)
      BY <2>1, <2>3 DEF x, C
    <3> QED BY <3>1, ServeGood
  <2>5. after[k] = Serve(n, x, tile)
    BY <1>5 DEF x
  <2>6. More(C, tile, 1) = More(B, tile, k)
    BY <2>2, <2>3 DEF C
  <2>7. Moves(n, base, Serve(n, x, tile))
    <3>1. Moves(n, base, x)
      BY <2>1 DEF x
    <3> QED BY <2>4, <3>1, MovesOn
  <2>8. Ok(k)
    BY <2>4, <2>5, <2>6, <2>7
  <2> HIDE DEF Ok
  <2> QED BY <2>2, <2>8
<1>9. count \in T
  <2> HIDE DEF T
  <2>1. \A k \in 0..count : k \in T
    BY <1>0, <1>7, <1>8, UpTo
  <2> QED BY <1>0, <2>1
<1>10. Good(n, after[count], L, D, More(B, tile, count)) /\ Moves(n, base, after[count])
  BY <1>9
<1>11. ResidentAfter(n, e, tile, after[count], L, D, B)
  <2> DEFINE f == after[count]
  <2> HIDE DEF f
  <2>1. Good(n, f, L, D, More(B, tile, count)) /\ Moves(n, base, f)
    BY <1>10 DEF f
  <2>2. /\ f.table \subseteq e.table /\ e.completions \subseteq f.completions
        /\ f.completions \cup f.table = e.completions \cup e.table
        /\ \A id \in ToSet(f.ready) :
                id \in ToSet(e.ready) \/ Code(n, id).deps \cap e.table # {}
    BY <1>6, <2>1 DEF Moves
  <2>3. \A x \in Kept : f[x] = base[x]
    BY <2>1 DEF Moves
  <2>4. f.parked = e.parked \ Waiters(e, tile)
    BY <1>6, <2>3 DEF Kept
  <2>5. \A x \in Kept \ {"parked"} : f[x] = e[x]
    BY <1>6, <2>3
  <2>6. ResidentAfter(n, e, tile, f, L, D, B)
    BY <2>1, <2>2, <2>4, <2>5 DEF ResidentAfter, count
  <2> QED BY <2>6 DEF f
<1> QED BY <1>1, <1>11

-----------------------------------------------------------------------------
(* Ids that change place *)

(* f has the table and the store of e, and the ids are elsewhere.          *)
SameStore(e, f) ==
    /\ f.table = e.table /\ f.completions = e.completions
    /\ f.tiles = e.tiles /\ f.slabs = e.slabs /\ f.bump = e.bump

Rearranges(n, e, L, f, M) ==
    /\ IsEngine(f) /\ SameStore(e, f)
    /\ ListsOfIds(n, f) /\ Apart(f, M) /\ OpsOk(n, f)
    /\ Placed(f) \cup M \subseteq Placed(e) \cup L /\ f.finished \subseteq DOMAIN f.running
    /\ \A id \in ToSet(f.frees) \cup M : Code(n, id).op = "free" => id \in ToSet(e.frees) \cup L

LEMMA Rearranged ==
    ASSUME NEW n, NEW D, NEW B, NEW e, NEW L, Good(n, e, L, D, B),
           NEW f, NEW M, Rearranges(n, e, L, f, M)
    PROVE  Good(n, f, M, D, B)
<1>1. /\ IsEngine(f) /\ f.table = e.table /\ f.completions = e.completions
      /\ f.tiles = e.tiles /\ f.slabs = e.slabs /\ f.bump = e.bump
      /\ ListsOfIds(n, f) /\ Apart(f, M) /\ OpsOk(n, f)
      /\ Placed(f) \cup M \subseteq Placed(e) \cup L /\ f.finished \subseteq DOMAIN f.running
      /\ \A id \in ToSet(f.frees) \cup M : Code(n, id).op = "free" => id \in ToSet(e.frees) \cup L
  BY DEF Rearranges, SameStore
<1>2. /\ InTable(n, e, L) /\ DoneOk(n, e, D) /\ DepsOk(n, e, L, D) /\ Stocked(n, e, L, D, B)
      /\ Done(f, D) = Done(e, D)
  BY <1>1 DEF Good, Orderly, Done
<1>3. InTable(n, f, M) /\ DoneOk(n, f, D) /\ DepsOk(n, f, M, D)
  BY <1>1, <1>2 DEF InTable, DoneOk, DepsOk
<1>4. ArenaOk(f)
  BY <1>1, <1>2, SameStock DEF Stocked
<1>5. TilesKnown(n, f, D) /\ FreesKnown(n, f, M) /\ ServesOk(n, f, D, B)
  BY <1>1, <1>2 DEF Stocked, TilesKnown, FreesKnown, ServesOk
<1> QED BY <1>1, <1>3, <1>4, <1>5 DEF Good, Orderly, Stocked

(* Nobody has to have an id in hand.                                       *)
LEMMA FewerInHand ==
    ASSUME NEW n, NEW D, NEW B, NEW e, NEW L, Good(n, e, L, D, B), NEW M \in SUBSET L
    PROVE  Good(n, e, M, D, B)
<1>1. Rearranges(n, e, L, e, M)
  BY DEF Good, Orderly, Rearranges, SameStore, Apart, InTable
<1> QED BY <1>1, Rearranged

(* What is of no account may change.                                       *)
LEMMA AsideGood ==
    ASSUME NEW n, NEW D, NEW B, NEW e, NEW L, Good(n, e, L, D, B),
           NEW f, IsEngine(f), SameBut(e, f, Aside)
    PROVE  Good(n, f, L, D, B)
<1>1. /\ SameStore(e, f) /\ f.ready = e.ready /\ f.allocs = e.allocs /\ f.frees = e.frees
      /\ f.waiting = e.waiting /\ f.running = e.running /\ f.finished = e.finished
  BY DEF SameBut, Fields, Aside, SameStore
<1>2. /\ ListsOfIds(n, e) /\ Apart(e, L) /\ InTable(n, e, L) /\ OpsOk(n, e)
  BY DEF Good, Orderly
<1>3. Placed(f) = Placed(e)
  BY <1>1 DEF Placed
<1>4. Rearranges(n, e, L, f, L)
  BY <1>1, <1>2, <1>3 DEF Rearranges, ListsOfIds, Apart, OpsOk, InTable
<1> QED BY <1>4, Rearranged

(* The head of the ready queue is taken: but for a FREE, whose tile does   *)
(* not know yet how many serves to expect, all is well.                    *)
LEMMA HeadPlaced ==
    ASSUME NEW n, NEW D, NEW B, NEW e, NEW L, Good(n, e, L, D, B), e.ready # <<>>
    PROVE  /\ Head(e.ready) \in Placed(e) /\ Head(e.ready) \in e.table
           /\ Head(e.ready) \in AllIds(n) /\ Head(e.ready) \notin L
           /\ ListOf(n, Tail(e.ready)) /\ Head(e.ready) \notin ToSet(Tail(e.ready))
           /\ ToSet(e.ready) = {Head(e.ready)} \cup ToSet(Tail(e.ready))
<1>1. ListOf(n, e.ready) /\ Apart(e, L) /\ InTable(n, e, L)
  BY DEF Good, Orderly, ListsOfIds
<1>2. /\ Head(e.ready) \in AllIds(n) /\ ListOf(n, Tail(e.ready))
      /\ Head(e.ready) \notin ToSet(Tail(e.ready))
      /\ ToSet(e.ready) = {Head(e.ready)} \cup ToSet(Tail(e.ready))
  BY <1>1, TailIs DEF ListOf
<1>3. Head(e.ready) \in Placed(e)
  BY <1>2 DEF Placed
<1> QED BY <1>1, <1>2, <1>3 DEF InTable, Apart

Taken(e) == [e EXCEPT !.ready = Tail(@)]

IsTaken(n, e, L, f) ==
    /\ IsEngine(f) /\ SameStore(e, f) /\ f.ready = Tail(e.ready)
    /\ f.allocs = e.allocs /\ f.frees = e.frees /\ f.waiting = e.waiting
    /\ f.running = e.running /\ f.finished = e.finished
    /\ f.kernels = e.kernels /\ f.fetching = e.fetching /\ f.parked = e.parked
    /\ f.io = e.io
    /\ ListsOfIds(n, f) /\ Apart(f, L \cup {Head(e.ready)}) /\ OpsOk(n, f)
    /\ Placed(f) \cup {Head(e.ready)} = Placed(e) /\ Head(e.ready) \notin Placed(f)

LEMMA TakenIs ==
    ASSUME NEW n, NEW D, NEW B, NEW e, NEW L, Good(n, e, L, D, B), e.ready # <<>>
    PROVE  IsTaken(n, e, L, Taken(e))
<1> DEFINE f == Taken(e)
           id == Head(e.ready)
<1>1. IsEngine(e) /\ ListsOfIds(n, e) /\ Apart(e, L) /\ OpsOk(n, e)
  BY DEF Good, Orderly
<1>2. /\ IsEngine(f) /\ SameStore(e, f) /\ f.ready = Tail(e.ready)
      /\ f.allocs = e.allocs /\ f.frees = e.frees /\ f.waiting = e.waiting
      /\ f.running = e.running /\ f.finished = e.finished
      /\ f.kernels = e.kernels /\ f.fetching = e.fetching /\ f.parked = e.parked
      /\ f.io = e.io
  BY <1>1 DEF IsEngine, Fields, Taken, SameStore
<1>3. /\ id \in Placed(e) /\ id \notin L /\ ListOf(n, Tail(e.ready))
      /\ id \notin ToSet(Tail(e.ready)) /\ ToSet(e.ready) = {id} \cup ToSet(Tail(e.ready))
  BY HeadPlaced
<1> HIDE DEF f, id
<1>4. ListsOfIds(n, f) /\ OpsOk(n, f)
  BY <1>1, <1>2, <1>3 DEF ListsOfIds, OpsOk
<1>5. /\ ToSet(e.ready) \cap DOMAIN e.running = {} /\ ToSet(e.ready) \cap ToSet(e.waiting) = {}
      /\ ToSet(e.ready) \cap ToSet(e.frees) = {} /\ ToSet(e.ready) \cap ToSet(e.allocs) = {}
  BY <1>1 DEF Apart
<1>6. Placed(f) \cup {id} = Placed(e) /\ id \notin Placed(f)
  BY <1>2, <1>3, <1>5 DEF Placed
<1>7. (L \cup {id}) \cap Placed(f) = {}
  BY <1>1, <1>6 DEF Apart
<1>8. Apart(f, L \cup {id})
  BY <1>1, <1>2, <1>3, <1>7 DEF Apart
<1> QED BY <1>2, <1>4, <1>6, <1>8 DEF f, id, IsTaken

LEMMA TakenGood ==
    ASSUME NEW n, NEW D, NEW B, NEW e, NEW L, Good(n, e, L, D, B), e.ready # <<>>,
           Code(n, Head(e.ready)).op # "free"
    PROVE  Good(n, Taken(e), L \cup {Head(e.ready)}, D, B)
<1> DEFINE f  == Taken(e)
           id == Head(e.ready)
<1>1. /\ IsEngine(f) /\ SameStore(e, f) /\ f.frees = e.frees
      /\ f.running = e.running /\ f.finished = e.finished
      /\ ListsOfIds(n, f) /\ Apart(f, L \cup {id}) /\ OpsOk(n, f)
      /\ Placed(f) \cup {id} = Placed(e) /\ id \notin Placed(f)
  <2>1. IsTaken(n, e, L, f)
    BY TakenIs
  <2> HIDE DEF f
  <2> QED BY <2>1 DEF IsTaken
<1> HIDE DEF f, id
<1>2. f.finished \subseteq DOMAIN f.running
  BY <1>1 DEF Good, Orderly, InTable
<1>3. Code(n, id).op # "free"
  BY DEF id
<1>4. Rearranges(n, e, L, f, L \cup {id})
  BY <1>1, <1>2, <1>3 DEF Rearranges
<1> QED BY <1>4, Rearranged DEF f, id

-----------------------------------------------------------------------------
(* What the engines' actions do to an engine *)

(* IssueAlloc *)
LEMMA IssueAllocGood ==
    ASSUME NEW n, NEW D, NEW B, Context(n, D, B), NEW e, NEW L, Good(n, e, L, D, B),
           e.ready # <<>>, Code(n, Head(e.ready)).op = "alloc"
    PROVE  LET f == TryAlloc(n, Taken(e), Head(e.ready))
           IN Good(n, f, L, D, B) /\ Moves(n, Taken(e), f)
<1> DEFINE g  == Taken(e)
           id == Head(e.ready)
<1>1. Good(n, g, L \cup {id}, D, B)
  BY TakenGood
<1>2. id \notin L
  BY HeadPlaced
<1>3. Code(n, id).op = "alloc"
  OBVIOUS
<1> HIDE DEF g, id
<1>4. Good(n, TryAlloc(n, g, id), (L \cup {id}) \ {id}, D, B) /\ Moves(n, g, TryAlloc(n, g, id))
  BY <1>1, <1>3, TryAllocGood
<1>5. (L \cup {id}) \ {id} = L
  BY <1>2
<1> QED BY <1>4, <1>5 DEF g, id

(* IssueFree *)
Expecting(n, e) ==
    [Taken(e) EXCEPT !.tiles[Head(e.ready)[2]].expected = Code(n, Head(e.ready)).serves]

LEMMA ExpectingGood ==
    ASSUME NEW n, NEW D, NEW B, Context(n, D, B), NEW e, NEW L, Good(n, e, L, D, B),
           e.ready # <<>>, Code(n, Head(e.ready)).op = "free"
    PROVE  /\ Good(n, Expecting(n, e), L \cup {Head(e.ready)}, D, B)
           /\ Moves(n, e, Expecting(n, e))
<1> DEFINE id == Head(e.ready)
           t  == id[2]
           g  == Taken(e)
           f  == Expecting(n, e)
           v  == Code(n, id).serves
           M  == L \cup {id}
<1>1. IsTaken(n, e, L, g)
  BY TakenIs
<1>2. f = [g EXCEPT !.tiles[t].expected = v]
  BY DEF Expecting
<1>3. id \in Placed(e) /\ id \in e.table /\ id \in AllIds(n) /\ id \notin L
  BY HeadPlaced
<1>4. /\ InTable(n, e, L) /\ DoneOk(n, e, D) /\ DepsOk(n, e, L, D) /\ ListsOfIds(n, e)
      /\ Stocked(n, e, L, D, B)
  BY DEF Good, Orderly
<1> HIDE DEF f, g
<1>5. id = Free(t) /\ Code(n, id).op = "free" /\ v \in Nat /\ t \in Uses(Code(n, id))
  BY <1>3, NameIs
<1> HIDE DEF id, t, v
<1>6. /\ IsEngine(f) /\ f.tiles = [g.tiles EXCEPT ![t].expected = v]
      /\ \A x \in Fields \ {"tiles"} : f[x] = g[x]
  BY <1>1, <1>2 DEF IsTaken, IsEngine, Fields
(* The tile is there: its ALLOC is done, and its FREE is the one in hand.  *)
<1>7. t \in DOMAIN e.tiles
  <2>1. Code(n, id).deps \subseteq Done(e, D)
    BY <1>3, <1>4 DEF DepsOk
  <2>2. Alloc(t) \in Done(e, D)
    BY <1>3, <1>4, <1>5, <2>1, AllocDone
  <2>3. Alloc(t) \in AllIds(n) /\ Alloc(t)[2] = t
    BY <1>4, <2>2 DEF DoneOk, Alloc
  <2>4. Code(n, Alloc(t)).op = "alloc"
    BY <2>3, NameIs
  <2>5. Free(t) \notin Done(e, D)
    BY <1>3, <1>4, <1>5 DEF DoneOk
  <2> QED BY <1>4, <2>2, <2>3, <2>4, <2>5 DEF Stocked, TilesKnown
<1>8. g.tiles = e.tiles /\ g.slabs = e.slabs /\ g.bump = e.bump /\ g.table = e.table
      /\ g.completions = e.completions
  BY <1>1 DEF IsTaken, SameStore
<1>9. /\ f.table = e.table /\ f.completions = e.completions /\ f.slabs = e.slabs
      /\ f.bump = e.bump /\ f.ready = g.ready /\ f.allocs = g.allocs /\ f.frees = g.frees
      /\ f.waiting = g.waiting /\ f.running = g.running /\ f.finished = g.finished
  BY <1>6, <1>8 DEF Fields
<1>10. Placed(f) = Placed(g) /\ Done(f, D) = Done(e, D) /\ f.frees = e.frees
  BY <1>1, <1>9 DEF Placed, Done, IsTaken
<1>11. Orderly(n, f, M, D)
  <2>1. ListsOfIds(n, f) /\ OpsOk(n, f) /\ Apart(f, M)
    <3>1. ListsOfIds(n, g) /\ OpsOk(n, g) /\ Apart(g, M)
      BY <1>1 DEF IsTaken, id
    <3> QED BY <1>9, <1>10, <3>1 DEF ListsOfIds, OpsOk, Apart
  <2>2. Placed(f) \cup M \subseteq Placed(e) \cup L
    BY <1>1, <1>3, <1>10 DEF IsTaken, id
  <2>3. InTable(n, f, M)
    BY <1>1, <1>4, <1>9, <2>2 DEF InTable, IsTaken
  <2>4. DoneOk(n, f, D) /\ DepsOk(n, f, M, D)
    BY <1>4, <1>9, <1>10, <2>2 DEF DoneOk, DepsOk
  <2> QED BY <1>6, <2>1, <2>3, <2>4 DEF Orderly
<1>12. IsMap(e.tiles) /\ \A u \in DOMAIN e.tiles : e.tiles[u] \in Buffers
  BY <1>4 DEF Stocked, ArenaOk, TilesOk
<1>13. /\ IsMap(f.tiles) /\ DOMAIN f.tiles = DOMAIN e.tiles
       /\ \A u \in DOMAIN e.tiles : u # t => f.tiles[u] = e.tiles[u]
       /\ f.tiles[t] = [e.tiles[t] EXCEPT !.expected = v]
  BY <1>6, <1>7, <1>8 DEF IsMap
<1>14. /\ f.tiles[t] \in Buffers /\ f.tiles[t].addr = e.tiles[t].addr
       /\ f.tiles[t].class = e.tiles[t].class /\ f.tiles[t].serves = e.tiles[t].serves
       /\ f.tiles[t].expected = v
  <2>1. e.tiles[t] \in Buffers
    BY <1>7, <1>12
  <2> QED BY <1>5, <1>13, <2>1 DEF Buffers
<1>15. ArenaOk(f)
  <2>1. SameBlocks(e, f)
    BY <1>9, <1>12, <1>13, <1>14 DEF SameBlocks
  <2> QED BY <1>4, <2>1, SameArena DEF Stocked
<1>16. TilesKnown(n, f, D) /\ ServesOk(n, f, D, B)
  BY <1>4, <1>10, <1>13, <1>14 DEF Stocked, TilesKnown, ServesOk
<1>17. FreesKnown(n, f, M)
  <2> SUFFICES ASSUME NEW i \in ToSet(f.frees) \cup M, Code(n, i).op = "free"
               PROVE  i[2] \in DOMAIN f.tiles /\ f.tiles[i[2]].expected = Code(n, i).serves
    BY DEF FreesKnown
  <2>1. CASE i = id
    BY <1>7, <1>13, <1>14, <2>1 DEF t, v
  <2>2. CASE i # id
    <3>1. i \in ToSet(e.frees) \cup L
      BY <1>10, <2>2
    <3>2. i \in AllIds(n)
      BY <1>4, <3>1 DEF InTable, Placed
    <3>3. i = Free(i[2])
      BY <3>2, NameIs
    <3>4. i[2] # t
      BY <1>5, <2>2, <3>3
    <3> QED BY <1>4, <1>13, <3>1, <3>4 DEF Stocked, FreesKnown
  <2> QED BY <2>1, <2>2
<1>18. Moves(n, e, f)
  <2>1. \A x \in Kept : g[x] = e[x]
    BY <1>1 DEF IsTaken, Kept
  <2>2. \A x \in Kept : f[x] = e[x]
    BY <1>6, <2>1 DEF Kept, Fields
  <2>3. ToSet(f.ready) \subseteq ToSet(e.ready)
    <3>1. f.ready = Tail(e.ready)
      BY <1>1, <1>9 DEF IsTaken
    <3> QED BY <3>1, HeadPlaced
  <2> QED BY <1>9, <2>2, <2>3 DEF Moves
<1> QED BY <1>11, <1>15, <1>16, <1>17, <1>18 DEF Good, Stocked, f, id

LEMMA IssueFreeGood ==
    ASSUME NEW n, NEW D, NEW B, Context(n, D, B), NEW e, NEW L, Good(n, e, L, D, B),
           e.ready # <<>>, Code(n, Head(e.ready)).op = "free"
    PROVE  LET f == TryFree(n, Expecting(n, e), Head(e.ready))
           IN /\ Good(n, f, L, D, B) /\ Moves(n, e, f)
              /\ Good(n, RetryAllocs(n, f), L, D, B) /\ Moves(n, e, RetryAllocs(n, f))
<1> DEFINE g  == Expecting(n, e)
           id == Head(e.ready)
           f  == TryFree(n, g, id)
<1>1. Good(n, g, L \cup {id}, D, B) /\ Moves(n, e, g)
  BY ExpectingGood
<1>2. id \notin L
  BY HeadPlaced
<1> HIDE DEF g
<1>3. Good(n, f, (L \cup {id}) \ {id}, D, B) /\ Moves(n, g, f)
  BY <1>1, TryFreeGood
<1>4. (L \cup {id}) \ {id} = L
  BY <1>2
<1> HIDE DEF f
<1>5. Good(n, f, L, D, B) /\ Moves(n, e, f)
  BY <1>1, <1>3, <1>4, MovesOn
<1>6. Good(n, RetryAllocs(n, f), L, D, B) /\ Moves(n, f, RetryAllocs(n, f))
  BY <1>5, RetryAllocsGood
<1>7. Moves(n, e, RetryAllocs(n, f))
  BY <1>5, <1>6, MovesOn
<1> QED BY <1>5, <1>6, <1>7 DEF f, g

(* Launch *)
Launched(e, addrs) == [Taken(e) EXCEPT !.running = Put(@, Head(e.ready), addrs)]

LEMMA LaunchGood ==
    ASSUME NEW n, NEW D, NEW B, NEW e, NEW L, Good(n, e, L, D, B), NEW addrs,
           e.ready # <<>>, Code(n, Head(e.ready)).op = "compute"
    PROVE  LET f == Launched(e, addrs)
           IN /\ Good(n, f, L, D, B) /\ f.io = e.io /\ f.kernels = e.kernels
              /\ f.fetching = e.fetching /\ f.parked = e.parked
              /\ f.table = e.table /\ f.completions = e.completions /\ f.ready = Tail(e.ready)
<1> DEFINE id == Head(e.ready)
           g  == Taken(e)
           f  == Launched(e, addrs)
<1>1. /\ IsTaken(n, e, L, g) /\ f = [g EXCEPT !.running = Put(@, id, addrs)]
      /\ id \in Placed(e) /\ id \notin L /\ Code(n, id).op = "compute"
  BY TakenIs, HeadPlaced DEF Launched
<1>2. /\ ListsOfIds(n, g) /\ Apart(g, L \cup {id}) /\ OpsOk(n, g) /\ SameStore(e, g)
      /\ Placed(g) \cup {id} = Placed(e) /\ id \notin Placed(g) /\ IsEngine(g)
      /\ g.ready = Tail(e.ready) /\ g.frees = e.frees /\ g.running = e.running /\ g.finished = e.finished
      /\ g.io = e.io /\ g.kernels = e.kernels /\ g.fetching = e.fetching /\ g.parked = e.parked
  BY <1>1 DEF IsTaken
<1> HIDE DEF f, g, id
<1>3. /\ IsEngine(f) /\ f.running = Put(g.running, id, addrs)
      /\ \A x \in Fields \ {"running"} : f[x] = g[x]
  BY <1>1, <1>2 DEF IsEngine, Fields
<1>4. /\ f.table = g.table /\ f.completions = g.completions /\ f.tiles = g.tiles
      /\ f.slabs = g.slabs /\ f.bump = g.bump /\ f.ready = g.ready /\ f.allocs = g.allocs
      /\ f.frees = g.frees /\ f.waiting = g.waiting /\ f.finished = g.finished
      /\ f.io = g.io /\ f.kernels = g.kernels /\ f.fetching = g.fetching /\ f.parked = g.parked
  BY <1>3 DEF Fields
<1>5. DOMAIN f.running = DOMAIN g.running \cup {id}
  BY <1>3 DEF Put
<1>6. Placed(f) = Placed(g) \cup {id}
  BY <1>4, <1>5 DEF Placed
<1>7. ListsOfIds(n, f) /\ OpsOk(n, f)
  BY <1>1, <1>2, <1>4, <1>5 DEF ListsOfIds, OpsOk
<1>8. Apart(f, L)
  <2>1. L \cap Placed(f) = {}
    BY <1>1, <1>2, <1>6 DEF Apart
  <2>2. /\ id \notin ToSet(g.ready) /\ id \notin ToSet(g.allocs) /\ id \notin ToSet(g.frees)
        /\ id \notin ToSet(g.waiting)
    BY <1>2 DEF Placed
  <2> QED BY <1>2, <1>4, <1>5, <2>1, <2>2 DEF Apart
<1>9. SameStore(e, f)
  BY <1>2, <1>4 DEF SameStore
<1>10. f.finished \subseteq DOMAIN f.running
  BY <1>2, <1>4, <1>5 DEF Good, Orderly, InTable
<1>11. Rearranges(n, e, L, f, L)
  BY <1>2, <1>3, <1>4, <1>6, <1>7, <1>8, <1>9, <1>10 DEF Rearranges
<1>12. Good(n, f, L, D, B)
  BY <1>11, Rearranged
<1> QED BY <1>2, <1>4, <1>9, <1>12 DEF f, SameStore

(* AwaitKernel *)
Awaiting(e, leaf) ==
    [Taken(e) EXCEPT !.waiting = Append(@, Head(e.ready)), !.fetching = @ \cup {leaf}]

LEMMA AwaitGood ==
    ASSUME NEW n, NEW D, NEW B, NEW e, NEW L, Good(n, e, L, D, B), NEW leaf,
           e.ready # <<>>, Code(n, Head(e.ready)).op = "compute"
    PROVE  LET f == Awaiting(e, leaf)
           IN /\ Good(n, f, L, D, B) /\ f.io = e.io /\ f.kernels = e.kernels
              /\ f.fetching = e.fetching \cup {leaf} /\ f.parked = e.parked
              /\ f.table = e.table /\ f.completions = e.completions /\ f.ready = Tail(e.ready)
<1> DEFINE id == Head(e.ready)
           g  == Taken(e)
           f  == Awaiting(e, leaf)
<1>1. /\ IsTaken(n, e, L, g) /\ id \in AllIds(n)
      /\ f = [g EXCEPT !.waiting = Append(@, id), !.fetching = @ \cup {leaf}]
      /\ id \in Placed(e) /\ id \notin L /\ Code(n, id).op = "compute"
  BY TakenIs, HeadPlaced DEF Awaiting
<1>2. /\ ListsOfIds(n, g) /\ Apart(g, L \cup {id}) /\ OpsOk(n, g) /\ SameStore(e, g)
      /\ Placed(g) \cup {id} = Placed(e) /\ id \notin Placed(g) /\ IsEngine(g)
      /\ g.ready = Tail(e.ready) /\ g.frees = e.frees /\ g.running = e.running /\ g.finished = e.finished
      /\ g.io = e.io /\ g.kernels = e.kernels /\ g.fetching = e.fetching /\ g.parked = e.parked
  BY <1>1 DEF IsTaken
<1> HIDE DEF f, g, id
<1>3. /\ IsEngine(f) /\ f.waiting = Append(g.waiting, id) /\ f.fetching = g.fetching \cup {leaf}
      /\ \A x \in Fields \ {"waiting", "fetching"} : f[x] = g[x]
  BY <1>1, <1>2 DEF IsEngine, Fields
<1>4. /\ f.table = g.table /\ f.completions = g.completions /\ f.tiles = g.tiles
      /\ f.slabs = g.slabs /\ f.bump = g.bump /\ f.ready = g.ready /\ f.allocs = g.allocs
      /\ f.frees = g.frees /\ f.running = g.running /\ f.finished = g.finished
      /\ f.io = g.io /\ f.kernels = g.kernels /\ f.parked = g.parked
  BY <1>3 DEF Fields
<1>5. ListOf(n, f.waiting) /\ ToSet(f.waiting) = ToSet(g.waiting) \cup {id}
  <2>1. g.waiting \in Seq(AllIds(n)) /\ IsInjective(g.waiting) /\ id \notin ToSet(g.waiting)
    BY <1>2 DEF ListsOfIds, ListOf, Placed
  <2> QED BY <1>1, <1>3, <2>1, AppendIs DEF ListOf
<1>6. Placed(f) = Placed(g) \cup {id}
  BY <1>4, <1>5 DEF Placed
<1>7. ListsOfIds(n, f) /\ OpsOk(n, f)
  BY <1>1, <1>2, <1>4, <1>5 DEF ListsOfIds, OpsOk
<1>8. Apart(f, L)
  <2>1. L \cap Placed(f) = {}
    BY <1>1, <1>2, <1>6 DEF Apart
  <2>2. /\ id \notin ToSet(g.ready) /\ id \notin ToSet(g.allocs) /\ id \notin ToSet(g.frees)
        /\ id \notin DOMAIN g.running
    BY <1>2 DEF Placed
  <2> QED BY <1>2, <1>4, <1>5, <2>1, <2>2 DEF Apart
<1>9. SameStore(e, f)
  BY <1>2, <1>4 DEF SameStore
<1>10. f.finished \subseteq DOMAIN f.running
  BY <1>2, <1>4 DEF Good, Orderly, InTable
<1>11. Rearranges(n, e, L, f, L)
  BY <1>2, <1>3, <1>4, <1>6, <1>7, <1>8, <1>9, <1>10 DEF Rearranges
<1>12. Good(n, f, L, D, B)
  BY <1>11, Rearranged
<1> QED BY <1>2, <1>3, <1>4, <1>9, <1>12 DEF f, SameStore

(* OnKernelFetched *)
FetchedOn(n, e, leaf, mine) ==
    [e EXCEPT !.kernels = @ \cup {leaf}, !.fetching = @ \ {leaf},
              !.ready = @ \o Only(e.waiting, mine),
              !.waiting = Only(@, AllIds(n) \ mine)]

LEMMA FetchedGood ==
    ASSUME NEW n, NEW D, NEW B, NEW e, NEW L, Good(n, e, L, D, B), NEW leaf, NEW mine
    PROVE  LET f == FetchedOn(n, e, leaf, mine)
           IN /\ Good(n, f, L, D, B) /\ f.io = e.io /\ f.kernels = e.kernels \cup {leaf}
              /\ f.fetching = e.fetching \ {leaf} /\ f.parked = e.parked
              /\ f.table = e.table /\ f.completions = e.completions
              /\ ToSet(f.ready) \subseteq ToSet(e.ready) \cup ToSet(e.waiting)
<1> DEFINE f   == FetchedOn(n, e, leaf, mine)
           out  == Only(e.waiting, mine)
           rest == Only(e.waiting, AllIds(n) \ mine)
<1>1. /\ ListsOfIds(n, e) /\ Apart(e, L) /\ OpsOk(n, e) /\ IsEngine(e)
      /\ e.finished \subseteq DOMAIN e.running
  BY DEF Good, Orderly, InTable
<1>2. /\ ListOf(n, out) /\ ToSet(out) = ToSet(e.waiting) \cap mine
      /\ ListOf(n, rest) /\ ToSet(rest) = ToSet(e.waiting) \cap (AllIds(n) \ mine)
  <2>1. e.waiting \in Seq(AllIds(n)) /\ IsInjective(e.waiting)
    BY <1>1 DEF ListsOfIds, ListOf
  <2> QED BY <2>1, OnlyIs DEF ListOf
<1>3. f = [e EXCEPT !.kernels = @ \cup {leaf}, !.fetching = @ \ {leaf},
                    !.ready = @ \o out, !.waiting = rest]
  BY DEF FetchedOn
<1> HIDE DEF f, out, rest
<1>4. /\ IsEngine(f) /\ f.ready = e.ready \o out /\ f.waiting = rest
      /\ f.kernels = e.kernels \cup {leaf} /\ f.fetching = e.fetching \ {leaf}
      /\ f.table = e.table /\ f.completions = e.completions /\ f.tiles = e.tiles
      /\ f.slabs = e.slabs /\ f.bump = e.bump /\ f.allocs = e.allocs
      /\ f.frees = e.frees /\ f.running = e.running /\ f.finished = e.finished
      /\ f.io = e.io /\ f.parked = e.parked
  BY <1>1, <1>3 DEF IsEngine, Fields
<1>5. ToSet(out) \subseteq ToSet(e.waiting) /\ ToSet(rest) \subseteq ToSet(e.waiting)
      /\ ToSet(out) \cap ToSet(rest) = {}
  BY <1>2
<1>6. ListOf(n, f.ready) /\ ToSet(f.ready) = ToSet(e.ready) \cup ToSet(out)
  <2>1. e.ready \in Seq(AllIds(n)) /\ IsInjective(e.ready) /\ ToSet(e.ready) \cap ToSet(out) = {}
    BY <1>1, <1>5 DEF ListsOfIds, ListOf, Apart
  <2>2. out \in Seq(AllIds(n)) /\ IsInjective(out)
    BY <1>2 DEF ListOf
  <2> QED BY <1>4, <2>1, <2>2, ConcatIs DEF ListOf
<1>7. ListsOfIds(n, f) /\ OpsOk(n, f)
  BY <1>1, <1>2, <1>4, <1>5, <1>6 DEF ListsOfIds, OpsOk
<1>8. Placed(f) \subseteq Placed(e)
  BY <1>4, <1>5, <1>6 DEF Placed
<1>9. Apart(f, L)
  <2>1. L \cap Placed(f) = {}
    BY <1>1, <1>8 DEF Apart
  <2>2. /\ DOMAIN f.running \cap (ToSet(f.ready) \cup ToSet(f.allocs) \cup ToSet(f.frees)
                                  \cup ToSet(f.waiting)) = {}
        /\ ToSet(f.frees) \cap (ToSet(f.ready) \cup ToSet(f.allocs)) = {}
        /\ ToSet(f.allocs) \cap ToSet(f.ready) = {}
    BY <1>1, <1>4, <1>5, <1>6 DEF Apart
  <2>3. ToSet(f.waiting) \cap (ToSet(f.ready) \cup ToSet(f.allocs) \cup ToSet(f.frees)) = {}
    BY <1>1, <1>4, <1>5, <1>6 DEF Apart
  <2> QED BY <2>1, <2>2, <2>3 DEF Apart
<1>10. SameStore(e, f)
  BY <1>4 DEF SameStore
<1>11. \A id \in ToSet(f.frees) \cup L : id \in ToSet(e.frees) \cup L
  BY <1>4
<1>12. Rearranges(n, e, L, f, L)
  BY <1>1, <1>4, <1>7, <1>8, <1>9, <1>10, <1>11 DEF Rearranges
<1>13. Good(n, f, L, D, B)
  BY <1>12, Rearranged
<1> QED BY <1>4, <1>5, <1>6, <1>13 DEF f

(* Finish *)
FinishedOn(e, id) == [e EXCEPT !.finished = @ \cup {id}]

LEMMA FinishedGood ==
    ASSUME NEW n, NEW D, NEW B, NEW e, NEW L, Good(n, e, L, D, B), NEW id \in DOMAIN e.running
    PROVE  LET f == FinishedOn(e, id)
           IN /\ Good(n, f, L, D, B) /\ f.io = e.io /\ f.kernels = e.kernels
              /\ f.fetching = e.fetching /\ f.parked = e.parked
              /\ f.table = e.table /\ f.completions = e.completions /\ f.ready = e.ready
<1> DEFINE f == FinishedOn(e, id)
<1>1. /\ ListsOfIds(n, e) /\ Apart(e, L) /\ OpsOk(n, e) /\ IsEngine(e)
      /\ e.finished \subseteq DOMAIN e.running
  BY DEF Good, Orderly, InTable
<1>2. /\ IsEngine(f) /\ f.finished = e.finished \cup {id} /\ f.ready = e.ready
      /\ f.table = e.table /\ f.completions = e.completions /\ f.tiles = e.tiles
      /\ f.slabs = e.slabs /\ f.bump = e.bump /\ f.allocs = e.allocs
      /\ f.frees = e.frees /\ f.running = e.running /\ f.waiting = e.waiting
      /\ f.io = e.io /\ f.parked = e.parked /\ f.kernels = e.kernels /\ f.fetching = e.fetching
  BY <1>1 DEF IsEngine, Fields, FinishedOn
<1> HIDE DEF f
<1>3. Placed(f) = Placed(e) /\ SameStore(e, f)
  BY <1>2 DEF Placed, SameStore
<1>4. ListsOfIds(n, f) /\ Apart(f, L) /\ OpsOk(n, f)
  BY <1>1, <1>2, <1>3 DEF ListsOfIds, Apart, OpsOk
<1>5. Rearranges(n, e, L, f, L)
  BY <1>1, <1>2, <1>3, <1>4 DEF Rearranges
<1>6. Good(n, f, L, D, B)
  BY <1>5, Rearranged
<1> QED BY <1>2, <1>6 DEF f

(* Poll: the kernel's compute is in hand.                                  *)
Polled(e, id) == [e EXCEPT !.running = Without(@, id), !.finished = @ \ {id}]

LEMMA PolledGood ==
    ASSUME NEW n, NEW D, NEW B, NEW e, NEW L, Good(n, e, L, D, B), NEW id \in e.finished
    PROVE  LET f == Polled(e, id)
           IN /\ Good(n, f, L \cup {id}, D, B) /\ f.io = e.io /\ f.kernels = e.kernels
              /\ f.fetching = e.fetching /\ f.parked = e.parked
              /\ f.table = e.table /\ f.completions = e.completions /\ f.ready = e.ready
              /\ Code(n, id).op = "compute" /\ id \notin L
<1> DEFINE f == Polled(e, id)
           M == L \cup {id}
<1>1. /\ ListsOfIds(n, e) /\ Apart(e, L) /\ OpsOk(n, e) /\ IsEngine(e)
      /\ e.finished \subseteq DOMAIN e.running
  BY DEF Good, Orderly, InTable
<1>2. /\ IsEngine(f) /\ f.finished = e.finished \ {id} /\ f.ready = e.ready
      /\ f.table = e.table /\ f.completions = e.completions /\ f.tiles = e.tiles
      /\ f.slabs = e.slabs /\ f.bump = e.bump /\ f.allocs = e.allocs
      /\ f.frees = e.frees /\ f.running = Without(e.running, id) /\ f.waiting = e.waiting
      /\ f.io = e.io /\ f.parked = e.parked /\ f.kernels = e.kernels /\ f.fetching = e.fetching
  BY <1>1 DEF IsEngine, Fields, Polled
<1> HIDE DEF f
<1>3. DOMAIN f.running = DOMAIN e.running \ {id} /\ id \in DOMAIN e.running
  BY <1>1, <1>2 DEF Without
<1>4. Code(n, id).op = "compute" /\ id \notin L
  BY <1>1, <1>3 DEF OpsOk, Apart, Placed
<1>5. Placed(f) \cup {id} = Placed(e) /\ id \notin Placed(f)
  <2>1. /\ id \notin ToSet(e.ready) /\ id \notin ToSet(e.allocs) /\ id \notin ToSet(e.frees)
        /\ id \notin ToSet(e.waiting)
    BY <1>1, <1>3 DEF Apart
  <2> QED BY <1>2, <1>3, <2>1 DEF Placed
<1>6. ListsOfIds(n, f) /\ OpsOk(n, f) /\ SameStore(e, f)
  BY <1>1, <1>2, <1>3 DEF ListsOfIds, OpsOk, SameStore
<1>7. Apart(f, M)
  <2>1. M \cap Placed(f) = {}
    BY <1>1, <1>5 DEF Apart
  <2> QED BY <1>1, <1>2, <1>3, <2>1 DEF Apart
<1>8. Rearranges(n, e, L, f, M)
  BY <1>1, <1>2, <1>3, <1>4, <1>5, <1>6, <1>7 DEF Rearranges
<1>9. Good(n, f, M, D, B)
  BY <1>8, Rearranged
<1> QED BY <1>2, <1>4, <1>9 DEF f

(* OnIssue: a segment of ids that are new.                                 *)
Extended(n, e, ids) ==
    LET table == e.table \cup ToSet(ids)
        free  == {id \in ToSet(ids) : Code(n, id).deps \cap table = {}}
    IN [e EXCEPT !.table = table, !.ready = @ \o Only(ids, free)]

LEMMA ExtendedGood ==
    ASSUME NEW n, NEW D, NEW B, NEW e, NEW L, Good(n, e, L, D, B), NEW ids, ListOf(n, ids),
           ToSet(ids) \cap (e.table \cup Done(e, D)) = {},
           \A id \in ToSet(ids) : Code(n, id).deps \subseteq e.table \cup ToSet(ids) \cup Done(e, D)
    PROVE  LET f == Extended(n, e, ids)
           IN /\ Good(n, f, L, D, B) /\ f.io = e.io /\ f.kernels = e.kernels
              /\ f.fetching = e.fetching /\ f.parked = e.parked
              /\ f.table = e.table \cup ToSet(ids) /\ f.completions = e.completions
              /\ ToSet(f.ready) \subseteq ToSet(e.ready) \cup ToSet(ids)
<1> DEFINE new   == ToSet(ids)
           table == e.table \cup new
           free  == {id \in new : Code(n, id).deps \cap table = {}}
           out   == Only(ids, free)
           f     == Extended(n, e, ids)
<1>1. /\ ListsOfIds(n, e) /\ Apart(e, L) /\ OpsOk(n, e) /\ IsEngine(e)
      /\ InTable(n, e, L) /\ DoneOk(n, e, D) /\ DepsOk(n, e, L, D) /\ Stocked(n, e, L, D, B)
  BY DEF Good, Orderly
<1>2. ListOf(n, out) /\ ToSet(out) = free
  <2>1. ids \in Seq(AllIds(n)) /\ IsInjective(ids) /\ new \cap free = free
    BY DEF ListOf
  <2> HIDE DEF free
  <2>2. out \in Seq(AllIds(n)) /\ ToSet(out) = ToSet(ids) \cap free /\ IsInjective(out)
    BY <2>1, OnlyIs
  <2> QED BY <2>1, <2>2 DEF ListOf
<1>3. new \subseteq AllIds(n)
  BY ElementOfSeq, LenProperties DEF ListOf, ToSet
<1>4. f = [e EXCEPT !.table = table, !.ready = @ \o out]
  BY DEF Extended
<1> HIDE DEF f, out, table
<1>5. /\ IsEngine(f) /\ f.table = table /\ f.ready = e.ready \o out
      /\ f.completions = e.completions /\ f.tiles = e.tiles /\ f.finished = e.finished
      /\ f.slabs = e.slabs /\ f.bump = e.bump /\ f.allocs = e.allocs
      /\ f.frees = e.frees /\ f.running = e.running /\ f.waiting = e.waiting
      /\ f.io = e.io /\ f.parked = e.parked /\ f.kernels = e.kernels /\ f.fetching = e.fetching
  BY <1>1, <1>4 DEF IsEngine, Fields
<1>6. ToSet(out) \subseteq new /\ ToSet(out) \cap (Placed(e) \cup L) = {}
      /\ \A id \in ToSet(out) : Code(n, id).deps \cap table = {}
  BY <1>1, <1>2 DEF InTable
<1>7. ListOf(n, f.ready) /\ ToSet(f.ready) = ToSet(e.ready) \cup ToSet(out)
  <2>1. e.ready \in Seq(AllIds(n)) /\ IsInjective(e.ready) /\ ToSet(e.ready) \cap ToSet(out) = {}
    BY <1>1, <1>6 DEF ListsOfIds, ListOf, Placed
  <2>2. out \in Seq(AllIds(n)) /\ IsInjective(out)
    BY <1>2 DEF ListOf
  <2> QED BY <1>5, <2>1, <2>2, ConcatIs DEF ListOf
<1>8. Placed(f) = Placed(e) \cup ToSet(out)
  BY <1>5, <1>7 DEF Placed
<1>9. ListsOfIds(n, f) /\ OpsOk(n, f)
  BY <1>1, <1>5, <1>7 DEF ListsOfIds, OpsOk
<1>10. Apart(f, L)
  <2>1. L \cap Placed(f) = {}
    BY <1>1, <1>6, <1>8 DEF Apart
  <2>2. ToSet(out) \cap (DOMAIN e.running \cup ToSet(e.waiting) \cup ToSet(e.frees)
                         \cup ToSet(e.allocs)) = {}
    BY <1>6 DEF Placed
  <2> QED BY <1>1, <1>5, <1>7, <2>1, <2>2 DEF Apart
<1>11. InTable(n, f, L)
  BY <1>1, <1>3, <1>5, <1>6, <1>8 DEF InTable, table
<1>12. Done(f, D) = Done(e, D)
  BY <1>5 DEF Done
<1>13. DoneOk(n, f, D)
  BY <1>1, <1>5, <1>12 DEF DoneOk, table
<1>14. DepsOk(n, f, L, D)
  <2>1. \A id \in f.table : Code(n, id).deps \subseteq f.table \cup Done(f, D)
    BY <1>1, <1>5, <1>12 DEF DepsOk, table
  <2>2. ASSUME NEW id \in Placed(e) \cup L PROVE Code(n, id).deps \cap f.table = {}
    <3>1. id \in e.table
      BY <1>1 DEF InTable
    <3>2. Code(n, id).deps \subseteq Done(e, D)
      BY <1>1, <3>1 DEF DepsOk
    <3>3. Done(e, D) \cap f.table = {}
      BY <1>1, <1>5 DEF DoneOk, table
    <3> QED BY <3>2, <3>3
  <2>3. \A id \in ToSet(out) : Code(n, id).deps \cap f.table = {}
    BY <1>5, <1>6
  <2> QED BY <1>8, <2>1, <2>2, <2>3 DEF DepsOk
<1>15. Orderly(n, f, L, D)
  BY <1>5, <1>9, <1>10, <1>11, <1>13, <1>14 DEF Orderly
<1>16. ArenaOk(f)
  BY <1>1, <1>5, SameStock DEF Stocked
<1>17. Stocked(n, f, L, D, B)
  BY <1>1, <1>5, <1>12, <1>16 DEF Stocked, TilesKnown, FreesKnown, ServesOk
<1> QED BY <1>5, <1>6, <1>7, <1>15, <1>17 DEF Good, f, table

(* EndRound: completions are reported, and ALLOCs may be given up.         *)
Reported(e, s) == [e EXCEPT !.completions = {}, !.allocs = s]

AllReported(n, e, L, D, B, f) ==
    /\ Good(n, f, L, D \cup e.completions, B) /\ f.io = e.io /\ f.kernels = e.kernels
    /\ f.fetching = e.fetching /\ f.parked = e.parked
    /\ f.table = e.table /\ f.completions = {} /\ f.ready = e.ready

LEMMA ReportedGood ==
    ASSUME NEW n, NEW D, NEW B, NEW e, NEW L, Good(n, e, L, D, B), NEW s \in {e.allocs, <<>>}
    PROVE  AllReported(n, e, L, D, B, Reported(e, s))
<1> DEFINE f == Reported(e, s)
           E == D \cup e.completions
<1>1. /\ ListsOfIds(n, e) /\ Apart(e, L) /\ OpsOk(n, e) /\ IsEngine(e)
      /\ InTable(n, e, L) /\ DoneOk(n, e, D) /\ DepsOk(n, e, L, D) /\ Stocked(n, e, L, D, B)
  BY DEF Good, Orderly
<1>2. /\ IsEngine(f) /\ f.table = e.table /\ f.ready = e.ready /\ f.allocs = s
      /\ f.completions = {} /\ f.tiles = e.tiles /\ f.finished = e.finished
      /\ f.slabs = e.slabs /\ f.bump = e.bump
      /\ f.frees = e.frees /\ f.running = e.running /\ f.waiting = e.waiting
      /\ f.io = e.io /\ f.parked = e.parked /\ f.kernels = e.kernels /\ f.fetching = e.fetching
  BY <1>1 DEF IsEngine, Fields, Reported
<1> HIDE DEF f
<1>3. ListOf(n, s) /\ ToSet(s) \subseteq ToSet(e.allocs)
  BY <1>1, EmptyList DEF ListsOfIds
<1>4. Placed(f) \subseteq Placed(e) /\ Done(f, E) = Done(e, D)
  BY <1>2, <1>3 DEF Placed, Done
<1>5. ListsOfIds(n, f) /\ OpsOk(n, f) /\ Apart(f, L)
  <2>1. L \cap Placed(f) = {}
    BY <1>1, <1>4 DEF Apart
  <2> QED BY <1>1, <1>2, <1>3, <2>1 DEF ListsOfIds, OpsOk, Apart
<1>6. InTable(n, f, L) /\ DoneOk(n, f, E) /\ DepsOk(n, f, L, E)
  BY <1>1, <1>2, <1>4 DEF InTable, DoneOk, DepsOk
<1>7. ArenaOk(f)
  BY <1>1, <1>2, SameStock DEF Stocked
<1>8. Stocked(n, f, L, E, B)
  BY <1>1, <1>2, <1>4, <1>7 DEF Stocked, TilesKnown, FreesKnown, ServesOk
<1>9. AllReported(n, e, L, D, B, f)
  BY <1>2, <1>5, <1>6, <1>8 DEF Good, Orderly, AllReported
<1> QED BY <1>9 DEF f

-----------------------------------------------------------------------------
(* Queues *)

Of(q, T) == {i \in DOMAIN q : q[i].type \in T}

IoTypes == {"IoDone", "StoreDone", "IoFailed"}

(* The ids that messages tell of, and the ids that are not the engine's to *)
(* move: a task of I, or the message of its end, has them.                 *)
Told(q) == {q[i].id : i \in Of(q, IoTypes)}
InHand(q, I) == I \cup Told(q)

(* The segments shipped, k of them, and not handled yet.                   *)
Unhandled(q) == {q[i].seg : i \in Of(q, {"Issue"})}
Handled(q, k) == 1..k \ Unhandled(q)

IsQueue(q) == q \in Seq(ToSet(q))

MailOk(q, I) ==
    /\ \A i, j \in Of(q, IoTypes) : i # j => q[i].id # q[j].id
    /\ Told(q) \cap I = {}

IssuesOk(q, k) ==
    /\ \A i \in Of(q, {"Issue"}) : q[i].seg \in 1..k
    /\ \A i, j \in Of(q, {"Issue"}) : i < j => q[i].seg < q[j].seg
    /\ \A s \in Handled(q, k), r \in 1..k : r < s => r \in Handled(q, k)

(* A message more, and a message less.                                     *)
LEMMA Posted ==
    ASSUME NEW q, IsQueue(q), NEW msg
    PROVE  LET r == Append(q, msg)
           IN /\ IsQueue(r) /\ Len(q) \in Nat /\ DOMAIN q = 1..Len(q)
              /\ DOMAIN r = 1..(Len(q) + 1) /\ \A i \in 1..Len(q) : r[i] = q[i]
              /\ r[Len(q) + 1] = msg
<1> DEFINE S == ToSet(q) \cup {msg}
           r == Append(q, msg)
<1>1. q \in Seq(S)
  <2>1. q \in Seq(ToSet(q))
    BY DEF IsQueue
  <2> HIDE DEF S
  <2>2. ToSet(q) \subseteq S
    BY DEF S
  <2>3. Len(q) \in Nat /\ DOMAIN q = 1..Len(q) /\ \A i \in 1..Len(q) : q[i] \in ToSet(q)
    BY <2>1, LenProperties, ElementOfSeq
  <2> QED BY <2>1, <2>2, <2>3
<1>2. r \in Seq(S) /\ ToSet(r) = S
  <2> HIDE DEF S
  <2>1. msg \in S /\ S = ToSet(q) \cup {msg}
    BY DEF S
  <2> QED BY <1>1, <2>1, AppendIs
<1> HIDE DEF S
<1>3. /\ Len(q) \in Nat /\ DOMAIN q = 1..Len(q) /\ DOMAIN r = 1..(Len(q) + 1)
      /\ \A i \in 1..Len(q) : r[i] = q[i]
      /\ r[Len(q) + 1] = msg
  <2>1. msg \in S
    BY DEF S
  <2> QED BY <1>1, <2>1, AppendProperties, LenProperties
<1> QED BY <1>2, <1>3 DEF IsQueue

LEMMA Shifted ==
    ASSUME NEW q, IsQueue(q), q # <<>>
    PROVE  LET r == Tail(q)
           IN /\ IsQueue(r) /\ Len(q) \in Nat \ {0} /\ DOMAIN q = 1..Len(q)
              /\ DOMAIN r = 1..(Len(q) - 1) /\ \A i \in 1..(Len(q) - 1) : r[i] = q[i + 1]
              /\ Head(q) = q[1]
<1> DEFINE S == ToSet(q)
           r == Tail(q)
<1>1. q \in Seq(S)
  BY DEF IsQueue
<1> HIDE DEF S
<1>2. /\ Len(q) \in Nat \ {0} /\ DOMAIN q = 1..Len(q) /\ Head(q) = q[1]
      /\ r \in Seq(S) /\ DOMAIN r = 1..(Len(q) - 1)
      /\ \A i \in 1..(Len(q) - 1) : r[i] = q[i + 1]
  BY <1>1, HeadTailProperties, LenProperties, EmptySeq
<1>3. IsQueue(r)
  <2>1. \A i \in 1..(Len(q) - 1) : r[i] \in ToSet(r)
    BY <1>2 DEF ToSet
  <2> HIDE DEF r
  <2>2. r = [i \in 1..(Len(q) - 1) |-> r[i]] /\ Len(q) - 1 \in Nat
    BY <1>2
  <2>3. r \in Seq(ToSet(r))
    BY <2>1, <2>2
  <2> QED BY <2>3 DEF IsQueue
<1> QED BY <1>2, <1>3

LEMMA PostedOf ==
    ASSUME NEW q, IsQueue(q), NEW msg, NEW T
    PROVE  LET r == Append(q, msg)
           IN Of(r, T) = IF msg.type \in T THEN Of(q, T) \cup {Len(q) + 1} ELSE Of(q, T)
<1> DEFINE r == Append(q, msg)
<1>1. /\ Len(q) \in Nat /\ DOMAIN q = 1..Len(q)
      /\ DOMAIN r = 1..(Len(q) + 1) /\ \A i \in 1..Len(q) : r[i] = q[i]
      /\ r[Len(q) + 1] = msg
  BY Posted
<1> HIDE DEF r
<1>2. ASSUME NEW i
      PROVE  i \in Of(r, T) <=> i \in Of(q, T) \/ (i = Len(q) + 1 /\ msg.type \in T)
  BY <1>1 DEF Of
<1> QED BY <1>2 DEF r

LEMMA ShiftedOf ==
    ASSUME NEW q, IsQueue(q), q # <<>>, NEW T
    PROVE  /\ \A i \in Of(Tail(q), T) : i + 1 \in Of(q, T) /\ Tail(q)[i] = q[i + 1] /\ i \in Nat
           /\ \A i \in Of(q, T) : i = 1 \/ (i - 1 \in Of(Tail(q), T) /\ Tail(q)[i - 1] = q[i])
           /\ 1 \in Of(q, T) <=> Head(q).type \in T
           /\ Of(q, T) \subseteq Nat
<1> DEFINE r == Tail(q)
<1>1. /\ Len(q) \in Nat \ {0} /\ DOMAIN q = 1..Len(q)
      /\ DOMAIN r = 1..(Len(q) - 1) /\ \A i \in 1..(Len(q) - 1) : r[i] = q[i + 1]
      /\ Head(q) = q[1]
  BY Shifted
<1> HIDE DEF r
<1>2. ASSUME NEW i \in Of(r, T)
      PROVE  i + 1 \in Of(q, T) /\ r[i] = q[i + 1] /\ i \in Nat
  BY <1>1 DEF Of
<1>3. ASSUME NEW i \in Of(q, T)
      PROVE  i = 1 \/ (i - 1 \in Of(r, T) /\ r[i - 1] = q[i])
  <2>1. i \in 1..Len(q) /\ q[i].type \in T
    BY <1>1 DEF Of
  <2>2. CASE i # 1
    <3>1. i - 1 \in 1..(Len(q) - 1) /\ (i - 1) + 1 = i
      BY <1>1, <2>1, <2>2
    <3>2. r[i - 1] = q[i]
      BY <1>1, <3>1
    <3> QED BY <1>1, <2>1, <3>1, <3>2 DEF Of
  <2> QED BY <2>2
<1>4. 1 \in Of(q, T) <=> Head(q).type \in T
  BY <1>1 DEF Of
<1>5. Of(q, T) \subseteq Nat
  BY <1>1 DEF Of
<1> QED BY <1>2, <1>3, <1>4, <1>5 DEF r

(* The end of a task is told by a message of its own.                      *)
LEMMA PostIo ==
    ASSUME NEW q, IsQueue(q), NEW I, MailOk(q, I), NEW msg, msg.type \in IoTypes, msg.id \in I
    PROVE  LET r == Append(q, msg)
           IN MailOk(r, I \ {msg.id}) /\ InHand(r, I \ {msg.id}) = InHand(q, I)
<1> DEFINE r == Append(q, msg)
           id == msg.id
           k == Len(q) + 1
<1>1. /\ Len(q) \in Nat /\ DOMAIN q = 1..Len(q)
      /\ \A i \in 1..Len(q) : r[i] = q[i]
      /\ r[k] = msg
  BY Posted
<1>2. Of(r, IoTypes) = Of(q, IoTypes) \cup {k}
  BY PostedOf
<1>3. Of(q, IoTypes) \subseteq 1..Len(q)
  BY <1>1 DEF Of
<1> HIDE DEF r
<1>4. Told(r) = Told(q) \cup {id}
  BY <1>1, <1>2, <1>3 DEF Told
<1>5. id \notin Told(q)
  BY DEF MailOk
<1>6. ASSUME NEW i \in Of(r, IoTypes), NEW j \in Of(r, IoTypes), i # j PROVE r[i].id # r[j].id
  <2>1. \A l \in Of(q, IoTypes) : r[l].id = q[l].id /\ q[l].id # id
    BY <1>1, <1>3, <1>5 DEF Told
  <2>2. r[k].id = id
    BY <1>1
  <2>3. CASE i \in Of(q, IoTypes) /\ j \in Of(q, IoTypes)
    BY <1>6, <2>1, <2>3 DEF MailOk
  <2>4. CASE i = k
    BY <1>2, <1>6, <2>1, <2>2, <2>4
  <2>5. CASE j = k
    BY <1>2, <1>6, <2>1, <2>2, <2>5
  <2> QED BY <1>2, <2>3, <2>4, <2>5
<1>7. Told(r) \cap (I \ {id}) = {}
  BY <1>4 DEF MailOk
<1>8. MailOk(r, I \ {id})
  BY <1>6, <1>7 DEF MailOk
<1>9. InHand(r, I \ {id}) = InHand(q, I)
  BY <1>4 DEF InHand
<1> QED BY <1>8, <1>9 DEF r

LEMMA PostOther ==
    ASSUME NEW q, IsQueue(q), NEW I, MailOk(q, I), NEW msg, msg.type \notin IoTypes
    PROVE  LET r == Append(q, msg)
           IN MailOk(r, I) /\ InHand(r, I) = InHand(q, I)
<1> DEFINE r == Append(q, msg)
<1>1. /\ Len(q) \in Nat /\ DOMAIN q = 1..Len(q)
      /\ \A i \in 1..Len(q) : r[i] = q[i]
  BY Posted
<1>2. Of(r, IoTypes) = Of(q, IoTypes)
  BY PostedOf
<1>3. Of(q, IoTypes) \subseteq 1..Len(q)
  BY <1>1 DEF Of
<1> HIDE DEF r
<1>4. \A i \in Of(r, IoTypes) : r[i].id = q[i].id
  BY <1>1, <1>2, <1>3
<1>5. Told(r) = Told(q)
  BY <1>2, <1>4 DEF Told
<1>6. MailOk(r, I)
  BY <1>2, <1>4, <1>5 DEF MailOk
<1> QED BY <1>5, <1>6 DEF InHand, r

LEMMA ShiftIo ==
    ASSUME NEW q, IsQueue(q), q # <<>>, NEW I, MailOk(q, I), Head(q).type \in IoTypes
    PROVE  /\ MailOk(Tail(q), I) /\ InHand(Tail(q), I) = InHand(q, I) \ {Head(q).id}
           /\ Head(q).id \in Told(q)
<1> DEFINE r  == Tail(q)
           id == Head(q).id
<1>1. /\ \A i \in Of(r, IoTypes) : i + 1 \in Of(q, IoTypes) /\ r[i] = q[i + 1] /\ i \in Nat
      /\ \A i \in Of(q, IoTypes) : i = 1 \/ (i - 1 \in Of(r, IoTypes) /\ r[i - 1] = q[i])
      /\ 1 \in Of(q, IoTypes)
  BY ShiftedOf
<1>2. Head(q) = q[1]
  BY Shifted
<1> HIDE DEF r
<1>3. id \in Told(q) /\ id = q[1].id
  BY <1>1, <1>2 DEF Told
<1> HIDE DEF id
<1>4. ASSUME NEW i \in Of(r, IoTypes) PROVE q[i + 1].id # id
  <2>1. i + 1 \in Of(q, IoTypes) /\ i \in 1..(Len(q) - 1)
    <3>1. DOMAIN r = 1..(Len(q) - 1)
      BY Shifted DEF r
    <3> QED BY <1>1, <3>1 DEF Of
  <2>2. i + 1 # 1
    BY <2>1
  <2> QED BY <1>1, <1>3, <2>1, <2>2 DEF MailOk
<1>5. Told(r) = Told(q) \ {id}
  <2>1. Told(r) \subseteq Told(q) \ {id}
    BY <1>1, <1>4 DEF Told
  <2>2. ASSUME NEW x \in Told(q), x # id PROVE x \in Told(r)
    <3>1. PICK i \in Of(q, IoTypes) : q[i].id = x
      BY DEF Told
    <3>2. i - 1 \in Of(r, IoTypes) /\ r[i - 1].id = x
      BY <1>1, <1>3, <2>2, <3>1
    <3> QED BY <3>2 DEF Told
  <2> QED BY <2>1, <2>2
<1>6. MailOk(r, I)
  <2>1. ASSUME NEW i \in Of(r, IoTypes), NEW j \in Of(r, IoTypes), i # j PROVE r[i].id # r[j].id
    <3>1. i + 1 # j + 1
      BY <1>1, <2>1
    <3> QED BY <1>1, <3>1 DEF MailOk
  <2> QED BY <1>5, <2>1 DEF MailOk
<1>7. id \notin I
  BY <1>3 DEF MailOk
<1> QED BY <1>3, <1>5, <1>6, <1>7 DEF InHand, r, id

LEMMA ShiftOther ==
    ASSUME NEW q, IsQueue(q), q # <<>>, NEW I, MailOk(q, I), Head(q).type \notin IoTypes
    PROVE  MailOk(Tail(q), I) /\ InHand(Tail(q), I) = InHand(q, I)
<1> DEFINE r  == Tail(q)
<1>1. /\ \A i \in Of(r, IoTypes) : i + 1 \in Of(q, IoTypes) /\ r[i] = q[i + 1] /\ i \in Nat
      /\ \A i \in Of(q, IoTypes) : i = 1 \/ (i - 1 \in Of(r, IoTypes) /\ r[i - 1] = q[i])
      /\ 1 \notin Of(q, IoTypes)
  BY ShiftedOf
<1> HIDE DEF r
<1>2. Told(r) = Told(q)
  <2>1. Told(r) \subseteq Told(q)
    BY <1>1 DEF Told
  <2>2. Told(q) \subseteq Told(r)
    BY <1>1 DEF Told
  <2> QED BY <2>1, <2>2
<1>3. MailOk(r, I)
  <2>1. ASSUME NEW i \in Of(r, IoTypes), NEW j \in Of(r, IoTypes), i # j PROVE r[i].id # r[j].id
    <3>1. i + 1 # j + 1
      BY <1>1, <2>1
    <3> QED BY <1>1, <3>1 DEF MailOk
  <2> QED BY <1>2, <2>1 DEF MailOk
<1> QED BY <1>2, <1>3 DEF InHand, r

(* Segments are handled in the order in which they are shipped.            *)
LEMMA PostIssue ==
    ASSUME NEW q, IsQueue(q), NEW k \in Nat, IssuesOk(q, k),
           NEW msg, msg.type = "Issue", msg.seg = k + 1
    PROVE  LET r == Append(q, msg)
           IN IssuesOk(r, k + 1) /\ Handled(r, k + 1) = Handled(q, k)
<1> DEFINE r == Append(q, msg)
           A == Of(q, {"Issue"})
           l == Len(q) + 1
<1>1. /\ Len(q) \in Nat /\ DOMAIN q = 1..Len(q)
      /\ \A i \in 1..Len(q) : r[i] = q[i]
      /\ r[l] = msg
  BY Posted
<1>2. Of(r, {"Issue"}) = A \cup {l}
  BY PostedOf
<1>3. A \subseteq 1..Len(q) /\ \A i \in A : q[i].seg \in 1..k /\ r[i].seg = q[i].seg
  BY <1>1 DEF Of, IssuesOk
<1> HIDE DEF r
<1>4. Unhandled(r) = Unhandled(q) \cup {k + 1}
  <2> HIDE DEF A
  <2>1. Unhandled(r) = {r[i].seg : i \in A \cup {l}}
    BY <1>2 DEF Unhandled
  <2>2. Unhandled(q) = {q[i].seg : i \in A}
    BY DEF Unhandled, A
  <2> QED BY <1>1, <1>3, <2>1, <2>2
<1>5. k + 1 \notin Unhandled(q)
  BY <1>3 DEF Unhandled
<1>6. Handled(r, k + 1) = Handled(q, k)
  <2>1. 1..(k + 1) = 1..k \cup {k + 1}
    OBVIOUS
  <2> QED BY <1>4, <2>1 DEF Handled
<1>7. \A i \in A \cup {l} : r[i].seg \in 1..(k + 1)
  BY <1>1, <1>3
<1>8. ASSUME NEW i \in A \cup {l}, NEW j \in A \cup {l}, i < j PROVE r[i].seg < r[j].seg
  <2>1. CASE j = l
    <3>1. i \in A
      BY <1>1, <1>3, <1>8, <2>1
    <3>2. r[i].seg \in 1..k /\ r[j].seg = k + 1
      BY <1>1, <1>3, <2>1, <3>1
    <3> QED BY <3>2
  <2>2. CASE j # l
    <3>1. j \in A /\ i \in A
      BY <1>1, <1>3, <1>8, <2>2
    <3> QED BY <1>3, <1>8, <3>1 DEF IssuesOk
  <2> QED BY <2>1, <2>2
<1>9. ASSUME NEW s \in Handled(r, k + 1), NEW t \in 1..(k + 1), t < s PROVE t \in Handled(r, k + 1)
  <2>1. s \in Handled(q, k) /\ s \in 1..k
    BY <1>6 DEF Handled
  <2>2. t \in 1..k
    BY <1>9, <2>1
  <2> QED BY <1>6, <1>9, <2>1, <2>2 DEF IssuesOk
<1>10. IssuesOk(r, k + 1)
  BY <1>2, <1>7, <1>8, <1>9 DEF IssuesOk
<1> QED BY <1>6, <1>10 DEF r

LEMMA PostNoIssue ==
    ASSUME NEW q, IsQueue(q), NEW k, IssuesOk(q, k), NEW msg, msg.type # "Issue"
    PROVE  LET r == Append(q, msg)
           IN IssuesOk(r, k) /\ Handled(r, k) = Handled(q, k)
<1> DEFINE r == Append(q, msg)
<1>1. /\ Len(q) \in Nat /\ DOMAIN q = 1..Len(q)
      /\ \A i \in 1..Len(q) : r[i] = q[i]
  BY Posted
<1>2. Of(r, {"Issue"}) = Of(q, {"Issue"})
  BY PostedOf
<1>3. \A i \in Of(q, {"Issue"}) : r[i].seg = q[i].seg
  BY <1>1 DEF Of
<1> HIDE DEF r
<1>4. Unhandled(r) = Unhandled(q)
  BY <1>2, <1>3 DEF Unhandled
<1>5. Handled(r, k) = Handled(q, k)
  BY <1>4 DEF Handled
<1>6. IssuesOk(r, k)
  BY <1>2, <1>3, <1>5 DEF IssuesOk
<1> QED BY <1>5, <1>6 DEF r

LEMMA ShiftIssue ==
    ASSUME NEW q, IsQueue(q), q # <<>>, NEW k \in Nat, IssuesOk(q, k), Head(q).type = "Issue"
    PROVE  LET seg == Head(q).seg
           IN /\ IssuesOk(Tail(q), k) /\ Handled(Tail(q), k) = Handled(q, k) \cup {seg}
              /\ seg \in 1..k /\ seg \notin Handled(q, k)
              /\ \A s \in 1..k : s < seg => s \in Handled(q, k)
              /\ \A s \in Handled(q, k) : s < seg
<1> DEFINE r   == Tail(q)
           seg == Head(q).seg
           A   == Of(q, {"Issue"})
           C   == Of(r, {"Issue"})
<1>1. /\ \A i \in C : i + 1 \in A /\ r[i] = q[i + 1] /\ i \in Nat
      /\ \A i \in A : i = 1 \/ (i - 1 \in C /\ r[i - 1] = q[i])
      /\ 1 \in A /\ A \subseteq Nat
  BY ShiftedOf
<1>2. Head(q) = q[1] /\ DOMAIN q = 1..Len(q) /\ Len(q) \in Nat
  BY Shifted
<1>3. /\ \A i \in A : q[i].seg \in 1..k
      /\ \A i, j \in A : i < j => q[i].seg < q[j].seg
      /\ \A s \in Handled(q, k), t \in 1..k : t < s => t \in Handled(q, k)
  BY DEF IssuesOk
<1>4. Unhandled(q) = {q[i].seg : i \in A} /\ Unhandled(r) = {r[i].seg : i \in C}
  BY DEF Unhandled
<1>5. A \subseteq 1..Len(q) /\ C \subseteq 1..(Len(q) - 1)
  <2>1. DOMAIN r = 1..(Len(q) - 1)
    BY Shifted
  <2> QED BY <1>2, <2>1 DEF Of
<1> HIDE DEF r, A, C
<1>6. seg = q[1].seg /\ seg \in 1..k /\ seg \in Unhandled(q)
  BY <1>1, <1>2, <1>3, <1>4
<1> HIDE DEF seg
<1>7. \A i \in C : r[i].seg > seg /\ r[i].seg \in 1..k
  <2>1. ASSUME NEW i \in C PROVE r[i].seg > seg /\ r[i].seg \in 1..k
    <3>1. i + 1 \in A /\ r[i] = q[i + 1] /\ i \in Nat /\ i + 1 # 1
      BY <1>1, <1>5
    <3>2. 1 < i + 1
      BY <1>5, <3>1
    <3>3. q[1].seg < q[i + 1].seg /\ q[i + 1].seg \in 1..k
      BY <1>1, <1>3, <3>1, <3>2
    <3> QED BY <1>6, <3>1, <3>3
  <2> QED BY <2>1
<1>8. Unhandled(q) = Unhandled(r) \cup {seg}
  <2>1. Unhandled(r) \subseteq Unhandled(q)
    BY <1>1, <1>4
  <2>2. ASSUME NEW x \in Unhandled(q), x # seg PROVE x \in Unhandled(r)
    <3>1. PICK i \in A : q[i].seg = x
      BY <1>4
    <3>2. i - 1 \in C /\ r[i - 1].seg = x
      BY <1>1, <1>6, <2>2, <3>1
    <3> QED BY <1>4, <3>2
  <2> QED BY <1>6, <2>1, <2>2
<1>9. seg \notin Unhandled(r)
  BY <1>4, <1>6, <1>7
<1>10. Handled(r, k) = Handled(q, k) \cup {seg} /\ seg \notin Handled(q, k)
  BY <1>6, <1>8, <1>9 DEF Handled
<1>11. \A s \in 1..k : s < seg => s \in Handled(q, k)
  <2>1. ASSUME NEW s \in 1..k, s < seg PROVE s \notin Unhandled(q)
    <3>1. \A x \in Unhandled(r) : x > seg /\ x \in 1..k
      BY <1>4, <1>7
    <3>2. s \notin Unhandled(r) /\ s # seg
      BY <1>6, <2>1, <3>1
    <3> QED BY <1>8, <3>2
  <2> QED BY <2>1 DEF Handled
<1>12. \A s \in Handled(q, k) : s < seg
  <2>1. ASSUME NEW s \in Handled(q, k), seg < s PROVE FALSE
    BY <1>3, <1>6, <1>10, <2>1
  <2>2. \A s \in Handled(q, k) : s \in Nat /\ s # seg
    BY <1>10 DEF Handled
  <2> QED BY <1>6, <2>1, <2>2
<1>13. IssuesOk(r, k)
  <2>1. ASSUME NEW i \in C, NEW j \in C, i < j PROVE r[i].seg < r[j].seg
    <3>1. i + 1 < j + 1
      BY <1>1, <2>1
    <3> QED BY <1>1, <1>3, <3>1
  <2>2. ASSUME NEW s \in Handled(r, k), NEW t \in 1..k, t < s PROVE t \in Handled(r, k)
    BY <1>3, <1>10, <1>11, <2>2
  <2> QED BY <1>7, <2>1, <2>2 DEF IssuesOk, C
<1> QED BY <1>6, <1>10, <1>11, <1>12, <1>13 DEF r, seg

LEMMA ShiftNoIssue ==
    ASSUME NEW q, IsQueue(q), q # <<>>, NEW k, IssuesOk(q, k), Head(q).type # "Issue"
    PROVE  IssuesOk(Tail(q), k) /\ Handled(Tail(q), k) = Handled(q, k)
<1> DEFINE r == Tail(q)
           A == Of(q, {"Issue"})
           C == Of(r, {"Issue"})
<1>1. /\ \A i \in C : i + 1 \in A /\ r[i] = q[i + 1] /\ i \in Nat
      /\ \A i \in A : i = 1 \/ (i - 1 \in C /\ r[i - 1] = q[i])
      /\ 1 \notin A
  <2>1. Head(q).type \notin {"Issue"}
    OBVIOUS
  <2> QED BY <2>1, ShiftedOf
<1>2. /\ \A i \in A : q[i].seg \in 1..k
      /\ \A i, j \in A : i < j => q[i].seg < q[j].seg
      /\ \A s \in Handled(q, k), t \in 1..k : t < s => t \in Handled(q, k)
  BY DEF IssuesOk
<1>3. Unhandled(q) = {q[i].seg : i \in A} /\ Unhandled(r) = {r[i].seg : i \in C}
  BY DEF Unhandled
<1> HIDE DEF r, A, C
<1>4. Unhandled(r) = Unhandled(q)
  <2>1. Unhandled(r) \subseteq Unhandled(q)
    BY <1>1, <1>3
  <2>2. Unhandled(q) \subseteq Unhandled(r)
    BY <1>1, <1>3
  <2> QED BY <2>1, <2>2
<1>5. Handled(r, k) = Handled(q, k)
  BY <1>4 DEF Handled
<1>6. IssuesOk(r, k)
  <2>1. ASSUME NEW i \in C, NEW j \in C, i < j PROVE r[i].seg < r[j].seg
    <3>1. i + 1 < j + 1
      BY <1>1, <2>1
    <3> QED BY <1>1, <1>2, <3>1
  <2>2. \A i \in C : r[i].seg \in 1..k
    BY <1>1, <1>2
  <2> QED BY <1>2, <1>5, <2>1, <2>2 DEF IssuesOk, C
<1> QED BY <1>5, <1>6 DEF r

-----------------------------------------------------------------------------
(* Nodes *)

SegIds(n, s) == Ids(Segs(n)[s].instrs)

(* What there is beside the engine's order and store: its mail, its        *)
(* kernels, and the segments it knows of.                                  *)
PostOk(n, e, q, I) ==
    /\ IsQueue(q) /\ MailOk(q, I) /\ \A i \in DOMAIN q : q[i].leaf \in Leaves
    /\ IsFiniteSet(InHand(q, I)) /\ e.io = Cardinality(InHand(q, I))
    /\ \A id \in InHand(q, I) : Code(n, id).op \in {"load", "fetch", "store"}

KernelsOk(e, K, st) ==
    /\ IsFiniteSet(e.parked) /\ e.kernels \subseteq Leaves /\ e.fetching \subseteq Leaves
    /\ K \subseteq Leaves /\ st \in Seq(Leaves)

ShippedOk(n, e, q, k, D) ==
    /\ k \in 0..Len(Segs(n)) /\ IssuesOk(q, k)
    /\ e.table \cup Done(e, D) = UNION {ToSet(SegIds(n, s)) : s \in Handled(q, k)}

Node(n, e, q, I, K, st, k, D, F, B) ==
    /\ Context(n, D, B) /\ Good(n, e, InHand(q, I), D, B)
    /\ PostOk(n, e, q, I) /\ KernelsOk(e, K, st) /\ ShippedOk(n, e, q, k, D)
    /\ F \subseteq AllIds(n)

(* A FETCH that was issued is not issued again.                            *)
Issued(n, e, D, id) ==
    /\ id \in e.table \cup Done(e, D) /\ id \notin ToSet(e.ready)
    /\ Code(n, id).deps \cap e.table = {}

Progress(n, e, D, f, E) ==
    \A id \in AllIds(n) :
        Code(n, id).op = "fetch" /\ Issued(n, e, D, id) => Issued(n, f, E, id)

(* The ids that the engine was sent are the same.                          *)
SameIds(e, D, f) == f.table \cup Done(f, D) = e.table \cup Done(e, D)

LEMMA SoItMoves ==
    ASSUME NEW n, NEW e, NEW f, NEW D, Moves(n, e, f)
    PROVE  Progress(n, e, D, f, D) /\ SameIds(e, D, f)
<1>1. f.table \cup Done(f, D) = e.table \cup Done(e, D)
  BY DEF Moves, Done
<1>2. f.table \subseteq e.table
      /\ \A id \in ToSet(f.ready) : id \in ToSet(e.ready) \/ Code(n, id).deps \cap e.table # {}
  BY DEF Moves
<1>3. Progress(n, e, D, f, D)
  BY <1>1, <1>2 DEF Progress, Issued
<1> QED BY <1>1, <1>3 DEF SameIds

LEMMA SoItStays ==
    ASSUME NEW n, NEW e, NEW f, NEW D, NEW E, f.table = e.table, Done(f, E) = Done(e, D),
           \A id \in ToSet(f.ready) : id \in ToSet(e.ready) \/ Code(n, id).op # "fetch"
    PROVE  Progress(n, e, D, f, E) /\ f.table \cup Done(f, E) = e.table \cup Done(e, D)
BY DEF Progress, Issued

LEMMA ProgressOn ==
    ASSUME NEW n, NEW e, NEW f, NEW g, NEW D, NEW E,
           Progress(n, e, D, f, D), Progress(n, f, D, g, E)
    PROVE  Progress(n, e, D, g, E)
BY DEF Progress

(* The mail is what it was, and the ids it has in hand.                    *)
LEMMA SamePost ==
    ASSUME NEW n, NEW e, NEW q, NEW I, PostOk(n, e, q, I), NEW f, f.io = e.io
    PROVE  PostOk(n, f, q, I)
BY DEF PostOk

LEMMA SameShipped ==
    ASSUME NEW n, NEW e, NEW q, NEW k, NEW D, ShippedOk(n, e, q, k, D), NEW f, NEW E,
           f.table \cup Done(f, E) = e.table \cup Done(e, D)
    PROVE  ShippedOk(n, f, q, k, E)
BY DEF ShippedOk

LEMMA SameKernels ==
    ASSUME NEW e, NEW K, NEW st, KernelsOk(e, K, st), NEW f, f.parked = e.parked,
           f.kernels \subseteq Leaves, f.fetching \subseteq Leaves
    PROVE  KernelsOk(f, K, st)
BY DEF KernelsOk
-----------------------------------------------------------------------------
(* Steps: B is a bound on the serves of every node before it, C after it *)

OnPods(f) == IsMap(f) /\ DOMAIN f = Pods

Shape ==
    /\ OnPods(queue) /\ OnPods(eng) /\ OnPods(mem) /\ OnPods(task) /\ OnPods(kreq)
    /\ OnPods(stream) /\ OnPods(shipped) /\ OnPods(reported) /\ OnPods(failed)

Is(m, B) ==
    Node(m, eng[m], queue[m], DOMAIN task[m], DOMAIN kreq[m], stream[m], shipped[m],
         reported[m], failed[m], B[m])

All(B) == jobName \in DOMAIN Jobs /\ Shape /\ \A m \in Pods : Is(m, B)

ShapeStays ==
    /\ OnPods(queue') /\ OnPods(eng') /\ OnPods(mem') /\ OnPods(task') /\ OnPods(kreq')
    /\ OnPods(stream') /\ OnPods(shipped') /\ OnPods(reported') /\ OnPods(failed')

Becomes(m, C) ==
    /\ Node(m, eng'[m], queue'[m], DOMAIN task'[m], DOMAIN kreq'[m], stream'[m], shipped'[m],
            reported'[m], failed'[m], C[m])
    /\ Progress(m, eng[m], reported[m], eng'[m], reported'[m])

AllBecome(C) == jobName' = jobName /\ ShapeStays /\ \A m \in Pods : Becomes(m, C)

LEMMA SameProgress ==
    ASSUME NEW n, NEW e, NEW D
    PROVE  Progress(n, e, D, e, D)
BY DEF Progress

(* A node of which nothing changes.                                        *)
Untouched(m) ==
    /\ eng'[m] = eng[m] /\ queue'[m] = queue[m] /\ DOMAIN task'[m] = DOMAIN task[m]
    /\ DOMAIN kreq'[m] = DOMAIN kreq[m] /\ stream'[m] = stream[m] /\ shipped'[m] = shipped[m]
    /\ reported'[m] = reported[m] /\ failed'[m] = failed[m]

LEMMA StaysSo ==
    ASSUME NEW m, NEW B, Is(m, B), Untouched(m)
    PROVE  Becomes(m, B)
<1>1. Progress(m, eng[m], reported[m], eng[m], reported[m])
  BY SameProgress
<1> QED BY <1>1 DEF Is, Untouched, Becomes

(* Fields of the job.                                                      *)
LEMMA SegsIs ==
    ASSUME NEW n, NEW D, NEW B, Context(n, D, B)
    PROVE  /\ Len(Segs(n)) \in Nat
           /\ \A s \in 1..Len(Segs(n)) :
                /\ ListOf(n, SegIds(n, s))
                /\ \A r \in 1..s - 1 : ToSet(SegIds(n, r)) \cap ToSet(SegIds(n, s)) = {}
                /\ \A id \in ToSet(SegIds(n, s)) :
                        Code(n, id).deps \subseteq UNION {ToSet(SegIds(n, r)) : r \in 1..s}
<1>1. InOrder(Job, n)
  BY TheJob DEF Context
<1> QED BY <1>1 DEF InOrder, SegIds, Segs, ListOf, AllIds, Code

-----------------------------------------------------------------------------
(* A node's mail with a message more, and with one less *)

LEMMA GrownPost ==
    ASSUME NEW n, NEW e, NEW q, NEW I, PostOk(n, e, q, I),
           NEW msg, msg.type \notin IoTypes, msg.leaf \in Leaves
    PROVE  LET r == Append(q, msg)
           IN PostOk(n, e, r, I) /\ InHand(r, I) = InHand(q, I)
<1> DEFINE r == Append(q, msg)
<1>1. IsQueue(q) /\ MailOk(q, I) /\ \A i \in DOMAIN q : q[i].leaf \in Leaves
  BY DEF PostOk
<1>2. MailOk(r, I) /\ InHand(r, I) = InHand(q, I)
  BY <1>1, PostOther
<1>3. /\ IsQueue(r) /\ Len(q) \in Nat /\ DOMAIN q = 1..Len(q)
      /\ DOMAIN r = 1..(Len(q) + 1) /\ \A i \in 1..Len(q) : r[i] = q[i]
      /\ r[Len(q) + 1] = msg
  BY <1>1, Posted
<1> HIDE DEF r
<1>4. \A i \in DOMAIN r : r[i].leaf \in Leaves
  <2> TAKE i \in DOMAIN r
  <2>1. i \in 1..Len(q) \/ i = Len(q) + 1
    BY <1>3
  <2> QED BY <2>1, <1>1, <1>3
<1>5. PostOk(n, e, r, I)
  BY <1>2, <1>3, <1>4 DEF PostOk
<1> QED BY <1>2, <1>5 DEF r

LEMMA GrownShipped ==
    ASSUME NEW n, NEW e, NEW q, IsQueue(q), NEW k, NEW D, ShippedOk(n, e, q, k, D),
           NEW msg, msg.type # "Issue"
    PROVE  ShippedOk(n, e, Append(q, msg), k, D)
<1> DEFINE r == Append(q, msg)
<1>1. IssuesOk(q, k)
  BY DEF ShippedOk
<1>2. IssuesOk(r, k) /\ Handled(r, k) = Handled(q, k)
  BY <1>1, PostNoIssue
<1> HIDE DEF r
<1>3. ShippedOk(n, e, r, k, D)
  BY <1>2 DEF ShippedOk
<1> QED BY <1>3 DEF r

LEMMA ShrunkPost ==
    ASSUME NEW n, NEW e, NEW q, q # <<>>, NEW I, PostOk(n, e, q, I)
    PROVE  /\ Head(q).leaf \in Leaves
           /\ IsQueue(Tail(q)) /\ \A i \in DOMAIN Tail(q) : Tail(q)[i].leaf \in Leaves
<1> DEFINE r == Tail(q)
<1>1. IsQueue(q) /\ \A i \in DOMAIN q : q[i].leaf \in Leaves
  BY DEF PostOk
<1>2. /\ IsQueue(r) /\ Len(q) \in Nat \ {0} /\ DOMAIN q = 1..Len(q)
      /\ DOMAIN r = 1..(Len(q) - 1) /\ \A i \in 1..(Len(q) - 1) : r[i] = q[i + 1]
      /\ Head(q) = q[1]
  BY <1>1, Shifted
<1> HIDE DEF r
<1>3. 1 \in DOMAIN q
  BY <1>2
<1>4. \A i \in DOMAIN r : r[i].leaf \in Leaves
  <2> TAKE i \in DOMAIN r
  <2>1. i \in 1..(Len(q) - 1) /\ i + 1 \in DOMAIN q
    BY <1>2
  <2> QED BY <2>1, <1>1, <1>2
<1> QED BY <1>1, <1>2, <1>3, <1>4 DEF r

LEMMA ReadPost ==
    ASSUME NEW n, NEW e, NEW q, q # <<>>, NEW I, PostOk(n, e, q, I), Head(q).type \notin IoTypes
    PROVE  PostOk(n, e, Tail(q), I) /\ InHand(Tail(q), I) = InHand(q, I)
<1>1. IsQueue(q) /\ MailOk(q, I)
  BY DEF PostOk
<1>2. MailOk(Tail(q), I) /\ InHand(Tail(q), I) = InHand(q, I)
  BY <1>1, ShiftOther
<1>3. IsQueue(Tail(q)) /\ \A i \in DOMAIN Tail(q) : Tail(q)[i].leaf \in Leaves
  BY ShrunkPost
<1> HIDE <1>1
<1> QED BY <1>2, <1>3 DEF PostOk

LEMMA ReadShipped ==
    ASSUME NEW n, NEW e, NEW q, IsQueue(q), q # <<>>, NEW k, NEW D, ShippedOk(n, e, q, k, D),
           Head(q).type # "Issue"
    PROVE  ShippedOk(n, e, Tail(q), k, D)
<1>1. IssuesOk(q, k)
  BY DEF ShippedOk
<1>2. IssuesOk(Tail(q), k) /\ Handled(Tail(q), k) = Handled(q, k)
  BY <1>1, ShiftNoIssue
<1> QED BY <1>2 DEF ShippedOk

(* A task ends, and the engine hears of it.                                *)
LEMMA EndedPost ==
    ASSUME NEW n, NEW e, NEW q, NEW I, PostOk(n, e, q, I), NEW msg, msg.type \in IoTypes,
           msg.id \in I, msg.leaf \in Leaves
    PROVE  LET r == Append(q, msg)
           IN PostOk(n, e, r, I \ {msg.id}) /\ InHand(r, I \ {msg.id}) = InHand(q, I)
<1> DEFINE r == Append(q, msg)
           J == I \ {msg.id}
<1>1. IsQueue(q) /\ MailOk(q, I) /\ \A i \in DOMAIN q : q[i].leaf \in Leaves
  BY DEF PostOk
<1>2. MailOk(r, J) /\ InHand(r, J) = InHand(q, I)
  BY <1>1, PostIo
<1>3. /\ IsQueue(r) /\ Len(q) \in Nat /\ DOMAIN q = 1..Len(q)
      /\ DOMAIN r = 1..(Len(q) + 1) /\ \A i \in 1..Len(q) : r[i] = q[i]
      /\ r[Len(q) + 1] = msg
  BY <1>1, Posted
<1> HIDE DEF r
<1>4. \A i \in DOMAIN r : r[i].leaf \in Leaves
  <2> TAKE i \in DOMAIN r
  <2>1. i \in 1..Len(q) \/ i = Len(q) + 1
    BY <1>3
  <2> QED BY <2>1, <1>1, <1>3
<1>5. PostOk(n, e, r, J)
  BY <1>2, <1>3, <1>4 DEF PostOk
<1> QED BY <1>2, <1>5 DEF r

LEMMA HeardPost ==
    ASSUME NEW n, NEW e, NEW q, q # <<>>, NEW I, PostOk(n, e, q, I), Head(q).type \in IoTypes
    PROVE  LET id == Head(q).id
           IN /\ InHand(Tail(q), I) = InHand(q, I) \ {id} /\ id \in InHand(q, I)
              /\ Code(n, id).op \in {"load", "fetch", "store"} /\ e.io - 1 \in Nat
              /\ \A f : f.io = e.io - 1 => PostOk(n, f, Tail(q), I)
<1> DEFINE id == Head(q).id
           H  == InHand(q, I)
<1>1. IsQueue(q) /\ MailOk(q, I) /\ IsFiniteSet(H) /\ e.io = Cardinality(H)
      /\ \A i \in H : Code(n, i).op \in {"load", "fetch", "store"}
  BY DEF PostOk
<1>2. MailOk(Tail(q), I) /\ InHand(Tail(q), I) = H \ {id} /\ id \in H
  BY <1>1, ShiftIo DEF InHand
<1>3. IsFiniteSet(H \ {id}) /\ Cardinality(H \ {id}) = Cardinality(H) - 1
      /\ Cardinality(H \ {id}) \in Nat
  BY <1>1, <1>2, FS_RemoveElement, FS_CardinalityType
<1>4. IsQueue(Tail(q)) /\ \A i \in DOMAIN Tail(q) : Tail(q)[i].leaf \in Leaves
  BY ShrunkPost
<1> HIDE DEF id, H
<1>5. \A i \in H \ {id} : Code(n, i).op \in {"load", "fetch", "store"}
  BY <1>1
<1>6. \A f : f.io = e.io - 1 => PostOk(n, f, Tail(q), I)
  BY <1>1, <1>2, <1>3, <1>4, <1>5 DEF PostOk
<1> QED BY <1>1, <1>2, <1>3, <1>6 DEF id, H

LEMMA HeardOn ==
    ASSUME NEW n, NEW e, NEW q, q # <<>>, NEW I, PostOk(n, e, q, I), Head(q).type \in IoTypes,
           NEW f, f.io = e.io - 1
    PROVE  InHand(Tail(q), I) = InHand(q, I) \ {Head(q).id} /\ PostOk(n, f, Tail(q), I)
BY HeardPost

-----------------------------------------------------------------------------
(* What the world does *)

(* g is f with v written at x.                                             *)
Wrote(f, x, v, g) == OnPods(g) /\ \A m \in Pods : g[m] = IF m = x THEN v ELSE f[m]

LEMMA OnPodsExcept ==
    ASSUME NEW f, OnPods(f), NEW x, NEW v
    PROVE  Wrote(f, x, v, [f EXCEPT ![x] = v])
BY DEF OnPods, IsMap, Wrote

LEMMA IsParts ==
    ASSUME NEW m, NEW B, Is(m, B)
    PROVE  /\ Context(m, reported[m], B[m])
           /\ Good(m, eng[m], InHand(queue[m], DOMAIN task[m]), reported[m], B[m])
           /\ PostOk(m, eng[m], queue[m], DOMAIN task[m]) /\ IsQueue(queue[m])
           /\ KernelsOk(eng[m], DOMAIN kreq[m], stream[m])
           /\ ShippedOk(m, eng[m], queue[m], shipped[m], reported[m])
           /\ failed[m] \subseteq AllIds(m)
BY DEF Is, Node, PostOk

(* A node that may get a message, and may ask for a kernel or receive one. *)
MailGrows(m, msg) ==
    /\ queue'[m] \in {queue[m], Append(queue[m], msg)}
    /\ eng'[m] = eng[m] /\ DOMAIN task'[m] = DOMAIN task[m]
    /\ DOMAIN kreq'[m] \subseteq Leaves /\ stream'[m] \in Seq(Leaves)
    /\ shipped'[m] = shipped[m] /\ reported'[m] = reported[m] /\ failed'[m] = failed[m]

LEMMA MailGrown ==
    ASSUME NEW m, NEW B, Is(m, B), NEW msg, msg.type \notin IoTypes \cup {"Issue"},
           msg.leaf \in Leaves, MailGrows(m, msg)
    PROVE  Becomes(m, B)
<1> DEFINE e  == eng[m]
           q  == queue[m]
           I  == DOMAIN task[m]
           K  == DOMAIN kreq'[m]
           st == stream'[m]
           k  == shipped[m]
           D  == reported[m]
           r  == queue'[m]
<1>1. /\ Context(m, D, B[m]) /\ Good(m, e, InHand(q, I), D, B[m]) /\ PostOk(m, e, q, I)
      /\ IsQueue(q) /\ KernelsOk(e, DOMAIN kreq[m], stream[m]) /\ ShippedOk(m, e, q, k, D)
      /\ failed[m] \subseteq AllIds(m)
  BY IsParts
<1>2. r = q \/ r = Append(q, msg)
  BY DEF MailGrows
<1>3. PostOk(m, e, r, I) /\ InHand(r, I) = InHand(q, I) /\ ShippedOk(m, e, r, k, D)
  <2>1. CASE r = q
    BY <1>1, <2>1
  <2>2. CASE r = Append(q, msg)
    <3>1. PostOk(m, e, Append(q, msg), I) /\ InHand(Append(q, msg), I) = InHand(q, I)
      BY <1>1, GrownPost
    <3>2. ShippedOk(m, e, Append(q, msg), k, D)
      BY <1>1, GrownShipped
    <3> HIDE DEF r
    <3> QED BY <2>2, <3>1, <3>2
  <2> QED BY <1>2, <2>1, <2>2
<1>4. KernelsOk(e, K, st)
  BY <1>1 DEF KernelsOk, MailGrows
<1>5. Node(m, e, r, I, K, st, k, D, failed[m], B[m])
  BY <1>1, <1>3, <1>4 DEF Node
<1>6. Progress(m, e, D, e, D)
  BY SameProgress
<1> QED BY <1>5, <1>6 DEF Becomes, MailGrows

LEMMA AllParts ==
    ASSUME NEW B, All(B)
    PROVE  /\ jobName \in DOMAIN Jobs /\ 0 \in Pods
           /\ OnPods(queue) /\ OnPods(eng) /\ OnPods(mem) /\ OnPods(task) /\ OnPods(kreq)
           /\ OnPods(stream) /\ OnPods(shipped) /\ OnPods(reported) /\ OnPods(failed)
           /\ \A m \in Pods : Is(m, B) /\ DOMAIN kreq[m] \subseteq Leaves /\ stream[m] \in Seq(Leaves)
<1>1. jobName \in DOMAIN Jobs /\ 0 \in Pods
  BY TheJob DEF All, Pods
<1>2. \A m \in Pods : Is(m, B)
  BY DEF All
<1>3. \A m \in Pods : KernelsOk(eng[m], DOMAIN kreq[m], stream[m])
  BY <1>2, IsParts
<1> QED BY <1>1, <1>2, <1>3 DEF All, Shape, KernelsOk

LEMMA ReceiveKernelStep ==
    ASSUME NEW B, All(B), NEW n \in Pods, ReceiveKernel(n)
    PROVE  AllBecome(B)
<1> DEFINE msg == [Message("Kernel") EXCEPT !.leaf = Head(stream[n])]
           q   == [queue EXCEPT ![n] = Append(queue[n], msg)]
           st  == [stream EXCEPT ![n] = Tail(stream[n])]
<1>1. /\ OnPods(queue) /\ OnPods(eng) /\ OnPods(mem) /\ OnPods(task) /\ OnPods(kreq)
      /\ OnPods(stream) /\ OnPods(shipped) /\ OnPods(reported) /\ OnPods(failed)
      /\ \A m \in Pods : Is(m, B) /\ DOMAIN kreq[m] \subseteq Leaves /\ stream[m] \in Seq(Leaves)
  BY AllParts
<1>2. /\ queue' = q /\ stream' = st /\ stream[n] # <<>> /\ jobName' = jobName
      /\ UNCHANGED <<shipped, eng, mem, task, kreq, reported, failed>>
  BY DEF ReceiveKernel, Post, ioVars, outVars
<1>3. Head(stream[n]) \in Leaves /\ Tail(stream[n]) \in Seq(Leaves)
  BY <1>1, <1>2, TailIs
<1>4. msg.type = "Kernel" /\ msg.leaf \in Leaves
  BY <1>3 DEF Message
<1> HIDE DEF msg
<1>5. Wrote(queue, n, Append(queue[n], msg), q)
  BY <1>1, OnPodsExcept
<1>6. Wrote(stream, n, Tail(stream[n]), st)
  BY <1>1, OnPodsExcept
<1> HIDE DEF q, st
<1>7. ASSUME NEW m \in Pods PROVE Becomes(m, B)
  <2>1. MailGrows(m, msg)
    BY <1>1, <1>2, <1>3, <1>5, <1>6 DEF MailGrows, Wrote
  <2> QED BY <1>1, <1>4, <2>1, MailGrown DEF IoTypes
<1>8. ShapeStays
  BY <1>1, <1>2, <1>5, <1>6 DEF ShapeStays, Wrote
<1> QED BY <1>2, <1>7, <1>8 DEF AllBecome

(* A message to one node, about a kernel or a tile.                        *)
LEMMA OneMessage ==
    ASSUME NEW B, All(B), NEW x, NEW msg, msg.type \notin IoTypes \cup {"Issue"},
           msg.leaf \in Leaves, queue' = [queue EXCEPT ![x] = Append(queue[x], msg)],
           OnPods(task'), \A m \in Pods : DOMAIN task'[m] = DOMAIN task[m],
           OnPods(kreq'), \A m \in Pods : DOMAIN kreq'[m] \subseteq Leaves,
           UNCHANGED <<jobName, stream, shipped, eng, mem, reported, failed>>
    PROVE  AllBecome(B)
<1> DEFINE q == [queue EXCEPT ![x] = Append(queue[x], msg)]
<1>1. /\ OnPods(queue) /\ OnPods(eng) /\ OnPods(mem)
      /\ OnPods(stream) /\ OnPods(shipped) /\ OnPods(reported) /\ OnPods(failed)
      /\ \A m \in Pods : Is(m, B) /\ stream[m] \in Seq(Leaves)
  BY AllParts
<1>2. queue' = q
  OBVIOUS
<1>3. Wrote(queue, x, Append(queue[x], msg), q)
  BY <1>1, OnPodsExcept
<1> HIDE DEF q
<1>4. ASSUME NEW m \in Pods PROVE Becomes(m, B)
  <2>1. MailGrows(m, msg)
    BY <1>1, <1>2, <1>3 DEF MailGrows, Wrote
  <2> QED BY <1>1, <2>1, MailGrown
<1>5. ShapeStays
  BY <1>1, <1>2, <1>3 DEF ShapeStays, Wrote
<1> QED BY <1>4, <1>5 DEF AllBecome

LEMMA AskTileStep ==
    ASSUME NEW B, All(B), NEW n \in Pods, NEW id, AskTile(n, id)
    PROVE  AllBecome(B)
<1> DEFINE x   == Code(n, id).from
           msg == [Message("Serve") EXCEPT !.id = id, !.tile = id[2], !.to = n]
           mine == [task[n] EXCEPT ![id].state = "asked"]
           t    == [task EXCEPT ![n] = mine]
<1>1. queue' = [queue EXCEPT ![x] = Append(queue[x], msg)]
  BY DEF AskTile, Post
<1>2. msg.type = "Serve" /\ msg.leaf = 0 /\ msg.leaf \in Leaves
  BY DEF Message, Leaves
<1>3. OnPods(task) /\ OnPods(kreq) /\ \A m \in Pods : DOMAIN kreq[m] \subseteq Leaves
  BY AllParts
<1>4. Wrote(task, n, mine, t) /\ DOMAIN mine = DOMAIN task[n]
  BY <1>3, OnPodsExcept
<1>5. task' = t /\ UNCHANGED <<jobName, kreq, stream, shipped, eng, mem, reported, failed>>
  BY DEF AskTile, shipVars, outVars
<1> HIDE DEF msg, x, t, mine
<1>6. OnPods(task') /\ \A m \in Pods : DOMAIN task'[m] = DOMAIN task[m]
  BY <1>4, <1>5 DEF Wrote
<1>7. OnPods(kreq') /\ \A m \in Pods : DOMAIN kreq'[m] \subseteq Leaves
  BY <1>3, <1>5
<1> QED BY <1>1, <1>2, <1>5, <1>6, <1>7, OneMessage DEF IoTypes

LEMMA AskKernelStep ==
    ASSUME NEW B, All(B), NEW n \in Pods, NEW leaf, AskKernel(n, leaf)
    PROVE  AllBecome(B)
<1> DEFINE msg  == [Message("GetKernel") EXCEPT !.leaf = leaf, !.to = n]
           mine == [kreq[n] EXCEPT ![leaf] = "asked"]
           t    == [kreq EXCEPT ![n] = mine]
<1>1. queue' = [queue EXCEPT ![0] = Append(queue[0], msg)] /\ leaf \in DOMAIN kreq[n]
  BY DEF AskKernel, Post
<1>2. OnPods(task) /\ OnPods(kreq) /\ \A m \in Pods : DOMAIN kreq[m] \subseteq Leaves
  BY AllParts
<1>3. msg.type = "GetKernel" /\ msg.leaf = leaf /\ msg.leaf \in Leaves
  BY <1>1, <1>2 DEF Message
<1>4. Wrote(kreq, n, mine, t) /\ DOMAIN mine = DOMAIN kreq[n]
  BY <1>2, OnPodsExcept
<1>5. kreq' = t /\ UNCHANGED <<jobName, task, stream, shipped, eng, mem, reported, failed>>
  BY DEF AskKernel, shipVars, outVars
<1> HIDE DEF msg, t, mine
<1>6. OnPods(task') /\ \A m \in Pods : DOMAIN task'[m] = DOMAIN task[m]
  BY <1>2, <1>5
<1>7. OnPods(kreq') /\ \A m \in Pods : DOMAIN kreq'[m] \subseteq Leaves
  BY <1>2, <1>4, <1>5 DEF Wrote
<1> QED BY <1>1, <1>3, <1>5, <1>6, <1>7, OneMessage DEF IoTypes

LEMMA KernelArrivesStep ==
    ASSUME NEW B, All(B), NEW n \in Pods, NEW leaf, KernelArrives(n, leaf)
    PROVE  AllBecome(B)
<1> DEFINE msg  == [Message("KernelFetched") EXCEPT !.leaf = leaf]
           mine == Without(kreq[n], leaf)
           t    == [kreq EXCEPT ![n] = mine]
<1>1. queue' = [queue EXCEPT ![n] = Append(queue[n], msg)] /\ leaf \in DOMAIN kreq[n]
  BY DEF KernelArrives, Post
<1>2. OnPods(task) /\ OnPods(kreq) /\ \A m \in Pods : DOMAIN kreq[m] \subseteq Leaves
  BY AllParts
<1>3. msg.type = "KernelFetched" /\ msg.leaf = leaf /\ msg.leaf \in Leaves
  BY <1>1, <1>2 DEF Message
<1>4. Wrote(kreq, n, mine, t) /\ DOMAIN mine = DOMAIN kreq[n] \ {leaf}
  BY <1>2, OnPodsExcept DEF Without
<1>5. kreq' = t /\ UNCHANGED <<jobName, task, stream, shipped, eng, mem, reported, failed>>
  BY DEF KernelArrives, shipVars, outVars
<1> HIDE DEF msg, t, mine
<1>6. OnPods(task') /\ \A m \in Pods : DOMAIN task'[m] = DOMAIN task[m]
  BY <1>2, <1>5
<1>7. OnPods(kreq') /\ \A m \in Pods : DOMAIN kreq'[m] \subseteq Leaves
  BY <1>2, <1>4, <1>5 DEF Wrote
<1> QED BY <1>1, <1>3, <1>5, <1>6, <1>7, OneMessage DEF IoTypes

(* A task ends, well or not, and its engine is told.                       *)
LEMMA TaskEnds ==
    ASSUME NEW B, All(B), NEW n \in Pods, NEW msg, msg.type \in IoTypes, msg.leaf \in Leaves,
           msg.id \in DOMAIN task[n], queue' = [queue EXCEPT ![n] = Append(queue[n], msg)],
           task' = [task EXCEPT ![n] = Without(task[n], msg.id)],
           UNCHANGED <<jobName, stream, shipped, eng, mem, kreq, reported, failed>>
    PROVE  AllBecome(B)
<1> DEFINE r == Append(queue[n], msg)
           q == [queue EXCEPT ![n] = r]
           mine == Without(task[n], msg.id)
           t == [task EXCEPT ![n] = mine]
           I == DOMAIN task[n]
           J == DOMAIN task[n] \ {msg.id}
<1>1. /\ OnPods(queue) /\ OnPods(eng) /\ OnPods(mem) /\ OnPods(task) /\ OnPods(kreq)
      /\ OnPods(stream) /\ OnPods(shipped) /\ OnPods(reported) /\ OnPods(failed)
      /\ \A m \in Pods : Is(m, B)
  BY AllParts
<1>2. queue' = q /\ task' = t
  OBVIOUS
<1>3. Wrote(queue, n, r, q) /\ Wrote(task, n, mine, t) /\ DOMAIN mine = J
  BY <1>1, OnPodsExcept DEF Without
<1>4. /\ Context(n, reported[n], B[n])
      /\ Good(n, eng[n], InHand(queue[n], I), reported[n], B[n])
      /\ PostOk(n, eng[n], queue[n], I) /\ IsQueue(queue[n])
      /\ KernelsOk(eng[n], DOMAIN kreq[n], stream[n])
      /\ ShippedOk(n, eng[n], queue[n], shipped[n], reported[n])
      /\ failed[n] \subseteq AllIds(n)
  BY <1>1, IsParts
<1>5. PostOk(n, eng[n], r, J) /\ InHand(r, J) = InHand(queue[n], I)
  BY <1>4, EndedPost
<1>6. ShippedOk(n, eng[n], r, shipped[n], reported[n])
  <2>1. msg.type # "Issue"
    BY DEF IoTypes
  <2> QED BY <1>4, <2>1, GrownShipped
<1> HIDE DEF q, t, mine, r, I, J
<1>7. Becomes(n, B)
  <2>1. Node(n, eng[n], r, J, DOMAIN kreq[n], stream[n], shipped[n], reported[n],
             failed[n], B[n])
    BY <1>4, <1>5, <1>6 DEF Node
  <2>2. Progress(n, eng[n], reported[n], eng[n], reported[n])
    BY SameProgress
  <2> QED BY <1>2, <1>3, <2>1, <2>2 DEF Becomes, Wrote
<1>8. ASSUME NEW m \in Pods, m # n PROVE Becomes(m, B)
  <2>1. Untouched(m)
    BY <1>2, <1>3, <1>8 DEF Untouched, Wrote
  <2> QED BY <1>1, <2>1, StaysSo
<1>9. ShapeStays
  BY <1>1, <1>2, <1>3 DEF ShapeStays, Wrote
<1> QED BY <1>7, <1>8, <1>9 DEF AllBecome

LEMMA TaskStep ==
    ASSUME NEW B, All(B), NEW n \in Pods, NEW id \in DOMAIN task[n],
           LoadDone(n, id) \/ StoreDone(n, id) \/ IoError(n, id)
    PROVE  AllBecome(B)
<1>1. task' = [task EXCEPT ![n] = Without(task[n], id)]
      /\ UNCHANGED <<jobName, stream, shipped, eng, mem, kreq, reported, failed>>
  BY DEF LoadDone, StoreDone, IoError, shipVars, outVars
<1>2. CASE LoadDone(n, id)
  <2> DEFINE data == IF Code(n, id).op = "load" THEN Stored(id[2]) ELSE task[n][id].data
             msg  == [Message("IoDone") EXCEPT !.id = id, !.data = data]
  <2>1. queue' = [queue EXCEPT ![n] = Append(queue[n], msg)]
    BY <1>2 DEF LoadDone, Post
  <2>2. msg.type \in IoTypes /\ msg.leaf \in Leaves /\ msg.id = id
    BY DEF Message, IoTypes, Leaves
  <2> HIDE DEF msg
  <2> QED BY <1>1, <2>1, <2>2, TaskEnds
<1>3. CASE StoreDone(n, id)
  <2> DEFINE msg == [Message("StoreDone") EXCEPT !.id = id]
  <2>1. queue' = [queue EXCEPT ![n] = Append(queue[n], msg)]
    BY <1>3 DEF StoreDone, Post
  <2>2. msg.type \in IoTypes /\ msg.leaf \in Leaves /\ msg.id = id
    BY DEF Message, IoTypes, Leaves
  <2> HIDE DEF msg
  <2> QED BY <1>1, <2>1, <2>2, TaskEnds
<1>4. CASE IoError(n, id)
  <2> DEFINE msg == [Message("IoFailed") EXCEPT !.id = id]
  <2>1. queue' = [queue EXCEPT ![n] = Append(queue[n], msg)]
    BY <1>4 DEF IoError, Post
  <2>2. msg.type \in IoTypes /\ msg.leaf \in Leaves /\ msg.id = id
    BY DEF Message, IoTypes, Leaves
  <2> HIDE DEF msg
  <2> QED BY <1>1, <2>1, <2>2, TaskEnds
<1> QED BY <1>2, <1>3, <1>4

-----------------------------------------------------------------------------
(* What an engine does *)

With(B, n, c) == [m \in Pods |-> IF m = n THEN c ELSE B[m]]

(* The engine of n becomes f, its queue r, and E is what it has reported.  *)
NodeMoves(n, f, r, E) ==
    /\ Wrote(queue, n, r, queue') /\ Wrote(eng, n, f, eng') /\ Wrote(reported, n, E, reported')
    /\ OnPods(mem') /\ OnPods(task') /\ OnPods(kreq') /\ OnPods(failed')
    /\ \A m \in Pods : DOMAIN kreq'[m] \subseteq Leaves
    /\ \A m \in Pods \ {n} : DOMAIN task'[m] = DOMAIN task[m] /\ failed'[m] = failed[m]
    /\ failed'[n] \subseteq AllIds(n)
    /\ UNCHANGED <<jobName, stream, shipped>>

NodeOk(n, f, r, J, E, c) ==
    /\ Context(n, E, c) /\ Good(n, f, InHand(r, J), E, c) /\ PostOk(n, f, r, J)
    /\ IsFiniteSet(f.parked) /\ f.kernels \subseteq Leaves /\ f.fetching \subseteq Leaves
    /\ ShippedOk(n, f, r, shipped[n], E) /\ Progress(n, eng[n], reported[n], f, E)

LEMMA NodeSteps ==
    ASSUME NEW B, All(B), NEW n \in Pods, NEW f, NEW r, NEW E, NEW c, NodeMoves(n, f, r, E),
           NodeOk(n, f, r, DOMAIN task'[n], E, c)
    PROVE  AllBecome(With(B, n, c))
<1> DEFINE C == With(B, n, c)
<1>1. /\ OnPods(stream) /\ OnPods(shipped)
      /\ \A m \in Pods : Is(m, B) /\ stream[m] \in Seq(Leaves)
  BY AllParts
<1>2. C[n] = c /\ \A m \in Pods \ {n} : C[m] = B[m]
  BY DEF With
<1> HIDE DEF C
<1>3. Becomes(n, C)
  <2>1. /\ eng'[n] = f /\ queue'[n] = r /\ reported'[n] = E /\ stream'[n] = stream[n]
        /\ shipped'[n] = shipped[n] /\ DOMAIN kreq'[n] \subseteq Leaves
        /\ failed'[n] \subseteq AllIds(n)
    BY DEF NodeMoves, Wrote
  <2>2. KernelsOk(f, DOMAIN kreq'[n], stream'[n])
    BY <1>1, <2>1 DEF KernelsOk, NodeOk
  <2>3. Node(n, f, r, DOMAIN task'[n], DOMAIN kreq'[n], stream'[n], shipped[n], E,
             failed'[n], c)
    BY <2>1, <2>2 DEF Node, NodeOk
  <2>4. Progress(n, eng[n], reported[n], f, E)
    BY DEF NodeOk
  <2> QED BY <1>2, <2>1, <2>3, <2>4 DEF Becomes
<1>4. ASSUME NEW m \in Pods, m # n PROVE Becomes(m, C)
  <2> DEFINE msg == [Message("Kernel") EXCEPT !.leaf = 0]
  <2>1. msg.type = "Kernel" /\ msg.leaf \in Leaves
    BY DEF Message, Leaves
  <2> HIDE DEF msg
  <2>2. MailGrows(m, msg)
    BY <1>1, <1>4 DEF MailGrows, NodeMoves, Wrote
  <2>3. Becomes(m, B)
    BY <1>1, <2>1, <2>2, MailGrown DEF IoTypes
  <2> QED BY <1>2, <1>4, <2>3 DEF Becomes
<1>5. ShapeStays
  BY <1>1 DEF ShapeStays, NodeMoves, Wrote
<1>6. AllBecome(C)
  BY <1>3, <1>4, <1>5 DEF AllBecome, NodeMoves
<1> QED BY <1>6 DEF C

(* No request is parked, and none that was is served; or only node n's     *)
(* change, to P.                                                           *)
SameParked == \A m \in Pods : eng'[m].parked = eng[m].parked
ParkedBecome(n, P) == \A m \in Pods : eng'[m].parked = IF m = n THEN P ELSE eng[m].parked

LEMMA ParkedSame ==
    ASSUME NEW n \in Pods, NEW f, NEW r, NEW E, NodeMoves(n, f, r, E), f.parked = eng[n].parked
    PROVE  SameParked
BY DEF NodeMoves, Wrote, SameParked

LEMMA ParkedIs ==
    ASSUME NEW n \in Pods, NEW f, NEW r, NEW E, NodeMoves(n, f, r, E)
    PROVE  ParkedBecome(n, f.parked)
BY DEF NodeMoves, Wrote, ParkedBecome

LEMMA NothingWrote ==
    ASSUME NEW f, OnPods(f), NEW n
    PROVE  Wrote(f, n, f[n], f)
BY DEF Wrote

(* What there is to know of a node before its step.                        *)
LEMMA NodeParts ==
    ASSUME NEW B, All(B), NEW n \in Pods
    PROVE  /\ Context(n, reported[n], B[n])
           /\ Good(n, eng[n], InHand(queue[n], DOMAIN task[n]), reported[n], B[n])
           /\ PostOk(n, eng[n], queue[n], DOMAIN task[n]) /\ IsQueue(queue[n])
           /\ IsFiniteSet(eng[n].parked)
           /\ eng[n].kernels \subseteq Leaves /\ eng[n].fetching \subseteq Leaves
           /\ ShippedOk(n, eng[n], queue[n], shipped[n], reported[n])
           /\ failed[n] \subseteq AllIds(n)
<1>1. Is(n, B)
  BY AllParts
<1>2. KernelsOk(eng[n], DOMAIN kreq[n], stream[n])
  BY <1>1, IsParts
<1> QED BY <1>1, <1>2, IsParts DEF KernelsOk

(* Begin, EndDrain and EndPoll.                                            *)
LEMMA TurnStep ==
    ASSUME NEW B, All(B), UNCHANGED <<queue, eng, mem, ioVars, shipVars, outVars>>
    PROVE  AllBecome(B)
<1>1. /\ OnPods(queue) /\ OnPods(eng) /\ OnPods(mem) /\ OnPods(task) /\ OnPods(kreq)
      /\ OnPods(stream) /\ OnPods(shipped) /\ OnPods(reported) /\ OnPods(failed)
      /\ \A m \in Pods : Is(m, B)
  BY AllParts
<1>2. UNCHANGED <<jobName, queue, eng, mem, task, kreq, stream, shipped, reported, failed>>
  BY DEF ioVars, shipVars, outVars
<1>3. \A m \in Pods : Becomes(m, B)
  BY <1>1, <1>2, StaysSo DEF Untouched
<1> QED BY <1>1, <1>2, <1>3 DEF AllBecome, ShapeStays

LEMMA ShipStep ==
    ASSUME NEW B, All(B), NEW n \in Pods, Ship(n)
    PROVE  AllBecome(B)
<1> DEFINE k   == shipped[n]
           msg == [Message("Issue") EXCEPT !.seg = k + 1]
           r   == Append(queue[n], msg)
           q   == [queue EXCEPT ![n] = r]
           h   == [shipped EXCEPT ![n] = k + 1]
           e   == eng[n]
           I   == DOMAIN task[n]
           D   == reported[n]
<1>1. /\ OnPods(queue) /\ OnPods(eng) /\ OnPods(mem) /\ OnPods(task) /\ OnPods(kreq)
      /\ OnPods(stream) /\ OnPods(shipped) /\ OnPods(reported) /\ OnPods(failed)
      /\ \A m \in Pods : Is(m, B)
  BY AllParts
<1>2. /\ queue' = q /\ shipped' = h /\ k < Len(Segs(n))
      /\ UNCHANGED <<jobName, eng, mem, task, kreq, stream, reported, failed>>
  BY DEF Ship, Post, ioVars, outVars
<1>3. msg.type = "Issue" /\ msg.seg = k + 1 /\ msg.leaf \in Leaves
  BY DEF Message, Leaves
<1>4. Wrote(queue, n, r, q) /\ Wrote(shipped, n, k + 1, h)
  BY <1>1, OnPodsExcept
<1>5. /\ Context(n, D, B[n]) /\ Good(n, e, InHand(queue[n], I), D, B[n])
      /\ PostOk(n, e, queue[n], I) /\ IsQueue(queue[n])
      /\ KernelsOk(e, DOMAIN kreq[n], stream[n]) /\ ShippedOk(n, e, queue[n], k, D)
      /\ failed[n] \subseteq AllIds(n)
  BY <1>1, IsParts
<1> HIDE DEF msg, q, h
<1>6. PostOk(n, e, r, I) /\ InHand(r, I) = InHand(queue[n], I)
  <2>1. msg.type \notin IoTypes
    BY <1>3 DEF IoTypes
  <2> QED BY <1>3, <1>5, <2>1, GrownPost
<1>7. ShippedOk(n, e, r, k + 1, D)
  <2>1. IssuesOk(queue[n], k) /\ k \in 0..Len(Segs(n)) /\ Len(Segs(n)) \in Nat
    BY <1>5, SegsIs DEF ShippedOk
  <2>2. k \in Nat /\ k + 1 \in 0..Len(Segs(n))
    BY <1>2, <2>1
  <2>3. IssuesOk(r, k + 1) /\ Handled(r, k + 1) = Handled(queue[n], k)
    BY <1>3, <1>5, <2>1, <2>2, PostIssue
  <2> HIDE DEF r, k
  <2> QED BY <1>5, <2>2, <2>3 DEF ShippedOk
<1> HIDE DEF r, k, e, I, D
<1>8. Becomes(n, B)
  <2>1. Node(n, e, r, I, DOMAIN kreq[n], stream[n], k + 1, D, failed[n], B[n])
    BY <1>5, <1>6, <1>7 DEF Node
  <2>2. Progress(n, e, D, e, D)
    BY SameProgress
  <2> QED BY <1>2, <1>4, <2>1, <2>2 DEF Becomes, Wrote, e, I, D
<1>9. ASSUME NEW m \in Pods, m # n PROVE Becomes(m, B)
  <2>1. Untouched(m)
    BY <1>2, <1>4, <1>9 DEF Untouched, Wrote
  <2> QED BY <1>1, <2>1, StaysSo
<1>10. ShapeStays
  BY <1>1, <1>2, <1>4 DEF ShapeStays, Wrote
<1> QED BY <1>2, <1>8, <1>9, <1>10 DEF AllBecome

LEMMA FinishStep ==
    ASSUME NEW B, All(B), NEW n \in Pods, NEW id, Finish(n, id)
    PROVE  AllBecome(With(B, n, B[n])) /\ SameParked
<1> DEFINE e == eng[n]
           f == FinishedOn(e, id)
           q == queue[n]
           I == DOMAIN task[n]
           D == reported[n]
           v == [eng EXCEPT ![n] = f]
<1>1. /\ OnPods(queue) /\ OnPods(eng) /\ OnPods(mem) /\ OnPods(task) /\ OnPods(kreq)
      /\ OnPods(reported) /\ OnPods(failed) /\ \A m \in Pods : DOMAIN kreq[m] \subseteq Leaves
  BY AllParts
<1>2. /\ Context(n, D, B[n]) /\ Good(n, e, InHand(q, I), D, B[n])
      /\ PostOk(n, e, q, I) /\ IsFiniteSet(e.parked) /\ e.kernels \subseteq Leaves
      /\ e.fetching \subseteq Leaves /\ ShippedOk(n, e, q, shipped[n], D)
      /\ failed[n] \subseteq AllIds(n)
  BY NodeParts
<1>3. /\ eng' = v /\ id \in DOMAIN e.running /\ OnPods(mem')
      /\ UNCHANGED <<jobName, queue, task, kreq, stream, shipped, reported, failed>>
  BY <1>1 DEF Finish, FinishedOn, ioVars, shipVars, outVars, OnPods, IsMap
<1>4. /\ Good(n, f, InHand(q, I), D, B[n]) /\ f.io = e.io /\ f.kernels = e.kernels
      /\ f.fetching = e.fetching /\ f.parked = e.parked
      /\ f.table = e.table /\ f.completions = e.completions /\ f.ready = e.ready
  BY <1>2, <1>3, FinishedGood
<1>5. Wrote(eng, n, f, v) /\ Wrote(queue, n, q, queue) /\ Wrote(reported, n, D, reported)
  BY <1>1, OnPodsExcept, NothingWrote
<1> HIDE DEF f, v
<1>6. NodeMoves(n, f, q, D)
  BY <1>1, <1>2, <1>3, <1>5 DEF NodeMoves
<1>7. NodeOk(n, f, q, I, D, B[n])
  <2>1. Done(f, D) = Done(e, D) /\ f.table \cup Done(f, D) = e.table \cup Done(e, D)
    BY <1>4 DEF Done
  <2>2. Progress(n, e, D, f, D)
    BY <1>4, <2>1, SoItStays
  <2>3. ShippedOk(n, f, q, shipped[n], D)
    BY <1>2, <2>1, SameShipped
  <2>4. PostOk(n, f, q, I)
    BY <1>2, <1>4, SamePost
  <2> QED BY <1>2, <1>4, <2>2, <2>3, <2>4 DEF NodeOk
<1>8. AllBecome(With(B, n, B[n]))
  BY <1>3, <1>6, <1>7, NodeSteps
<1>9. SameParked
  BY <1>4, <1>6, ParkedSame
<1> QED BY <1>8, <1>9

LEMMA Reading ==
    ASSUME NEW B, All(B), NEW n \in Pods, NEW type, Handling(n, type)
    PROVE  /\ queue[n] # <<>> /\ Head(queue[n]).type = type
           /\ Wrote(queue, n, Tail(queue[n]), queue') /\ Wrote(reported, n, reported[n], reported')
           /\ UNCHANGED <<jobName, stream, shipped, reported>>
           /\ Head(queue[n]).leaf \in Leaves
<1> DEFINE q == [queue EXCEPT ![n] = Tail(queue[n])]
<1>1. OnPods(queue) /\ OnPods(reported)
  BY AllParts
<1>2. /\ queue[n] # <<>> /\ Head(queue[n]).type = type /\ queue' = q
      /\ UNCHANGED <<jobName, stream, shipped, reported>>
  BY DEF Handling, shipVars
<1>3. Wrote(queue, n, Tail(queue[n]), q) /\ Wrote(reported, n, reported[n], reported)
  BY <1>1, OnPodsExcept, NothingWrote
<1>4. PostOk(n, eng[n], queue[n], DOMAIN task[n])
  BY NodeParts
<1>5. Head(queue[n]).leaf \in Leaves
  BY <1>2, <1>4, ShrunkPost
<1> HIDE DEF q
<1> QED BY <1>2, <1>3, <1>5

LEMMA ReplyKeeps ==
    ASSUME NEW B, All(B), NEW W, NEW data, Reply(W, data)
    PROVE  OnPods(task') /\ \A m \in Pods : DOMAIN task'[m] = DOMAIN task[m]
BY DEF Reply, OnPods, IsMap

(* A message that moves no instruction.                                    *)
Reads(n, e, I, D, f, c) ==
    /\ Context(n, D, c) /\ Good(n, f, I, D, c) /\ f.io = e.io
    /\ IsFiniteSet(f.parked) /\ f.kernels \subseteq Leaves /\ f.fetching \subseteq Leaves
    /\ Progress(n, e, D, f, D) /\ f.table \cup Done(f, D) = e.table \cup Done(e, D)

LEMMA ReadStep ==
    ASSUME NEW B, All(B), NEW n \in Pods, queue[n] # <<>>,
           Head(queue[n]).type \notin IoTypes \cup {"Issue"},
           DOMAIN task'[n] = DOMAIN task[n], NEW f, NEW c,
           NodeMoves(n, f, Tail(queue[n]), reported[n]),
           Reads(n, eng[n], InHand(queue[n], DOMAIN task[n]), reported[n], f, c)
    PROVE  AllBecome(With(B, n, c))
<1> DEFINE e == eng[n]
           q == queue[n]
           r == Tail(q)
           I == DOMAIN task[n]
           D == reported[n]
<1>1. PostOk(n, e, q, I) /\ IsQueue(q) /\ ShippedOk(n, e, q, shipped[n], D)
  BY NodeParts
<1>2. PostOk(n, e, r, I) /\ InHand(r, I) = InHand(q, I)
  BY <1>1, ReadPost
<1>3. ShippedOk(n, e, r, shipped[n], D)
  BY <1>1, ReadShipped
<1> HIDE DEF r
<1>4. PostOk(n, f, r, I) /\ ShippedOk(n, f, r, shipped[n], D)
  BY <1>2, <1>3, SamePost, SameShipped DEF Reads
<1>5. NodeOk(n, f, r, I, D, c)
  BY <1>2, <1>4 DEF NodeOk, Reads
<1>6. NodeMoves(n, f, r, D)
  BY DEF r
<1> QED BY <1>5, <1>6, NodeSteps

LEMMA ReadsAside ==
    ASSUME NEW B, All(B), NEW n \in Pods, NEW f, IsEngine(f), SameBut(eng[n], f, Aside \ {"io"}),
           IsFiniteSet(f.parked), f.kernels \subseteq Leaves, f.fetching \subseteq Leaves
    PROVE  Reads(n, eng[n], InHand(queue[n], DOMAIN task[n]), reported[n], f, B[n])
<1> DEFINE e == eng[n]
           I == InHand(queue[n], DOMAIN task[n])
           D == reported[n]
<1>1. Context(n, D, B[n]) /\ Good(n, e, I, D, B[n])
  BY NodeParts
<1>2. SameBut(e, f, Aside) /\ f.io = e.io /\ f.table = e.table /\ f.ready = e.ready
      /\ f.completions = e.completions
  BY DEF SameBut, Fields, Aside
<1> HIDE DEF e, I, D
<1>3. Good(n, f, I, D, B[n])
  BY <1>1, <1>2, AsideGood
<1>4. Done(f, D) = Done(e, D)
  BY <1>2 DEF Done
<1>5. Progress(n, e, D, f, D) /\ f.table \cup Done(f, D) = e.table \cup Done(e, D)
  BY <1>2, <1>4, SoItStays
<1>6. Reads(n, e, I, D, f, B[n])
  BY <1>1, <1>2, <1>3, <1>5 DEF Reads
<1> QED BY <1>6 DEF e, I, D

LEMMA EngineIs ==
    ASSUME NEW B, All(B), NEW n \in Pods
    PROVE  IsEngine(eng[n])
<1>1. Good(n, eng[n], InHand(queue[n], DOMAIN task[n]), reported[n], B[n])
  BY NodeParts
<1> QED BY <1>1 DEF Good, Orderly

LEMMA OnKernelStep ==
    ASSUME NEW B, All(B), NEW n \in Pods, OnKernel(n)
    PROVE  AllBecome(With(B, n, B[n])) /\ SameParked
<1> DEFINE e    == eng[n]
           leaf == Head(queue[n]).leaf
           f    == [e EXCEPT !.kernels = @ \cup {leaf}]
           v    == [eng EXCEPT ![n] = f]
<1>1. /\ OnPods(eng) /\ OnPods(mem) /\ OnPods(task) /\ OnPods(kreq) /\ OnPods(failed)
      /\ \A m \in Pods : DOMAIN kreq[m] \subseteq Leaves
  BY AllParts
<1>2. /\ queue[n] # <<>> /\ Head(queue[n]).type = "Kernel"
      /\ Wrote(queue, n, Tail(queue[n]), queue') /\ Wrote(reported, n, reported[n], reported')
      /\ UNCHANGED <<jobName, stream, shipped, reported>> /\ leaf \in Leaves
  <2>1. Handling(n, "Kernel")
    BY DEF OnKernel
  <2> QED BY <2>1, Reading
<1>3. eng' = v /\ UNCHANGED <<mem, task, kreq, failed>>
  BY DEF OnKernel
<1>4. Wrote(eng, n, f, v)
  BY <1>1, OnPodsExcept
<1>5. IsFiniteSet(e.parked) /\ e.kernels \subseteq Leaves /\ e.fetching \subseteq Leaves
      /\ failed[n] \subseteq AllIds(n) /\ IsEngine(e)
  BY NodeParts, EngineIs
<1>6. /\ IsEngine(f) /\ SameBut(e, f, Aside \ {"io"}) /\ f.parked = e.parked
      /\ f.kernels = e.kernels \cup {leaf} /\ f.fetching = e.fetching
  BY <1>5 DEF IsEngine, SameBut, Fields, Aside
<1> HIDE DEF f, v
<1>7. NodeMoves(n, f, Tail(queue[n]), reported[n])
  BY <1>1, <1>2, <1>3, <1>4, <1>5 DEF NodeMoves
<1>8. Reads(n, e, InHand(queue[n], DOMAIN task[n]), reported[n], f, B[n])
  BY <1>2, <1>5, <1>6, ReadsAside
<1>9. Head(queue[n]).type \notin IoTypes \cup {"Issue"}
  BY <1>2 DEF IoTypes
<1>10. AllBecome(With(B, n, B[n]))
  BY <1>2, <1>3, <1>7, <1>8, <1>9, ReadStep
<1>11. SameParked
  BY <1>6, <1>7, ParkedSame
<1> QED BY <1>10, <1>11

LEMMA OnGetKernelStep ==
    ASSUME NEW B, All(B), NEW n \in Pods, OnGetKernel(n)
    PROVE  AllBecome(With(B, n, B[n])) /\ SameParked
<1> DEFINE msg == Head(queue[n])
           yes == [kreq[msg.to] EXCEPT ![msg.leaf] = "answered"]
           no  == Without(kreq[msg.to], msg.leaf)
<1>1. /\ OnPods(eng) /\ OnPods(mem) /\ OnPods(task) /\ OnPods(kreq) /\ OnPods(failed)
      /\ \A m \in Pods : DOMAIN kreq[m] \subseteq Leaves
  BY AllParts
<1>2. /\ queue[n] # <<>> /\ Head(queue[n]).type = "GetKernel"
      /\ Wrote(queue, n, Tail(queue[n]), queue') /\ Wrote(reported, n, reported[n], reported')
      /\ UNCHANGED <<jobName, stream, shipped, reported>>
  <2>1. Handling(n, "GetKernel")
    BY DEF OnGetKernel
  <2> QED BY <2>1, Reading
<1>3. /\ UNCHANGED <<eng, mem, task, failed>>
      /\ \/ kreq' = [kreq EXCEPT ![msg.to] = yes]
         \/ kreq' = [kreq EXCEPT ![msg.to] = no]
  BY DEF OnGetKernel
<1>4. DOMAIN yes = DOMAIN kreq[msg.to] /\ DOMAIN no \subseteq DOMAIN kreq[msg.to]
  BY DEF Without
<1>5. Wrote(kreq, msg.to, yes, [kreq EXCEPT ![msg.to] = yes])
      /\ Wrote(kreq, msg.to, no, [kreq EXCEPT ![msg.to] = no]) /\ Wrote(eng, n, eng[n], eng)
  BY <1>1, OnPodsExcept, NothingWrote
<1> HIDE DEF yes, no
<1>6. Wrote(kreq, msg.to, yes, kreq') \/ Wrote(kreq, msg.to, no, kreq')
  BY <1>3, <1>5
<1>7. OnPods(kreq') /\ \A m \in Pods : DOMAIN kreq'[m] \subseteq Leaves
  BY <1>1, <1>4, <1>6 DEF Wrote
<1>8. IsFiniteSet(eng[n].parked) /\ eng[n].kernels \subseteq Leaves
      /\ eng[n].fetching \subseteq Leaves /\ failed[n] \subseteq AllIds(n) /\ IsEngine(eng[n])
  BY NodeParts, EngineIs
<1>9. NodeMoves(n, eng[n], Tail(queue[n]), reported[n])
  BY <1>1, <1>2, <1>3, <1>5, <1>7, <1>8 DEF NodeMoves
<1>10. Reads(n, eng[n], InHand(queue[n], DOMAIN task[n]), reported[n], eng[n], B[n])
  <2>1. SameBut(eng[n], eng[n], Aside \ {"io"})
    BY DEF SameBut
  <2> QED BY <1>8, <2>1, ReadsAside
<1>11. Head(queue[n]).type \notin IoTypes \cup {"Issue"}
  BY <1>2 DEF IoTypes
<1>12. AllBecome(With(B, n, B[n]))
  BY <1>2, <1>3, <1>9, <1>10, <1>11, ReadStep
<1>13. SameParked
  BY <1>9, ParkedSame
<1> QED BY <1>12, <1>13

LEMMA OnKernelFetchedStep ==
    ASSUME NEW B, All(B), NEW n \in Pods, OnKernelFetched(n)
    PROVE  AllBecome(With(B, n, B[n])) /\ SameParked
<1> DEFINE e    == eng[n]
           leaf == Head(queue[n]).leaf
           mine == {id \in AllIds(n) : Code(n, id).leaf = leaf}
           f    == FetchedOn(n, e, leaf, mine)
           v    == [eng EXCEPT ![n] = f]
           I    == InHand(queue[n], DOMAIN task[n])
           D    == reported[n]
<1>1. /\ OnPods(eng) /\ OnPods(mem) /\ OnPods(task) /\ OnPods(kreq) /\ OnPods(failed)
      /\ \A m \in Pods : DOMAIN kreq[m] \subseteq Leaves
  BY AllParts
<1>2. /\ queue[n] # <<>> /\ Head(queue[n]).type = "KernelFetched"
      /\ Wrote(queue, n, Tail(queue[n]), queue') /\ Wrote(reported, n, reported[n], reported')
      /\ UNCHANGED <<jobName, stream, shipped, reported>> /\ leaf \in Leaves
  <2>1. Handling(n, "KernelFetched")
    BY DEF OnKernelFetched
  <2> QED BY <2>1, Reading
<1>3. eng' = v /\ UNCHANGED <<mem, task, kreq, failed>>
  BY DEF OnKernelFetched, FetchedOn
<1>4. Wrote(eng, n, f, v)
  BY <1>1, OnPodsExcept
<1>5. Context(n, D, B[n]) /\ Good(n, e, I, D, B[n])
      /\ IsFiniteSet(e.parked) /\ e.kernels \subseteq Leaves /\ e.fetching \subseteq Leaves
      /\ failed[n] \subseteq AllIds(n)
  BY NodeParts
<1>6. /\ Good(n, f, I, D, B[n]) /\ f.io = e.io /\ f.kernels = e.kernels \cup {leaf}
      /\ f.fetching = e.fetching \ {leaf} /\ f.parked = e.parked
      /\ f.table = e.table /\ f.completions = e.completions
      /\ ToSet(f.ready) \subseteq ToSet(e.ready) \cup ToSet(e.waiting)
  <2> HIDE DEF I, D, e, leaf, mine
  <2> QED BY <1>5, FetchedGood
<1> HIDE DEF f, v, I, D, e
<1>7. NodeMoves(n, f, Tail(queue[n]), reported[n])
  BY <1>1, <1>2, <1>3, <1>4, <1>5 DEF NodeMoves
<1>8. Reads(n, e, I, D, f, B[n])
  <2>1. \A id \in ToSet(e.waiting) : Code(n, id).op = "compute"
    BY <1>5 DEF Good, Orderly, OpsOk
  <2>2. \A id \in ToSet(f.ready) : id \in ToSet(e.ready) \/ Code(n, id).op # "fetch"
    BY <1>6, <2>1
  <2>3. Done(f, D) = Done(e, D)
    BY <1>6 DEF Done
  <2>4. Progress(n, e, D, f, D) /\ f.table \cup Done(f, D) = e.table \cup Done(e, D)
    BY <1>6, <2>2, <2>3, SoItStays
  <2> QED BY <1>2, <1>5, <1>6, <2>4 DEF Reads
<1>9. Head(queue[n]).type \notin IoTypes \cup {"Issue"}
  BY <1>2 DEF IoTypes
<1>10. AllBecome(With(B, n, B[n]))
  BY <1>2, <1>3, <1>7, <1>8, <1>9, ReadStep DEF e, I, D
<1>11. SameParked
  BY <1>6, <1>7, ParkedSame DEF e
<1> QED BY <1>10, <1>11

-----------------------------------------------------------------------------
(* Serving, and hearing of tasks *)

Here(n, tile) == tile \in DOMAIN eng[n].tiles /\ eng[n].tiles[tile].resident

LEMMA ServeStep ==
    ASSUME NEW B, All(B), NEW n \in Pods, OnServe(n), Here(n, Head(queue[n]).tile)
    PROVE  AllBecome(With(B, n, More(B[n], Head(queue[n]).tile, 1))) /\ SameParked
<1> DEFINE e    == eng[n]
           msg  == Head(queue[n])
           tile == msg.tile
           f    == Serve(n, e, tile)
           v    == [eng EXCEPT ![n] = f]
           c    == More(B[n], tile, 1)
           I    == InHand(queue[n], DOMAIN task[n])
           D    == reported[n]
           W    == {[tile |-> msg.tile, to |-> msg.to, id |-> msg.id]}
<1>1. /\ OnPods(eng) /\ OnPods(mem) /\ OnPods(kreq) /\ OnPods(failed)
      /\ \A m \in Pods : DOMAIN kreq[m] \subseteq Leaves
  BY AllParts
<1>2. /\ queue[n] # <<>> /\ Head(queue[n]).type = "Serve"
      /\ Wrote(queue, n, Tail(queue[n]), queue') /\ Wrote(reported, n, reported[n], reported')
      /\ UNCHANGED <<jobName, stream, shipped, reported>>
  <2>1. Handling(n, "Serve")
    BY DEF OnServe
  <2> QED BY <2>1, Reading
<1>3. eng' = v /\ Reply(W, At(n, e.tiles[tile].addr)) /\ UNCHANGED <<mem, kreq, failed>>
  BY DEF OnServe, Here
<1>4. Wrote(eng, n, f, v)
  BY <1>1, OnPodsExcept
<1>5. Context(n, D, B[n]) /\ Good(n, e, I, D, B[n])
      /\ IsFiniteSet(e.parked) /\ e.kernels \subseteq Leaves /\ e.fetching \subseteq Leaves
      /\ failed[n] \subseteq AllIds(n)
  BY NodeParts
<1>6. Good(n, f, I, D, c) /\ Moves(n, e, f) /\ Context(n, D, c)
  <2> HIDE DEF I, D, e, tile
  <2>1. 1 \in Nat
    OBVIOUS
  <2> QED BY <1>5, <2>1, ServeGood, MoreIs
<1>7. OnPods(task') /\ \A m \in Pods : DOMAIN task'[m] = DOMAIN task[m]
  BY <1>3, ReplyKeeps
<1> HIDE DEF f, v, I, D, e, c, W
<1>8. NodeMoves(n, f, Tail(queue[n]), reported[n])
  BY <1>1, <1>2, <1>3, <1>4, <1>5, <1>7 DEF NodeMoves
<1>9. Reads(n, e, I, D, f, c)
  <2>1. \A x \in {"io", "kernels", "fetching", "parked"} : f[x] = e[x]
    BY <1>6 DEF Moves, Kept
  <2>2. Moves(n, e, f)
    BY <1>6
  <2>3. Progress(n, e, D, f, D) /\ SameIds(e, D, f)
    BY <2>2, SoItMoves
  <2> QED BY <1>5, <1>6, <2>1, <2>3 DEF Reads, SameIds
<1>10. Head(queue[n]).type \notin IoTypes \cup {"Issue"}
  BY <1>2 DEF IoTypes
<1>11. AllBecome(With(B, n, c))
  BY <1>2, <1>7, <1>8, <1>9, <1>10, ReadStep DEF e, I, D
<1>12. SameParked
  <2>1. f.parked = eng[n].parked
    BY <1>6 DEF Moves, Kept, e
  <2> QED BY <1>8, <2>1, ParkedSame
<1> QED BY <1>11, <1>12 DEF c

LEMMA ParkStep ==
    ASSUME NEW B, All(B), NEW n \in Pods, OnServe(n), ~Here(n, Head(queue[n]).tile)
    PROVE  LET msg == Head(queue[n])
               new == [tile |-> msg.tile, to |-> msg.to, id |-> msg.id]
           IN AllBecome(With(B, n, B[n])) /\ ParkedBecome(n, eng[n].parked \cup {new})
<1> DEFINE e   == eng[n]
           msg == Head(queue[n])
           new == [tile |-> msg.tile, to |-> msg.to, id |-> msg.id]
           f   == [e EXCEPT !.parked = e.parked \cup {new}]
           v   == [eng EXCEPT ![n] = f]
<1>1. /\ OnPods(eng) /\ OnPods(mem) /\ OnPods(task) /\ OnPods(kreq) /\ OnPods(failed)
      /\ \A m \in Pods : DOMAIN kreq[m] \subseteq Leaves
  BY AllParts
<1>2. /\ queue[n] # <<>> /\ Head(queue[n]).type = "Serve"
      /\ Wrote(queue, n, Tail(queue[n]), queue') /\ Wrote(reported, n, reported[n], reported')
      /\ UNCHANGED <<jobName, stream, shipped, reported>>
  <2>1. Handling(n, "Serve")
    BY DEF OnServe
  <2> QED BY <2>1, Reading
<1>3. eng' = v /\ UNCHANGED <<task, mem, kreq, failed>>
  BY <1>1 DEF OnServe, Here, Park, OnPods, IsMap
<1>4. Wrote(eng, n, f, v)
  BY <1>1, OnPodsExcept
<1>5. IsFiniteSet(e.parked) /\ e.kernels \subseteq Leaves /\ e.fetching \subseteq Leaves
      /\ failed[n] \subseteq AllIds(n) /\ IsEngine(e)
  BY NodeParts, EngineIs
<1>6. IsFiniteSet(e.parked \cup {new})
  BY <1>5, FS_AddElement
<1> HIDE DEF new
<1>7. /\ IsEngine(f) /\ SameBut(e, f, Aside \ {"io"}) /\ f.parked = e.parked \cup {new}
      /\ f.kernels = e.kernels /\ f.fetching = e.fetching
  BY <1>5 DEF IsEngine, SameBut, Fields, Aside
<1> HIDE DEF f, v
<1>8. NodeMoves(n, f, Tail(queue[n]), reported[n])
  BY <1>1, <1>2, <1>3, <1>4, <1>5 DEF NodeMoves
<1>9. Reads(n, e, InHand(queue[n], DOMAIN task[n]), reported[n], f, B[n])
  BY <1>2, <1>5, <1>6, <1>7, ReadsAside
<1>10. Head(queue[n]).type \notin IoTypes \cup {"Issue"}
  BY <1>2 DEF IoTypes
<1>11. AllBecome(With(B, n, B[n]))
  BY <1>2, <1>3, <1>8, <1>9, <1>10, ReadStep
<1>12. ParkedBecome(n, eng[n].parked \cup {new})
  BY <1>7, <1>8, ParkedIs
<1> QED BY <1>11, <1>12 DEF new

(* The end of a task, of which the engine makes f.                         *)
LEMMA HearStep ==
    ASSUME NEW B, All(B), NEW n \in Pods, queue[n] # <<>>, Head(queue[n]).type \in IoTypes,
           DOMAIN task'[n] = DOMAIN task[n], NEW f, NEW c,
           NodeMoves(n, f, Tail(queue[n]), reported[n]), Context(n, reported[n], c),
           Good(n, f, InHand(queue[n], DOMAIN task[n]) \ {Head(queue[n]).id}, reported[n], c),
           f.io = eng[n].io - 1, IsFiniteSet(f.parked), f.kernels = eng[n].kernels,
           f.fetching = eng[n].fetching, Progress(n, eng[n], reported[n], f, reported[n]),
           f.table \cup Done(f, reported[n]) = eng[n].table \cup Done(eng[n], reported[n])
    PROVE  AllBecome(With(B, n, c))
<1> DEFINE e == eng[n]
           q == queue[n]
           r == Tail(q)
           I == DOMAIN task[n]
           D == reported[n]
<1>1. PostOk(n, e, q, I) /\ IsQueue(q) /\ ShippedOk(n, e, q, shipped[n], D)
      /\ e.kernels \subseteq Leaves /\ e.fetching \subseteq Leaves
  BY NodeParts
<1>2. InHand(r, I) = InHand(q, I) \ {Head(q).id} /\ PostOk(n, f, r, I)
  <2>1. q # <<>> /\ Head(q).type \in IoTypes /\ f.io = e.io - 1
    OBVIOUS
  <2> HIDE DEF q, e, I
  <2> QED BY <1>1, <2>1, HeardOn
<1>3. ShippedOk(n, e, r, shipped[n], D)
  <2>1. Head(q).type # "Issue"
    BY DEF IoTypes
  <2> QED BY <1>1, <2>1, ReadShipped
<1>4. ShippedOk(n, f, r, shipped[n], D)
  <2> HIDE DEF r
  <2> QED BY <1>3, SameShipped
<1>5. NodeMoves(n, f, r, D)
  OBVIOUS
<1> HIDE DEF r
<1>6. NodeOk(n, f, r, I, D, c)
  BY <1>1, <1>2, <1>4 DEF NodeOk
<1> QED BY <1>5, <1>6, NodeSteps

(* What the engine knows of the task that ended.                           *)
LEMMA TaskEnded ==
    ASSUME NEW B, All(B), NEW n \in Pods, queue[n] # <<>>, Head(queue[n]).type \in IoTypes
    PROVE  LET id == Head(queue[n]).id
               e  == eng[n]
               g  == Ended(e)
               L  == InHand(queue[n], DOMAIN task[n])
           IN /\ id \in L /\ Code(n, id).op \in {"load", "fetch", "store"}
              /\ id \in e.table /\ id \in AllIds(n)
              /\ IsEngine(g) /\ SameBut(e, g, {"io"}) /\ g.io = e.io - 1
              /\ Good(n, g, L, reported[n], B[n])
              /\ Progress(n, e, reported[n], g, reported[n])
              /\ g.table \cup Done(g, reported[n]) = e.table \cup Done(e, reported[n])
<1> DEFINE id == Head(queue[n]).id
           e  == eng[n]
           g  == Ended(e)
           L  == InHand(queue[n], DOMAIN task[n])
           D  == reported[n]
<1>1. PostOk(n, e, queue[n], DOMAIN task[n]) /\ Good(n, e, L, D, B[n])
  BY NodeParts
<1>2. id \in L /\ Code(n, id).op \in {"load", "fetch", "store"}
  BY <1>1, HeardPost
<1>3. IsEngine(e) /\ InTable(n, e, L)
  BY <1>1 DEF Good, Orderly
<1>4. IsEngine(g) /\ SameBut(e, g, {"io"}) /\ g.io = e.io - 1
  BY <1>3 DEF IsEngine, SameBut, Fields, Ended
<1> HIDE DEF L, e, D, g, id
<1>5. id \in e.table /\ id \in AllIds(n)
  BY <1>2, <1>3 DEF InTable
<1>6. SameBut(e, g, Aside) /\ g.table = e.table /\ g.ready = e.ready
      /\ g.completions = e.completions
  BY <1>4 DEF SameBut, Aside, Fields
<1>7. Good(n, g, L, D, B[n])
  BY <1>1, <1>4, <1>6, AsideGood
<1>8. Done(g, D) = Done(e, D)
  BY <1>6 DEF Done
<1>9. Progress(n, e, D, g, D) /\ g.table \cup Done(g, D) = e.table \cup Done(e, D)
  BY <1>6, <1>8, SoItStays
<1> QED BY <1>2, <1>4, <1>5, <1>7, <1>9 DEF L, e, D, g, id

LEMMA OnIoFailedStep ==
    ASSUME NEW B, All(B), NEW n \in Pods, OnIoFailed(n)
    PROVE  AllBecome(With(B, n, B[n])) /\ SameParked
<1> DEFINE e    == eng[n]
           id   == Head(queue[n]).id
           g    == Ended(e)
           v    == [eng EXCEPT ![n] = g]
           more == failed[n] \cup {id}
           u    == [failed EXCEPT ![n] = more]
           L    == InHand(queue[n], DOMAIN task[n])
           D    == reported[n]
<1>1. /\ OnPods(eng) /\ OnPods(mem) /\ OnPods(task) /\ OnPods(kreq) /\ OnPods(failed)
      /\ \A m \in Pods : DOMAIN kreq[m] \subseteq Leaves
  BY AllParts
<1>2. /\ queue[n] # <<>> /\ Head(queue[n]).type = "IoFailed"
      /\ Wrote(queue, n, Tail(queue[n]), queue') /\ Wrote(reported, n, reported[n], reported')
      /\ UNCHANGED <<jobName, stream, shipped, reported>>
  <2>1. Handling(n, "IoFailed")
    BY DEF OnIoFailed
  <2> QED BY <2>1, Reading
<1>3. eng' = v /\ failed' = u /\ UNCHANGED <<mem, task, kreq>>
  BY DEF OnIoFailed
<1>4. Wrote(eng, n, g, v) /\ Wrote(failed, n, more, u)
  BY <1>1, OnPodsExcept
<1>5. Head(queue[n]).type \in IoTypes
  BY <1>2 DEF IoTypes
<1>6. /\ id \in AllIds(n) /\ IsEngine(g) /\ SameBut(e, g, {"io"}) /\ g.io = e.io - 1
      /\ Good(n, g, L, D, B[n]) /\ Progress(n, e, D, g, D)
      /\ g.table \cup Done(g, D) = e.table \cup Done(e, D)
  BY <1>2, <1>5, TaskEnded
<1>7. Context(n, D, B[n]) /\ failed[n] \subseteq AllIds(n) /\ IsFiniteSet(e.parked)
  BY NodeParts
<1> HIDE DEF g, u, L, D, v
<1>8. /\ g.kernels = e.kernels /\ g.fetching = e.fetching /\ g.parked = e.parked
  BY <1>6 DEF SameBut, Fields
<1>9. Good(n, g, L \ {id}, D, B[n])
  BY <1>6, FewerInHand
<1>10. NodeMoves(n, g, Tail(queue[n]), reported[n])
  BY <1>1, <1>2, <1>3, <1>4, <1>6, <1>7 DEF NodeMoves, Wrote
<1>11. AllBecome(With(B, n, B[n]))
  BY <1>2, <1>3, <1>5, <1>6, <1>7, <1>8, <1>9, <1>10, HearStep DEF L, D
<1>12. SameParked
  BY <1>8, <1>10, ParkedSame
<1> QED BY <1>11, <1>12

LEMMA OnStoreDoneStep ==
    ASSUME NEW B, All(B), NEW n \in Pods, OnStoreDone(n)
    PROVE  AllBecome(With(B, n, B[n])) /\ SameParked
<1> DEFINE e == eng[n]
           id == Head(queue[n]).id
           g == Ended(e)
           f == Complete(n, g, id)
           v == [eng EXCEPT ![n] = f]
           L == InHand(queue[n], DOMAIN task[n])
           D == reported[n]
<1>1. /\ OnPods(eng) /\ OnPods(mem) /\ OnPods(task) /\ OnPods(kreq) /\ OnPods(failed)
      /\ \A m \in Pods : DOMAIN kreq[m] \subseteq Leaves
  BY AllParts
<1>2. /\ queue[n] # <<>> /\ Head(queue[n]).type = "StoreDone"
      /\ Wrote(queue, n, Tail(queue[n]), queue') /\ Wrote(reported, n, reported[n], reported')
      /\ UNCHANGED <<jobName, stream, shipped, reported>>
  <2>1. Handling(n, "StoreDone")
    BY DEF OnStoreDone
  <2> QED BY <2>1, Reading
<1>3. eng' = v /\ UNCHANGED <<mem, task, kreq, failed>>
  BY DEF OnStoreDone
<1>4. Wrote(eng, n, f, v)
  BY <1>1, OnPodsExcept
<1>5. Head(queue[n]).type \in IoTypes
  BY <1>2 DEF IoTypes
<1>6. /\ id \in L /\ Code(n, id).op \in {"load", "fetch", "store"}
      /\ SameBut(e, g, {"io"}) /\ g.io = e.io - 1
      /\ Good(n, g, L, D, B[n]) /\ Progress(n, e, D, g, D)
      /\ g.table \cup Done(g, D) = e.table \cup Done(e, D)
  BY <1>2, <1>5, TaskEnded
<1>7. Context(n, D, B[n]) /\ failed[n] \subseteq AllIds(n) /\ IsFiniteSet(e.parked)
  BY NodeParts
<1> HIDE DEF g, L, D, v, id
<1>8. /\ g.kernels = e.kernels /\ g.fetching = e.fetching /\ g.parked = e.parked
  BY <1>6 DEF SameBut, Fields
<1>9. Good(n, f, L \ {id}, D, B[n]) /\ Moves(n, g, f)
  <2>1. Orderly(n, g, L, D)
    BY <1>6 DEF Good
  <2>2. Moves(n, g, f)
    BY <1>6, <1>7, <2>1, CompleteOrderly
  <2> QED BY <1>6, <1>7, <2>2, CompleteStocked
<1> HIDE DEF f
<1>10. \A x \in {"io", "kernels", "fetching", "parked"} : f[x] = g[x]
  BY <1>9 DEF Moves, Kept
<1>11. Progress(n, e, D, f, D) /\ f.table \cup Done(f, D) = e.table \cup Done(e, D)
  <2>1. Progress(n, g, D, f, D) /\ SameIds(g, D, f)
    BY <1>9, SoItMoves
  <2>2. Progress(n, e, D, f, D)
    BY <1>6, <2>1, ProgressOn
  <2> QED BY <1>6, <2>1, <2>2 DEF SameIds
<1>12. NodeMoves(n, f, Tail(queue[n]), reported[n])
  BY <1>1, <1>2, <1>3, <1>4, <1>7 DEF NodeMoves
<1>13. AllBecome(With(B, n, B[n]))
  BY <1>2, <1>3, <1>5, <1>6, <1>7, <1>8, <1>9, <1>10, <1>11, <1>12, HearStep DEF L, D, id
<1>14. SameParked
  BY <1>8, <1>10, <1>12, ParkedSame
<1> QED BY <1>13, <1>14

(* A tile comes to be resident, and what filled it is complete.            *)
FilledIn(n, e, id, tile, L, D, B, f) ==
    LET c == More(B, tile, Cardinality(Waiters(e, tile)))
    IN /\ Context(n, D, c) /\ Good(n, f, L \ {id}, D, c)
       /\ f.io = e.io /\ f.kernels = e.kernels /\ f.fetching = e.fetching
       /\ f.parked = e.parked \ Waiters(e, tile)
       /\ Progress(n, e, D, f, D) /\ SameIds(e, D, f)

LEMMA FillsIn ==
    ASSUME NEW n, NEW D, NEW B, Context(n, D, B), NEW e, NEW L, Good(n, e, L, D, B),
           NEW id \in L, Code(n, id).op \notin {"alloc", "free"}, NEW tile, IsFiniteSet(e.parked)
    PROVE  FilledIn(n, e, id, tile, L, D, B, Complete(n, OnResident(n, e, tile), id))
<1> DEFINE k == Cardinality(Waiters(e, tile))
           c == More(B, tile, k)
           h == OnResident(n, e, tile)
           f == Complete(n, h, id)
<1>1. k \in Nat
  <2>1. Waiters(e, tile) \subseteq e.parked
    BY DEF Waiters
  <2> QED BY <2>1, FS_Subset, FS_CardinalityType
<1>2. ResidentAfter(n, e, tile, h, L, D, B)
  BY <1>1, OnResidentGood
<1> HIDE DEF h
<1>3. Context(n, D, c)
  BY <1>1, MoreIs
<1>4. /\ Good(n, h, L, D, c) /\ h.table \subseteq e.table
      /\ h.completions \cup h.table = e.completions \cup e.table
      /\ \A i \in ToSet(h.ready) : i \in ToSet(e.ready) \/ Code(n, i).deps \cap e.table # {}
      /\ h.parked = e.parked \ Waiters(e, tile)
      /\ \A x \in Kept \ {"parked"} : h[x] = e[x]
  BY <1>2 DEF ResidentAfter
<1> HIDE DEF c, k
<1>5. Progress(n, e, D, h, D) /\ SameIds(e, D, h)
  <2>1. h.table \cup Done(h, D) = e.table \cup Done(e, D)
    BY <1>4 DEF Done
  <2> QED BY <1>4, <2>1 DEF Progress, Issued, SameIds
<1>6. Good(n, f, L \ {id}, D, c) /\ Moves(n, h, f)
  <2>1. Orderly(n, h, L, D)
    BY <1>4 DEF Good
  <2>2. Moves(n, h, f)
    BY <1>3, <2>1, CompleteOrderly
  <2> QED BY <1>3, <1>4, <2>2, CompleteStocked
<1> HIDE DEF f
<1>7. Progress(n, h, D, f, D) /\ SameIds(h, D, f)
  BY <1>6, SoItMoves
<1>8. Progress(n, e, D, f, D) /\ SameIds(e, D, f)
  <2>1. Progress(n, e, D, f, D)
    BY <1>5, <1>7, ProgressOn
  <2> QED BY <1>5, <1>7, <2>1 DEF SameIds
<1>9. \A x \in Kept : f[x] = h[x]
  BY <1>6 DEF Moves
<1>10. f.io = e.io /\ f.kernels = e.kernels /\ f.fetching = e.fetching
       /\ f.parked = e.parked \ Waiters(e, tile)
  BY <1>4, <1>9 DEF Kept
<1>11. FilledIn(n, e, id, tile, L, D, B, f)
  BY <1>3, <1>6, <1>8, <1>10 DEF FilledIn, c, k
<1> QED BY <1>11 DEF f, h

LEMMA OnIoDoneStep ==
    ASSUME NEW B, All(B), NEW n \in Pods, OnIoDone(n)
    PROVE  LET tile == Head(queue[n]).id[2]
           IN /\ AllBecome(With(B, n, More(B[n], tile, Cardinality(Waiters(eng[n], tile)))))
              /\ ParkedBecome(n, eng[n].parked \ Waiters(eng[n], tile))
<1> DEFINE e == eng[n]
           id == Head(queue[n]).id
           tile == id[2]
           g == Ended(e)
           f == Complete(n, OnResident(n, g, tile), id)
           v == [eng EXCEPT ![n] = f]
           L == InHand(queue[n], DOMAIN task[n])
           D == reported[n]
           c == More(B[n], tile, Cardinality(Waiters(g, tile)))
           data == Head(queue[n]).data
           W == Waiters(e, tile)
<1>1. /\ OnPods(eng) /\ OnPods(mem) /\ OnPods(kreq) /\ OnPods(failed)
      /\ \A m \in Pods : DOMAIN kreq[m] \subseteq Leaves
  BY AllParts
<1>2. /\ queue[n] # <<>> /\ Head(queue[n]).type = "IoDone"
      /\ Wrote(queue, n, Tail(queue[n]), queue') /\ Wrote(reported, n, reported[n], reported')
      /\ UNCHANGED <<jobName, stream, shipped, reported>>
  <2>1. Handling(n, "IoDone")
    BY DEF OnIoDone
  <2> QED BY <2>1, Reading
<1>3. /\ eng' = v /\ Reply(W, data) /\ UNCHANGED <<kreq, failed>>
      /\ mem' = [mem EXCEPT ![n] = Put(@, eng[n].tiles[tile].addr, data)]
  BY DEF OnIoDone
<1>4. Wrote(eng, n, f, v) /\ OnPods(mem')
  <2>1. Wrote(eng, n, f, v)
    BY <1>1, OnPodsExcept
  <2>2. OnPods(mem')
    BY <1>1, <1>3 DEF OnPods, IsMap
  <2> QED BY <2>1, <2>2
<1>5. Head(queue[n]).type \in IoTypes
  BY <1>2 DEF IoTypes
<1>6. /\ id \in L /\ Code(n, id).op \in {"load", "fetch", "store"}
      /\ SameBut(e, g, {"io"}) /\ g.io = e.io - 1
      /\ Good(n, g, L, D, B[n]) /\ Progress(n, e, D, g, D)
      /\ g.table \cup Done(g, D) = e.table \cup Done(e, D)
  BY <1>2, <1>5, TaskEnded
<1>7. Context(n, D, B[n]) /\ failed[n] \subseteq AllIds(n) /\ IsFiniteSet(e.parked)
  BY NodeParts
<1>8. OnPods(task') /\ \A m \in Pods : DOMAIN task'[m] = DOMAIN task[m]
  BY <1>3, ReplyKeeps
<1> HIDE DEF g, L, D, v, id, W, data
<1>9. /\ g.kernels = e.kernels /\ g.fetching = e.fetching /\ g.parked = e.parked
  BY <1>6 DEF SameBut, Fields
<1> HIDE DEF tile
<1>10. FilledIn(n, g, id, tile, L, D, B[n], f)
  BY <1>6, <1>7, <1>9, FillsIn
<1> HIDE DEF f
<1>11. /\ Context(n, D, c) /\ Good(n, f, L \ {id}, D, c)
       /\ f.io = g.io /\ f.kernels = g.kernels /\ f.fetching = g.fetching
       /\ f.parked = g.parked \ Waiters(g, tile)
       /\ Progress(n, g, D, f, D) /\ SameIds(g, D, f)
  BY <1>10 DEF FilledIn
<1> HIDE DEF c
<1>12. Progress(n, e, D, f, D) /\ f.table \cup Done(f, D) = e.table \cup Done(e, D)
  <2>1. Progress(n, e, D, f, D)
    BY <1>6, <1>11, ProgressOn
  <2> QED BY <1>6, <1>11, <2>1 DEF SameIds
<1>13. IsFiniteSet(f.parked)
  BY <1>7, <1>9, <1>11, FS_Subset
<1>14. NodeMoves(n, f, Tail(queue[n]), reported[n])
  BY <1>1, <1>2, <1>3, <1>4, <1>7, <1>8 DEF NodeMoves
<1>15. AllBecome(With(B, n, c))
  <2>1. Good(n, f, InHand(queue[n], DOMAIN task[n]) \ {Head(queue[n]).id}, reported[n], c)
    BY <1>11 DEF L, D, id
  <2>2. DOMAIN task'[n] = DOMAIN task[n] /\ Context(n, reported[n], c)
    BY <1>8, <1>11 DEF D
  <2>3. f.io = eng[n].io - 1 /\ f.kernels = eng[n].kernels /\ f.fetching = eng[n].fetching
    BY <1>6, <1>9, <1>11
  <2>4. Progress(n, eng[n], reported[n], f, reported[n])
        /\ f.table \cup Done(f, reported[n]) = eng[n].table \cup Done(eng[n], reported[n])
    BY <1>12 DEF D
  <2> QED BY <1>2, <1>5, <1>13, <1>14, <2>1, <2>2, <2>3, <2>4, HearStep
<1>16. Waiters(g, tile) = Waiters(e, tile)
  BY <1>9 DEF Waiters
<1>17. ParkedBecome(n, eng[n].parked \ Waiters(eng[n], tile))
  BY <1>9, <1>11, <1>14, <1>16, ParkedIs
<1> QED BY <1>15, <1>16, <1>17 DEF c, tile, id

LEMMA OnIssueStep ==
    ASSUME NEW B, All(B), NEW n \in Pods, OnIssue(n)
    PROVE  AllBecome(With(B, n, B[n])) /\ SameParked
<1> DEFINE e   == eng[n]
           q   == queue[n]
           r   == Tail(q)
           seg == Head(q).seg
           ids == SegIds(n, seg)
           f   == Extended(n, e, ids)
           v   == [eng EXCEPT ![n] = f]
           I   == DOMAIN task[n]
           D   == reported[n]
           k   == shipped[n]
           H   == Handled(q, k)
<1>1. /\ OnPods(eng) /\ OnPods(mem) /\ OnPods(task) /\ OnPods(kreq) /\ OnPods(failed)
      /\ \A m \in Pods : DOMAIN kreq[m] \subseteq Leaves
  BY AllParts
<1>2. /\ q # <<>> /\ Head(q).type = "Issue" /\ Wrote(queue, n, r, queue')
      /\ Wrote(reported, n, D, reported') /\ UNCHANGED <<jobName, stream, shipped, reported>>
  <2>1. Handling(n, "Issue")
    BY DEF OnIssue
  <2> QED BY <2>1, Reading
<1>3. eng' = v /\ UNCHANGED <<mem, task, kreq, failed>>
  BY DEF OnIssue, Extended, SegIds
<1>4. Wrote(eng, n, f, v)
  BY <1>1, OnPodsExcept
<1>5. /\ Context(n, D, B[n]) /\ Good(n, e, InHand(q, I), D, B[n])
      /\ PostOk(n, e, q, I) /\ IsQueue(q) /\ IsFiniteSet(e.parked) /\ e.kernels \subseteq Leaves
      /\ e.fetching \subseteq Leaves /\ ShippedOk(n, e, q, k, D) /\ failed[n] \subseteq AllIds(n)
  BY NodeParts
<1>6. PostOk(n, e, r, I) /\ InHand(r, I) = InHand(q, I)
  <2>1. Head(q).type \notin IoTypes
    BY <1>2 DEF IoTypes
  <2> HIDE DEF q, e, I
  <2> QED BY <1>2, <1>5, <2>1, ReadPost
<1>7. /\ Len(Segs(n)) \in Nat
      /\ \A s \in 1..Len(Segs(n)) :
            /\ ListOf(n, SegIds(n, s))
            /\ \A p \in 1..s - 1 : ToSet(SegIds(n, p)) \cap ToSet(SegIds(n, s)) = {}
            /\ \A id \in ToSet(SegIds(n, s)) :
                    Code(n, id).deps \subseteq UNION {ToSet(SegIds(n, p)) : p \in 1..s}
  BY <1>5, SegsIs
<1>8. /\ k \in 0..Len(Segs(n)) /\ IssuesOk(q, k)
      /\ e.table \cup Done(e, D) = UNION {ToSet(SegIds(n, s)) : s \in H}
  BY <1>5 DEF ShippedOk
<1>9. k \in Nat /\ 1..k \subseteq 1..Len(Segs(n))
  BY <1>7, <1>8
<1>10. /\ IssuesOk(r, k) /\ Handled(r, k) = H \cup {seg} /\ seg \in 1..k /\ seg \notin H
       /\ \A s \in 1..k : s < seg => s \in H
       /\ \A s \in H : s < seg
  BY <1>2, <1>5, <1>8, <1>9, ShiftIssue
<1>11. H \subseteq 1..k
  BY DEF Handled
<1>12. ListOf(n, ids)
  BY <1>7, <1>9, <1>10
<1> HIDE DEF r, k, H, q, I, D, e, v, f
<1>13. ToSet(ids) \cap (e.table \cup Done(e, D)) = {}
  <2>1. ASSUME NEW s \in H PROVE ToSet(SegIds(n, s)) \cap ToSet(ids) = {}
    <3>1. seg \in 1..Len(Segs(n)) /\ s \in 1..k /\ s < seg
      BY <1>9, <1>10, <1>11
    <3>2. s \in 1..seg - 1
      BY <1>9, <1>10, <3>1
    <3> QED BY <1>7, <3>1, <3>2
  <2> HIDE DEF ids
  <2> QED BY <1>8, <2>1
<1>14. \A id \in ToSet(ids) : Code(n, id).deps \subseteq e.table \cup ToSet(ids) \cup Done(e, D)
  <2>1. ASSUME NEW p \in 1..seg PROVE ToSet(SegIds(n, p)) \subseteq e.table \cup ToSet(ids) \cup Done(e, D)
    <3>1. seg \in Nat /\ p \in 1..k
      BY <1>9, <1>10
    <3>2. p = seg \/ p < seg
      BY <3>1
    <3>3. CASE p < seg
      <4>1. p \in H
        BY <1>10, <3>1, <3>3
      <4> HIDE DEF ids
      <4> QED BY <1>8, <4>1
    <3> QED BY <3>2, <3>3
  <2>2. \A id \in ToSet(ids) : Code(n, id).deps \subseteq UNION {ToSet(SegIds(n, p)) : p \in 1..seg}
    BY <1>7, <1>9, <1>10
  <2> HIDE DEF ids
  <2> QED BY <2>1, <2>2
<1>15. /\ Good(n, f, InHand(q, I), D, B[n]) /\ f.io = e.io /\ f.kernels = e.kernels
       /\ f.fetching = e.fetching /\ f.parked = e.parked
       /\ f.table = e.table \cup ToSet(ids) /\ f.completions = e.completions
       /\ ToSet(f.ready) \subseteq ToSet(e.ready) \cup ToSet(ids)
  <2> HIDE DEF ids
  <2> QED BY <1>5, <1>12, <1>13, <1>14, ExtendedGood DEF f
<1>16. Progress(n, e, D, f, D)
  <2> SUFFICES ASSUME NEW id \in AllIds(n), Issued(n, e, D, id) PROVE Issued(n, f, D, id)
    BY DEF Progress
  <2>1. id \in e.table \cup Done(e, D) /\ id \notin ToSet(e.ready)
        /\ Code(n, id).deps \cap e.table = {}
    BY DEF Issued
  <2>2. Done(f, D) = Done(e, D)
    BY <1>15 DEF Done
  <2>3. id \notin ToSet(ids)
    BY <1>13, <2>1
  <2>4. Code(n, id).deps \subseteq e.table \cup Done(e, D)
    <3>1. DepsOk(n, e, InHand(q, I), D)
      BY <1>5 DEF Good, Orderly
    <3>2. CASE id \in e.table
      BY <3>1, <3>2 DEF DepsOk
    <3>3. CASE id \in Done(e, D)
      <4>1. PICK s \in H : id \in ToSet(SegIds(n, s))
        BY <1>8, <3>3
      <4>2. s \in 1..k /\ s < seg /\ s \in 1..Len(Segs(n)) /\ seg \in 1..k
        BY <1>9, <1>10, <1>11
      <4>3. Code(n, id).deps \subseteq UNION {ToSet(SegIds(n, p)) : p \in 1..s}
        BY <1>7, <4>1, <4>2
      <4>4. \A p \in 1..s : p \in H
        BY <1>9, <1>10, <4>2
      <4> QED BY <1>8, <4>3, <4>4
    <3> QED BY <2>1, <3>2, <3>3
  <2>5. Code(n, id).deps \cap ToSet(ids) = {}
    BY <1>13, <2>4
  <2> HIDE DEF ids
  <2> QED BY <1>15, <2>1, <2>2, <2>3, <2>5 DEF Issued
<1>17. ShippedOk(n, f, r, k, D)
  <2>1. Done(f, D) = Done(e, D)
    BY <1>15 DEF Done
  <2>2. f.table \cup Done(f, D) = UNION {ToSet(SegIds(n, s)) : s \in H \cup {seg}}
    BY <1>8, <1>15, <2>1
  <2> QED BY <1>8, <1>10, <2>2 DEF ShippedOk
<1>18. NodeOk(n, f, r, I, D, B[n])
  <2>1. PostOk(n, f, r, I)
    BY <1>6, <1>15, SamePost
  <2> QED BY <1>5, <1>6, <1>15, <1>16, <1>17, <2>1 DEF NodeOk, k, e, D
<1>19. NodeMoves(n, f, r, D)
  BY <1>1, <1>2, <1>3, <1>4, <1>5 DEF NodeMoves
<1>20. AllBecome(With(B, n, B[n]))
  BY <1>3, <1>18, <1>19, NodeSteps DEF I
<1>21. SameParked
  BY <1>15, <1>19, ParkedSame DEF e
<1> QED BY <1>20, <1>21

-----------------------------------------------------------------------------
(* Polling and issuing *)

LEMMA WorkStep ==
    ASSUME NEW B, All(B), NEW n \in Pods, DOMAIN task'[n] = DOMAIN task[n], NEW f, NEW c,
           NodeMoves(n, f, queue[n], reported[n]),
           Reads(n, eng[n], InHand(queue[n], DOMAIN task[n]), reported[n], f, c)
    PROVE  AllBecome(With(B, n, c))
<1> DEFINE e == eng[n]
           q == queue[n]
           I == DOMAIN task[n]
           D == reported[n]
<1>1. PostOk(n, e, q, I) /\ ShippedOk(n, e, q, shipped[n], D)
  BY NodeParts
<1>2. PostOk(n, f, q, I) /\ ShippedOk(n, f, q, shipped[n], D)
  BY <1>1, SamePost, SameShipped DEF Reads
<1>3. NodeOk(n, f, q, I, D, c)
  BY <1>2 DEF NodeOk, Reads
<1> QED BY <1>3, NodeSteps

LEMMA PollStep ==
    ASSUME NEW B, All(B), NEW n \in Pods, NEW id, Poll(n, id)
    PROVE  /\ AllBecome(With(B, n, More(B[n], id[2], Cardinality(Waiters(eng[n], id[2])))))
           /\ ParkedBecome(n, eng[n].parked \ Waiters(eng[n], id[2]))
<1> DEFINE e    == eng[n]
           tile == id[2]
           g    == Polled(e, id)
           f    == Complete(n, OnResident(n, g, tile), id)
           v    == [eng EXCEPT ![n] = f]
           L    == InHand(queue[n], DOMAIN task[n])
           D    == reported[n]
           c    == More(B[n], tile, Cardinality(Waiters(g, tile)))
           W    == Waiters(g, tile)
<1>1. /\ OnPods(queue) /\ OnPods(eng) /\ OnPods(mem) /\ OnPods(kreq) /\ OnPods(failed)
      /\ OnPods(reported) /\ \A m \in Pods : DOMAIN kreq[m] \subseteq Leaves
  BY AllParts
<1>2. /\ id \in e.finished /\ eng' = v /\ Reply(W, At(n, g.tiles[tile].addr))
      /\ UNCHANGED <<queue, mem, kreq, failed, reported, jobName, stream, shipped>>
  BY DEF Poll, Polled, shipVars, outVars
<1>3. Wrote(eng, n, f, v) /\ Wrote(queue, n, queue[n], queue) /\ Wrote(reported, n, D, reported)
  BY <1>1, OnPodsExcept, NothingWrote
<1>4. Context(n, D, B[n]) /\ Good(n, e, L, D, B[n])
      /\ IsFiniteSet(e.parked) /\ e.kernels \subseteq Leaves /\ e.fetching \subseteq Leaves
      /\ failed[n] \subseteq AllIds(n)
  BY NodeParts
<1>5. OnPods(task') /\ \A m \in Pods : DOMAIN task'[m] = DOMAIN task[m]
  BY <1>2, ReplyKeeps
<1> HIDE DEF v, L, D, e, W, tile
<1>6. /\ Good(n, g, L \cup {id}, D, B[n]) /\ g.io = e.io /\ g.kernels = e.kernels
      /\ g.fetching = e.fetching /\ g.parked = e.parked
      /\ g.table = e.table /\ g.completions = e.completions /\ g.ready = e.ready
      /\ Code(n, id).op = "compute" /\ id \notin L
  BY <1>2, <1>4, PolledGood
<1> HIDE DEF g
<1>7. FilledIn(n, g, id, tile, L \cup {id}, D, B[n], f)
  <2>1. id \in L \cup {id} /\ Code(n, id).op \notin {"alloc", "free"}
    BY <1>6
  <2> QED BY <1>4, <1>6, <2>1, FillsIn
<1> HIDE DEF f
<1>8. /\ Context(n, D, c) /\ Good(n, f, (L \cup {id}) \ {id}, D, c)
      /\ f.io = g.io /\ f.kernels = g.kernels /\ f.fetching = g.fetching
      /\ f.parked = g.parked \ Waiters(g, tile)
      /\ Progress(n, g, D, f, D) /\ SameIds(g, D, f)
  BY <1>7 DEF FilledIn
<1> HIDE DEF c
<1>9. (L \cup {id}) \ {id} = L
  BY <1>6
<1>10. Progress(n, e, D, g, D) /\ g.table \cup Done(g, D) = e.table \cup Done(e, D)
  <2>1. Done(g, D) = Done(e, D)
    BY <1>6 DEF Done
  <2> QED BY <1>6, <2>1, SoItStays
<1>11. Progress(n, e, D, f, D) /\ f.table \cup Done(f, D) = e.table \cup Done(e, D)
  <2>1. Progress(n, e, D, f, D)
    BY <1>8, <1>10, ProgressOn
  <2> QED BY <1>8, <1>10, <2>1 DEF SameIds
<1>12. IsFiniteSet(f.parked)
  BY <1>4, <1>6, <1>8, FS_Subset
<1>13. Reads(n, e, L, D, f, c)
  BY <1>4, <1>6, <1>8, <1>9, <1>11, <1>12 DEF Reads
<1>14. NodeMoves(n, f, queue[n], reported[n])
  BY <1>1, <1>2, <1>3, <1>4, <1>5 DEF NodeMoves, D
<1>15. AllBecome(With(B, n, c))
  BY <1>5, <1>13, <1>14, WorkStep DEF e, L, D
<1>16. Waiters(g, tile) = Waiters(e, tile)
  BY <1>6 DEF Waiters
<1>17. ParkedBecome(n, e.parked \ Waiters(e, tile))
  BY <1>6, <1>8, <1>14, <1>16, ParkedIs
<1> QED BY <1>15, <1>16, <1>17 DEF c, tile, e

LEMMA Working ==
    ASSUME NEW B, All(B), NEW n \in Pods, NEW ops, Issuing(n, ops)
    PROVE  /\ eng[n].ready # <<>> /\ Head(eng[n].ready) \in eng[n].table
           /\ Code(n, Head(eng[n].ready)).op \in ops /\ Popped(n) = Taken(eng[n])
           /\ Wrote(queue, n, queue[n], queue') /\ Wrote(reported, n, reported[n], reported')
           /\ UNCHANGED <<queue, mem, jobName, stream, shipped, reported>>
<1>1. OnPods(queue) /\ OnPods(reported)
  BY AllParts
<1>2. Wrote(queue, n, queue[n], queue) /\ Wrote(reported, n, reported[n], reported)
  BY <1>1, NothingWrote
<1>3. /\ eng[n].ready # <<>> /\ Head(eng[n].ready) \in eng[n].table
      /\ Code(n, Head(eng[n].ready)).op \in ops
      /\ UNCHANGED <<queue, mem, jobName, stream, shipped, reported>>
  BY DEF Issuing, shipVars
<1> QED BY <1>2, <1>3 DEF Popped, Taken

(* Taking the next instruction from the queue is no step back.             *)
LEMMA TakenMoves ==
    ASSUME NEW n, NEW D, NEW B, NEW e, NEW L, Good(n, e, L, D, B), e.ready # <<>>
    PROVE  /\ Progress(n, e, D, Taken(e), D) /\ SameIds(e, D, Taken(e))
           /\ \A x \in Aside : Taken(e)[x] = e[x]
<1> DEFINE f == Taken(e)
<1>1. IsTaken(n, e, L, f)
  BY TakenIs
<1>2. ToSet(e.ready) = {Head(e.ready)} \cup ToSet(Tail(e.ready))
  BY HeadPlaced
<1> HIDE DEF f
<1>3. /\ f.ready = Tail(e.ready) /\ f.table = e.table /\ f.completions = e.completions
      /\ \A x \in Aside : f[x] = e[x]
  BY <1>1 DEF IsTaken, SameStore, Aside
<1>4. Done(f, D) = Done(e, D)
  BY <1>3 DEF Done
<1>5. \A id \in ToSet(f.ready) : id \in ToSet(e.ready) \/ Code(n, id).op # "fetch"
  BY <1>2, <1>3
<1>6. Progress(n, e, D, f, D) /\ f.table \cup Done(f, D) = e.table \cup Done(e, D)
  BY <1>3, <1>4, <1>5, SoItStays
<1>7. Progress(n, e, D, f, D) /\ SameIds(e, D, f) /\ \A x \in Aside : f[x] = e[x]
  BY <1>3, <1>6 DEF SameIds
<1> QED BY <1>7 DEF f

(* An instruction issued, when nothing but the engine changes.             *)
LEMMA IssueStep ==
    ASSUME NEW B, All(B), NEW n \in Pods, NEW ops, Issuing(n, ops),
           UNCHANGED task, OnPods(kreq'), \A m \in Pods : DOMAIN kreq'[m] \subseteq Leaves,
           OnPods(failed'), failed'[n] \subseteq AllIds(n),
           \A m \in Pods \ {n} : failed'[m] = failed[m],
           NEW f, eng' = [eng EXCEPT ![n] = f], f.parked = eng[n].parked,
           Reads(n, eng[n], InHand(queue[n], DOMAIN task[n]), reported[n], f, B[n])
    PROVE  AllBecome(With(B, n, B[n])) /\ SameParked
<1> DEFINE v == [eng EXCEPT ![n] = f]
<1>1. OnPods(eng) /\ OnPods(mem) /\ OnPods(task)
  BY AllParts
<1>2. /\ Wrote(queue, n, queue[n], queue') /\ Wrote(reported, n, reported[n], reported')
      /\ UNCHANGED <<queue, mem, jobName, stream, shipped, reported>>
  BY Working
<1>3. eng' = v
  OBVIOUS
<1>4. Wrote(eng, n, f, v)
  BY <1>1, OnPodsExcept
<1> HIDE DEF v
<1>5. NodeMoves(n, f, queue[n], reported[n])
  BY <1>1, <1>2, <1>3, <1>4 DEF NodeMoves
<1>6. DOMAIN task'[n] = DOMAIN task[n]
  OBVIOUS
<1>7. AllBecome(With(B, n, B[n]))
  BY <1>5, <1>6, WorkStep
<1>8. SameParked
  BY <1>5, ParkedSame
<1> QED BY <1>7, <1>8

LEMMA IssueAllocStep ==
    ASSUME NEW B, All(B), NEW n \in Pods, IssueAlloc(n)
    PROVE  AllBecome(With(B, n, B[n])) /\ SameParked
<1> DEFINE e == eng[n]
           L == InHand(queue[n], DOMAIN task[n])
           D == reported[n]
           g == Taken(e)
           f == TryAlloc(n, g, Head(e.ready))
<1>1. /\ OnPods(kreq) /\ OnPods(failed) /\ \A m \in Pods : DOMAIN kreq[m] \subseteq Leaves
  BY AllParts
<1>2. Context(n, D, B[n]) /\ Good(n, e, L, D, B[n]) /\ IsFiniteSet(e.parked)
      /\ e.kernels \subseteq Leaves /\ e.fetching \subseteq Leaves /\ failed[n] \subseteq AllIds(n)
  BY NodeParts
<1>3. Issuing(n, {"alloc"}) /\ UNCHANGED <<task, kreq, failed>>
  BY DEF IssueAlloc
<1>4. e.ready # <<>> /\ Code(n, Head(e.ready)).op = "alloc" /\ Popped(n) = g
  BY <1>3, Working
<1>5. eng' = [eng EXCEPT ![n] = f]
  BY <1>4 DEF IssueAlloc
<1> HIDE DEF L, D, e
<1>6. Good(n, f, L, D, B[n]) /\ Moves(n, g, f)
  BY <1>2, <1>4, IssueAllocGood
<1>7. Progress(n, e, D, g, D) /\ SameIds(e, D, g) /\ \A x \in Aside : g[x] = e[x]
  BY <1>2, <1>4, TakenMoves
<1> HIDE DEF g, f
<1>8. Progress(n, g, D, f, D) /\ SameIds(g, D, f)
  BY <1>6, SoItMoves
<1>9. \A x \in Aside : f[x] = e[x]
  BY <1>6, <1>7 DEF Moves, Kept, Aside
<1>10. Reads(n, e, L, D, f, B[n])
  <2>1. Progress(n, e, D, f, D)
    BY <1>7, <1>8, ProgressOn
  <2> QED BY <1>2, <1>6, <1>7, <1>8, <1>9, <2>1 DEF Reads, SameIds, Aside
<1>11. f.parked = eng[n].parked
  BY <1>9 DEF e, Aside
<1> QED BY <1>1, <1>2, <1>3, <1>5, <1>10, <1>11, IssueStep DEF e, L, D

LEMMA IssueFreeStep ==
    ASSUME NEW B, All(B), NEW n \in Pods, IssueFree(n)
    PROVE  AllBecome(With(B, n, B[n])) /\ SameParked
<1> DEFINE e == eng[n]
           L == InHand(queue[n], DOMAIN task[n])
           D == reported[n]
           g == TryFree(n, Expecting(n, e), Head(e.ready))
           h == RetryAllocs(n, g)
<1>1. /\ OnPods(kreq) /\ OnPods(failed) /\ \A m \in Pods : DOMAIN kreq[m] \subseteq Leaves
  BY AllParts
<1>2. Context(n, D, B[n]) /\ Good(n, e, L, D, B[n]) /\ IsFiniteSet(e.parked)
      /\ e.kernels \subseteq Leaves /\ e.fetching \subseteq Leaves /\ failed[n] \subseteq AllIds(n)
  BY NodeParts
<1>3. Issuing(n, {"free"}) /\ UNCHANGED <<task, kreq, failed>>
  BY DEF IssueFree
<1>4. e.ready # <<>> /\ Code(n, Head(e.ready)).op = "free" /\ Popped(n) = Taken(e)
  BY <1>3, Working
<1>5. \E f \in {g, h} : eng' = [eng EXCEPT ![n] = f]
  BY <1>4 DEF IssueFree, Expecting
<1> HIDE DEF L, D, e
<1>6. Good(n, g, L, D, B[n]) /\ Moves(n, e, g) /\ Good(n, h, L, D, B[n]) /\ Moves(n, e, h)
  BY <1>2, <1>4, IssueFreeGood
<1> HIDE DEF g, h
<1>7. PICK f \in {g, h} : eng' = [eng EXCEPT ![n] = f]
  BY <1>5
<1>8. Good(n, f, L, D, B[n]) /\ Moves(n, e, f)
  BY <1>6
<1>9. Progress(n, e, D, f, D) /\ SameIds(e, D, f)
  BY <1>8, SoItMoves
<1>10. \A x \in Aside : f[x] = e[x]
  BY <1>8 DEF Moves, Kept, Aside
<1>11. Reads(n, e, L, D, f, B[n])
  BY <1>2, <1>8, <1>9, <1>10 DEF Reads, SameIds, Aside
<1>12. f.parked = eng[n].parked
  BY <1>10 DEF e, Aside
<1> QED BY <1>1, <1>2, <1>3, <1>7, <1>11, <1>12, IssueStep DEF e, L, D

LEMMA LaunchStep ==
    ASSUME NEW B, All(B), NEW n \in Pods, Launch(n)
    PROVE  AllBecome(With(B, n, B[n])) /\ SameParked
<1> DEFINE e == eng[n]
           L == InHand(queue[n], DOMAIN task[n])
           D == reported[n]
           args  == Code(n, Head(e.ready)).args
           addrs == [a \in DOMAIN args |-> e.tiles[args[a].tile].addr]
           f == Launched(e, addrs)
<1>1. /\ OnPods(kreq) /\ OnPods(failed) /\ \A m \in Pods : DOMAIN kreq[m] \subseteq Leaves
  BY AllParts
<1>2. Context(n, D, B[n]) /\ Good(n, e, L, D, B[n]) /\ IsFiniteSet(e.parked)
      /\ e.kernels \subseteq Leaves /\ e.fetching \subseteq Leaves /\ failed[n] \subseteq AllIds(n)
  BY NodeParts
<1>3. Issuing(n, {"compute"}) /\ UNCHANGED <<task, kreq, failed>>
  BY DEF Launch
<1>4. e.ready # <<>> /\ Code(n, Head(e.ready)).op = "compute" /\ Popped(n) = Taken(e)
  BY <1>3, Working
<1>5. eng' = [eng EXCEPT ![n] = f]
  BY <1>4 DEF Launch, Launched
<1> HIDE DEF L, D, e, addrs
<1>6. /\ Good(n, f, L, D, B[n]) /\ f.io = e.io /\ f.kernels = e.kernels
      /\ f.fetching = e.fetching /\ f.parked = e.parked
      /\ f.table = e.table /\ f.completions = e.completions /\ f.ready = Tail(e.ready)
  BY <1>2, <1>4, LaunchGood
<1> HIDE DEF f
<1>7. Progress(n, e, D, f, D) /\ f.table \cup Done(f, D) = e.table \cup Done(e, D)
  <2>1. ToSet(e.ready) = {Head(e.ready)} \cup ToSet(Tail(e.ready))
    BY <1>2, <1>4, HeadPlaced
  <2>2. Done(f, D) = Done(e, D)
    BY <1>6 DEF Done
  <2> QED BY <1>6, <2>1, <2>2, SoItStays
<1>8. Reads(n, e, L, D, f, B[n])
  BY <1>2, <1>6, <1>7 DEF Reads
<1>9. f.parked = eng[n].parked
  BY <1>6 DEF e
<1> QED BY <1>1, <1>2, <1>3, <1>5, <1>8, <1>9, IssueStep DEF e, L, D

LEMMA AwaitKernelStep ==
    ASSUME NEW B, All(B), NEW n \in Pods, AwaitKernel(n)
    PROVE  AllBecome(With(B, n, B[n])) /\ SameParked
<1> DEFINE e == eng[n]
           L == InHand(queue[n], DOMAIN task[n])
           D == reported[n]
           id == Head(e.ready)
           leaf == Code(n, id).leaf
           f == Awaiting(e, leaf)
           asking == Put(kreq[n], leaf, "asking")
           more == failed[n] \cup {id}
<1>1. /\ OnPods(kreq) /\ OnPods(failed) /\ \A m \in Pods : DOMAIN kreq[m] \subseteq Leaves
  BY AllParts
<1>2. Context(n, D, B[n]) /\ Good(n, e, L, D, B[n]) /\ IsFiniteSet(e.parked)
      /\ e.kernels \subseteq Leaves /\ e.fetching \subseteq Leaves /\ failed[n] \subseteq AllIds(n)
  BY NodeParts
<1>3. Issuing(n, {"compute"}) /\ UNCHANGED task
  BY DEF AwaitKernel
<1>4. e.ready # <<>> /\ Code(n, id).op = "compute" /\ Popped(n) = Taken(e)
  BY <1>3, Working
<1>5. /\ eng' = [eng EXCEPT ![n] = f]
      /\ kreq' = kreq \/ kreq' = [kreq EXCEPT ![n] = asking]
      /\ failed' = failed \/ failed' = [failed EXCEPT ![n] = more]
  BY <1>4 DEF AwaitKernel, Awaiting
<1>6. id \in AllIds(n) /\ ToSet(e.ready) = {id} \cup ToSet(Tail(e.ready))
  BY <1>2, <1>4, HeadPlaced
<1>7. leaf \in Leaves
  BY <1>2, <1>6, TheJob DEF Context, Named, Code, AllIds
<1>8. DOMAIN asking = DOMAIN kreq[n] \cup {leaf}
  BY DEF Put
<1>9. /\ Wrote(kreq, n, asking, [kreq EXCEPT ![n] = asking])
      /\ Wrote(failed, n, more, [failed EXCEPT ![n] = more])
  BY <1>1, OnPodsExcept
<1> HIDE DEF L, D, e, id, leaf, asking
<1>10. OnPods(kreq') /\ \A m \in Pods : DOMAIN kreq'[m] \subseteq Leaves
  BY <1>1, <1>5, <1>7, <1>8, <1>9 DEF Wrote
<1>11. more \subseteq AllIds(n)
  BY <1>2, <1>6
<1> HIDE DEF more
<1>12. /\ OnPods(failed') /\ failed'[n] \subseteq AllIds(n)
       /\ \A m \in Pods \ {n} : failed'[m] = failed[m]
  BY <1>1, <1>2, <1>5, <1>9, <1>11 DEF Wrote
<1>13. /\ Good(n, f, L, D, B[n]) /\ f.io = e.io /\ f.kernels = e.kernels
       /\ f.fetching = e.fetching \cup {leaf} /\ f.parked = e.parked
       /\ f.table = e.table /\ f.completions = e.completions /\ f.ready = Tail(e.ready)
  BY <1>2, <1>4, AwaitGood DEF id
<1>14. eng' = [eng EXCEPT ![n] = f]
  BY <1>5
<1> HIDE DEF f
<1>15. Progress(n, e, D, f, D) /\ f.table \cup Done(f, D) = e.table \cup Done(e, D)
  <2>1. Done(f, D) = Done(e, D)
    BY <1>13 DEF Done
  <2> QED BY <1>6, <1>13, <2>1, SoItStays
<1>16. Reads(n, e, L, D, f, B[n])
  BY <1>2, <1>7, <1>13, <1>15 DEF Reads
<1>17. f.parked = eng[n].parked
  BY <1>13 DEF e
<1> QED BY <1>3, <1>10, <1>12, <1>14, <1>16, <1>17, IssueStep DEF e, L, D

LEMMA IssueIoStep ==
    ASSUME NEW B, All(B), NEW n \in Pods, IssueIo(n)
    PROVE  AllBecome(With(B, n, B[n])) /\ SameParked
<1> DEFINE e  == eng[n]
           q  == queue[n]
           I  == DOMAIN task[n]
           L  == InHand(q, I)
           D  == reported[n]
           id == Head(e.ready)
           g  == Taken(e)
           f  == [g EXCEPT !.io = @ + 1]
           v  == [eng EXCEPT ![n] = f]
           J  == I \cup {id}
<1>1. /\ OnPods(eng) /\ OnPods(mem) /\ OnPods(task) /\ OnPods(kreq) /\ OnPods(failed)
      /\ \A m \in Pods : DOMAIN kreq[m] \subseteq Leaves
  BY AllParts
<1>2. /\ Context(n, D, B[n]) /\ Good(n, e, L, D, B[n]) /\ PostOk(n, e, q, I)
      /\ IsFiniteSet(e.parked) /\ e.kernels \subseteq Leaves /\ e.fetching \subseteq Leaves
      /\ ShippedOk(n, e, q, shipped[n], D) /\ failed[n] \subseteq AllIds(n)
  BY NodeParts
<1>3. Issuing(n, {"load", "fetch", "store"}) /\ UNCHANGED <<kreq, failed>>
  BY DEF IssueIo
<1>4. /\ e.ready # <<>> /\ Code(n, id).op \in {"load", "fetch", "store"} /\ Popped(n) = g
      /\ Wrote(queue, n, q, queue') /\ Wrote(reported, n, D, reported')
      /\ UNCHANGED <<queue, mem, jobName, stream, shipped, reported>>
  BY <1>3, Working
<1>5. eng' = v /\ \E io : task' = [task EXCEPT ![n] = Put(task[n], id, io)]
  BY <1>4 DEF IssueIo
<1>6. PICK io : task' = [task EXCEPT ![n] = Put(task[n], id, io)]
  BY <1>5
<1>7. Wrote(eng, n, f, v)
      /\ Wrote(task, n, Put(task[n], id, io), [task EXCEPT ![n] = Put(task[n], id, io)])
  BY <1>1, OnPodsExcept
<1>8. DOMAIN Put(task[n], id, io) = J
  BY DEF Put
<1>9. Wrote(task, n, Put(task[n], id, io), task')
  BY <1>6, <1>7
<1>10. OnPods(task') /\ DOMAIN task'[n] = J /\ \A m \in Pods \ {n} : task'[m] = task[m]
  BY <1>8, <1>9 DEF Wrote
<1> HIDE DEF v
<1>11. NodeMoves(n, f, q, D)
  BY <1>1, <1>2, <1>3, <1>4, <1>5, <1>7, <1>10 DEF NodeMoves
<1> HIDE DEF L, D, e, q, I, id
<1>12. id \in Placed(e) /\ id \notin L
  BY <1>2, <1>4, HeadPlaced DEF id
<1>13. IsTaken(n, e, L, g)
  BY <1>2, <1>4, TakenIs
<1>14. Good(n, g, L \cup {id}, D, B[n])
  <2>1. Code(n, id).op # "free"
    BY <1>4
  <2> QED BY <1>2, <1>4, <2>1, TakenGood DEF id
<1>15. Progress(n, e, D, g, D) /\ SameIds(e, D, g) /\ \A x \in Aside : g[x] = e[x]
  BY <1>2, <1>4, TakenMoves
<1> HIDE DEF g
<1>16. /\ IsEngine(f) /\ SameBut(g, f, Aside) /\ f.io = e.io + 1 /\ f.parked = e.parked
       /\ f.kernels = e.kernels /\ f.fetching = e.fetching
       /\ f.table = g.table /\ f.ready = g.ready /\ f.completions = g.completions
  BY <1>13, <1>15 DEF IsEngine, Fields, SameBut, Aside, IsTaken
<1> HIDE DEF f
<1>17. Good(n, f, L \cup {id}, D, B[n])
  BY <1>14, <1>16, AsideGood
<1>18. Progress(n, e, D, f, D) /\ f.table \cup Done(f, D) = e.table \cup Done(e, D)
  <2>1. Done(f, D) = Done(g, D)
    BY <1>16 DEF Done
  <2>2. Progress(n, g, D, f, D) /\ f.table \cup Done(f, D) = g.table \cup Done(g, D)
    BY <1>16, <2>1, SoItStays
  <2>3. Progress(n, e, D, f, D)
    BY <1>15, <2>2, ProgressOn
  <2> QED BY <1>15, <2>2, <2>3 DEF SameIds
<1>19. InHand(q, J) = L \cup {id}
  BY DEF InHand, L
<1>20. PostOk(n, f, q, J)
  <2>1. IsQueue(q) /\ MailOk(q, I) /\ (\A i \in DOMAIN q : q[i].leaf \in Leaves)
        /\ IsFiniteSet(L) /\ e.io = Cardinality(L)
        /\ \A i \in L : Code(n, i).op \in {"load", "fetch", "store"}
    BY <1>2 DEF PostOk, L
  <2>2. IsFiniteSet(L \cup {id}) /\ Cardinality(L \cup {id}) = Cardinality(L) + 1
    BY <1>12, <2>1, FS_AddElement
  <2>3. MailOk(q, J)
    BY <1>12, <2>1 DEF MailOk, InHand, L
  <2> HIDE DEF J
  <2>4. f.io = Cardinality(InHand(q, J)) /\ IsFiniteSet(InHand(q, J))
    BY <1>16, <1>19, <2>1, <2>2
  <2>5. \A i \in InHand(q, J) : Code(n, i).op \in {"load", "fetch", "store"}
    BY <1>4, <1>19, <2>1
  <2> QED BY <2>1, <2>3, <2>4, <2>5 DEF PostOk
<1> HIDE DEF J
<1>21. ShippedOk(n, f, q, shipped[n], D)
  BY <1>2, <1>18, SameShipped
<1>22. NodeOk(n, f, q, J, D, B[n])
  BY <1>2, <1>16, <1>17, <1>18, <1>19, <1>20, <1>21 DEF NodeOk, e, D
<1>23. NodeOk(n, f, q, DOMAIN task'[n], D, B[n])
  BY <1>10, <1>22
<1>24. AllBecome(With(B, n, B[n]))
  BY <1>11, <1>23, NodeSteps
<1>25. SameParked
  BY <1>11, <1>16, ParkedSame DEF e
<1> QED BY <1>24, <1>25

LEMMA EndRoundStep ==
    ASSUME NEW B, All(B), NEW n \in Pods, EndRound(n)
    PROVE  AllBecome(With(B, n, B[n])) /\ SameParked
<1> DEFINE e == eng[n]
           q == queue[n]
           I == DOMAIN task[n]
           L == InHand(q, I)
           D == reported[n]
           E == D \cup e.completions
           stall == ~got /\ StallFound(eng[n])
           s == IF stall THEN <<>> ELSE e.allocs
           f == Reported(e, s)
           v == [eng EXCEPT ![n] = f]
           u == [reported EXCEPT ![n] = E]
           more == failed[n] \cup ToSet(e.allocs)
<1>1. /\ OnPods(eng) /\ OnPods(mem) /\ OnPods(task) /\ OnPods(kreq) /\ OnPods(failed)
      /\ OnPods(reported) /\ OnPods(queue) /\ \A m \in Pods : DOMAIN kreq[m] \subseteq Leaves
  BY AllParts
<1>2. /\ Context(n, D, B[n]) /\ Good(n, e, L, D, B[n]) /\ PostOk(n, e, q, I)
      /\ IsFiniteSet(e.parked) /\ e.kernels \subseteq Leaves /\ e.fetching \subseteq Leaves
      /\ ShippedOk(n, e, q, shipped[n], D) /\ failed[n] \subseteq AllIds(n)
  BY NodeParts
<1>3. /\ eng' = v /\ reported' = u
      /\ failed' = failed \/ failed' = [failed EXCEPT ![n] = more]
      /\ UNCHANGED <<queue, mem, task, kreq, jobName, stream, shipped>>
  BY DEF EndRound, Reported, ioVars, shipVars
<1>4. /\ Wrote(eng, n, f, v) /\ Wrote(reported, n, E, u) /\ Wrote(queue, n, q, queue)
      /\ Wrote(failed, n, more, [failed EXCEPT ![n] = more])
  BY <1>1, OnPodsExcept, NothingWrote
<1> HIDE DEF v, u
<1>5. more \subseteq AllIds(n)
  <2>1. InTable(n, e, L)
    BY <1>2 DEF Good, Orderly
  <2>2. ToSet(e.allocs) \subseteq AllIds(n)
    BY <2>1 DEF InTable, Placed
  <2> QED BY <1>2, <2>2
<1> HIDE DEF more
<1>6. /\ OnPods(failed') /\ failed'[n] \subseteq AllIds(n)
      /\ \A m \in Pods \ {n} : failed'[m] = failed[m]
  BY <1>1, <1>2, <1>3, <1>4, <1>5 DEF Wrote
<1>7. NodeMoves(n, f, q, E)
  BY <1>1, <1>3, <1>4, <1>6 DEF NodeMoves
<1>8. s \in {e.allocs, <<>>}
  OBVIOUS
<1> HIDE DEF s
<1>9. /\ Good(n, f, L, E, B[n]) /\ f.io = e.io /\ f.kernels = e.kernels
      /\ f.fetching = e.fetching /\ f.parked = e.parked
      /\ f.table = e.table /\ f.completions = {} /\ f.ready = e.ready
  <2> HIDE DEF e, L, D, f, E
  <2>1. Good(n, e, L, D, B[n])
    BY <1>2
  <2>2. AllReported(n, e, L, D, B[n], f)
    BY <2>1, <1>8, ReportedGood DEF f
  <2> QED BY <2>2 DEF AllReported, E
<1> HIDE DEF f
<1>10. Progress(n, e, D, f, E) /\ f.table \cup Done(f, E) = e.table \cup Done(e, D)
  <2>1. Done(f, E) = Done(e, D)
    BY <1>9 DEF Done
  <2> HIDE DEF e, L, D, E
  <2> QED BY <1>9, <2>1, SoItStays
<1>11. PostOk(n, f, q, I) /\ ShippedOk(n, f, q, shipped[n], E)
  <2> HIDE DEF e, L, D, E, q, I
  <2> QED BY <1>2, <1>9, <1>10, SamePost, SameShipped
<1>12. Context(n, E, B[n])
  <2>1. DoneOk(n, e, D)
    BY <1>2 DEF Good, Orderly
  <2> QED BY <1>2, <2>1 DEF Context, DoneOk, Done
<1>13. NodeOk(n, f, q, I, E, B[n])
  BY <1>2, <1>9, <1>10, <1>11, <1>12 DEF NodeOk
<1>14. DOMAIN task'[n] = I
  BY <1>3
<1> HIDE DEF I, E, q
<1>15. AllBecome(With(B, n, B[n]))
  BY <1>7, <1>13, <1>14, NodeSteps
<1>16. SameParked
  BY <1>7, <1>9, ParkedSame
<1> QED BY <1>15, <1>16

-----------------------------------------------------------------------------
(* The job stays, and so what is known of a node is known after a step     *)

LEMMA JobStays ==
    ASSUME jobName' = jobName
    PROVE  Job' = Job /\ Pods' = Pods
BY DEF Job, Catalog, Pods

LEMMA ContextStays ==
    ASSUME jobName' = jobName, NEW n, NEW D, NEW B
    PROVE  Context(n, D, B)' <=> Context(n, D, B)
BY DEF Context, Pods, TileSet, AllIds, Job, Catalog

LEMMA ArenaStays ==
    ASSUME jobName' = jobName, NEW e
    PROVE  ArenaOk(e)' <=> ArenaOk(e)
BY DEF ArenaOk, BelowBump, Job, Catalog

LEMMA OrderStays ==
    ASSUME jobName' = jobName, NEW n, NEW e, NEW L, NEW D
    PROVE  Orderly(n, e, L, D)' <=> Orderly(n, e, L, D)
<1>1. ListsOfIds(n, e)' <=> ListsOfIds(n, e)
  BY DEF ListsOfIds, ListOf, AllIds, Job, Catalog
<1>2. InTable(n, e, L)' <=> InTable(n, e, L)
  BY DEF InTable, AllIds, Job, Catalog
<1>3. OpsOk(n, e)' <=> OpsOk(n, e)
  BY DEF OpsOk, Code, Job, Catalog
<1>4. DoneOk(n, e, D)' <=> DoneOk(n, e, D)
  BY DEF DoneOk, AllIds, Code, Job, Catalog
<1>5. DepsOk(n, e, L, D)' <=> DepsOk(n, e, L, D)
  BY DEF DepsOk, Code, Job, Catalog
<1> QED BY <1>1, <1>2, <1>3, <1>4, <1>5 DEF Orderly

LEMMA StockStays ==
    ASSUME jobName' = jobName, NEW n, NEW e, NEW L, NEW D, NEW B
    PROVE  Stocked(n, e, L, D, B)' <=> Stocked(n, e, L, D, B)
<1>1. ArenaOk(e)' <=> ArenaOk(e)
  BY ArenaStays
<1>2. TilesKnown(n, e, D)' <=> TilesKnown(n, e, D)
  BY DEF TilesKnown, TileSet, AllIds, Code, Job, Catalog
<1>3. FreesKnown(n, e, L)' <=> FreesKnown(n, e, L)
  BY DEF FreesKnown, Code, Job, Catalog
<1>4. ServesOk(n, e, D, B)' <=> ServesOk(n, e, D, B)
  BY DEF ServesOk, Code, Job, Catalog
<1> QED BY <1>1, <1>2, <1>3, <1>4 DEF Stocked

LEMMA PostStays ==
    ASSUME jobName' = jobName, NEW n, NEW e, NEW q, NEW I
    PROVE  PostOk(n, e, q, I)' <=> PostOk(n, e, q, I)
BY DEF PostOk, Code, Job, Catalog

LEMMA ShippedStays ==
    ASSUME jobName' = jobName, NEW n, NEW e, NEW q, NEW k, NEW D
    PROVE  ShippedOk(n, e, q, k, D)' <=> ShippedOk(n, e, q, k, D)
BY DEF ShippedOk, Segs, SegIds, Job, Catalog

LEMMA NodeStays ==
    ASSUME jobName' = jobName, NEW n, NEW e, NEW q, NEW I, NEW K, NEW st, NEW k, NEW D, NEW F,
           NEW B, Node(n, e, q, I, K, st, k, D, F, B)
    PROVE  Node(n, e, q, I, K, st, k, D, F, B)'
<1>1. Context(n, D, B)' /\ PostOk(n, e, q, I)' /\ ShippedOk(n, e, q, k, D)'
  BY ContextStays, PostStays, ShippedStays DEF Node
<1>2. Good(n, e, InHand(q, I), D, B)'
  BY OrderStays, StockStays DEF Node, Good
<1>3. F \subseteq AllIds(n)'
  BY DEF Node, AllIds, Job, Catalog
<1> QED BY <1>1, <1>2, <1>3 DEF Node

LEMMA AllStays ==
    ASSUME NEW C, AllBecome(C), jobName \in DOMAIN Jobs
    PROVE  All(C)'
<1>1. jobName' = jobName /\ Pods' = Pods /\ ShapeStays
  BY JobStays DEF AllBecome
<1>2. ASSUME NEW m \in Pods PROVE Is(m, C)'
  <2>1. Node(m, eng'[m], queue'[m], DOMAIN task'[m], DOMAIN kreq'[m], stream'[m], shipped'[m],
             reported'[m], failed'[m], C[m])
    BY DEF AllBecome, Becomes
  <2> QED BY <1>1, <2>1, NodeStays DEF Is
<1>3. Shape'
  BY <1>1 DEF Shape, ShapeStays, OnPods, IsMap
<1> QED BY <1>1, <1>2, <1>3 DEF All

-----------------------------------------------------------------------------
(* Requests for tiles *)

RequestFor(m, id) == [tile |-> id[2], to |-> m, id |-> id]
RequestOf(msg)    == [tile |-> msg.tile, to |-> msg.to, id |-> msg.id]

(* The requests in a queue, and that none is there twice or parked too.    *)
Asked(q) == {RequestOf(q[i]) : i \in Of(q, {"Serve"})}

AskedOnce(q, P) ==
    /\ \A i, j \in Of(q, {"Serve"}) : i # j => RequestOf(q[i]) # RequestOf(q[j])
    /\ Asked(q) \cap P = {}

LEMMA MoreMail ==
    ASSUME NEW q, IsQueue(q), NEW msg, msg.type # "Serve", NEW P
    PROVE  LET r == Append(q, msg)
           IN Asked(r) = Asked(q) /\ (AskedOnce(q, P) => AskedOnce(r, P))
<1> DEFINE r == Append(q, msg)
<1>1. /\ Len(q) \in Nat /\ DOMAIN q = 1..Len(q) /\ \A i \in 1..Len(q) : r[i] = q[i]
  BY Posted
<1>2. Of(r, {"Serve"}) = Of(q, {"Serve"})
  BY PostedOf
<1> HIDE DEF r
<1>3. \A i \in Of(q, {"Serve"}) : r[i] = q[i]
  BY <1>1 DEF Of
<1>4. Asked(r) = Asked(q)
  BY <1>2, <1>3 DEF Asked
<1>5. AskedOnce(q, P) => AskedOnce(r, P)
  BY <1>2, <1>3, <1>4 DEF AskedOnce
<1> QED BY <1>4, <1>5 DEF r

LEMMA MoreAsked ==
    ASSUME NEW q, IsQueue(q), NEW msg, msg.type = "Serve", NEW P, AskedOnce(q, P),
           RequestOf(msg) \notin Asked(q) \cup P
    PROVE  LET r == Append(q, msg)
           IN Asked(r) = Asked(q) \cup {RequestOf(msg)} /\ AskedOnce(r, P)
<1> DEFINE r == Append(q, msg)
           k == Len(q) + 1
<1>1. /\ Len(q) \in Nat /\ DOMAIN q = 1..Len(q) /\ \A i \in 1..Len(q) : r[i] = q[i]
      /\ r[k] = msg
  BY Posted
<1>2. Of(r, {"Serve"}) = Of(q, {"Serve"}) \cup {k}
  BY PostedOf
<1> HIDE DEF r
<1>3. k \notin Of(q, {"Serve"}) /\ \A i \in Of(q, {"Serve"}) : r[i] = q[i]
  BY <1>1 DEF Of
<1> HIDE DEF k
<1>4. Asked(r) = Asked(q) \cup {RequestOf(msg)}
  BY <1>1, <1>2, <1>3 DEF Asked
<1>5. \A i \in Of(q, {"Serve"}) : RequestOf(q[i]) \in Asked(q)
  BY DEF Asked
<1>6. AskedOnce(r, P)
  <2>1. \A i, j \in Of(r, {"Serve"}) : i # j => RequestOf(r[i]) # RequestOf(r[j])
    BY <1>1, <1>2, <1>3, <1>5 DEF AskedOnce
  <2> QED BY <1>4, <2>1 DEF AskedOnce
<1> QED BY <1>4, <1>6 DEF r

LEMMA LessMail ==
    ASSUME NEW q, IsQueue(q), q # <<>>, Head(q).type # "Serve", NEW P
    PROVE  Asked(Tail(q)) = Asked(q) /\ (AskedOnce(q, P) => AskedOnce(Tail(q), P))
<1> DEFINE r == Tail(q)
           T == {"Serve"}
<1>1. /\ \A i \in Of(r, T) : i + 1 \in Of(q, T) /\ r[i] = q[i + 1] /\ i \in Nat
      /\ \A i \in Of(q, T) : i = 1 \/ (i - 1 \in Of(r, T) /\ r[i - 1] = q[i])
      /\ 1 \notin Of(q, T)
  <2>1. Head(q).type \notin T
    OBVIOUS
  <2> HIDE DEF T
  <2> QED BY <2>1, ShiftedOf
<1> HIDE DEF r, T
<1>2. \A i \in Of(q, T) : i - 1 \in Of(r, T) /\ r[i - 1] = q[i]
  BY <1>1
<1>3. Asked(r) = Asked(q)
  <2>1. \A i \in Of(r, T) : RequestOf(r[i]) \in Asked(q)
    BY <1>1 DEF Asked, T
  <2>2. \A i \in Of(q, T) : RequestOf(q[i]) \in Asked(r)
    BY <1>2 DEF Asked, T
  <2> QED BY <2>1, <2>2 DEF Asked, T
<1>4. ASSUME AskedOnce(q, P) PROVE AskedOnce(r, P)
  <2>1. ASSUME NEW i \in Of(r, T), NEW j \in Of(r, T), i # j
        PROVE  RequestOf(r[i]) # RequestOf(r[j])
    <3>1. i + 1 # j + 1
      BY <1>1, <2>1
    <3> QED BY <1>1, <1>4, <3>1 DEF AskedOnce, T
  <2> QED BY <1>3, <1>4, <2>1 DEF AskedOnce, T
<1> QED BY <1>3, <1>4 DEF r

LEMMA LessAsked ==
    ASSUME NEW q, IsQueue(q), q # <<>>, Head(q).type = "Serve", NEW P, AskedOnce(q, P)
    PROVE  LET new == RequestOf(Head(q))
           IN /\ Asked(q) = Asked(Tail(q)) \cup {new} /\ new \notin Asked(Tail(q)) \cup P
              /\ AskedOnce(Tail(q), P)
<1> DEFINE r   == Tail(q)
           T   == {"Serve"}
           new == RequestOf(Head(q))
<1>1. /\ \A i \in Of(r, T) : i + 1 \in Of(q, T) /\ r[i] = q[i + 1] /\ i \in Nat
      /\ \A i \in Of(q, T) : i = 1 \/ (i - 1 \in Of(r, T) /\ r[i - 1] = q[i])
      /\ 1 \in Of(q, T)
  BY ShiftedOf
<1>2. RequestOf(q[1]) = new /\ DOMAIN r = 1..(Len(q) - 1) /\ Len(q) \in Nat
  BY Shifted
<1> HIDE DEF r, T, new
<1>6. \A i \in Of(r, T) : i # 0
  BY <1>2 DEF Of
<1>3. Asked(q) = Asked(r) \cup {new}
  <2>1. \A i \in Of(r, T) : RequestOf(r[i]) \in Asked(q)
    BY <1>1 DEF Asked, T
  <2>2. \A i \in Of(q, T) : RequestOf(q[i]) \in Asked(r) \cup {new}
    BY <1>1, <1>2 DEF Asked, T
  <2>3. new \in Asked(q)
    BY <1>1, <1>2 DEF Asked, T
  <2> QED BY <2>1, <2>2, <2>3 DEF Asked, T
<1>4. new \notin Asked(r)
  <2>1. ASSUME NEW i \in Of(r, T) PROVE RequestOf(r[i]) # new
    <3>1. i + 1 \in Of(q, T) /\ r[i] = q[i + 1] /\ i \in Nat
      BY <1>1
    <3>2. i + 1 # 1
      <4>1. i # 0
        BY <1>6
      <4> QED BY <3>1, <4>1
    <3> QED BY <1>1, <1>2, <3>1, <3>2 DEF AskedOnce, T
  <2> QED BY <2>1 DEF Asked, T
<1>5. AskedOnce(r, P)
  <2>1. ASSUME NEW i \in Of(r, T), NEW j \in Of(r, T), i # j
        PROVE  RequestOf(r[i]) # RequestOf(r[j])
    <3>1. i + 1 # j + 1
      BY <1>1, <2>1
    <3> QED BY <1>1, <3>1 DEF AskedOnce, T
  <2> QED BY <1>3, <2>1 DEF AskedOnce, T
<1>7. new \notin P
  BY <1>3 DEF AskedOnce
<1> QED BY <1>3, <1>4, <1>5, <1>7 DEF r, new

-----------------------------------------------------------------------------
(* Requests: each is of a FETCH that was issued and is not about to ask,   *)
(* and a FETCH that has asked is among them until it is served.            *)

Asks(h) == eng[h].parked \cup Asked(queue[h])

IsFetch(m, id, h) ==
    m \in Pods /\ id \in AllIds(m) /\ Code(m, id).op = "fetch" /\ Code(m, id).from = h

TaskIs(m, id, state) == id \in DOMAIN task[m] /\ task[m][id].state = state

KnownRequest(h, r) ==
    /\ IsFetch(r.to, r.id, h) /\ r = RequestFor(r.to, r.id)
    /\ Issued(r.to, eng[r.to], reported[r.to], r.id) /\ ~TaskIs(r.to, r.id, "asking")

FetchesOk(m) ==
    \A id \in DOMAIN task[m] :
        /\ task[m][id].state \in {"asking", "asked"} => Code(m, id).op = "fetch"
        /\ task[m][id].state = "asked" => RequestFor(m, id) \in Asks(Code(m, id).from)

RequestsOk ==
    \A h \in Pods :
        /\ AskedOnce(queue[h], eng[h].parked)
        /\ \A r \in Asks(h) : KnownRequest(h, r)
        /\ FetchesOk(h)

(* The nodes that are still to be served a tile by its home.               *)
Waits(h, t) ==
    {m \in Peers(Job, h, t) :
        \/ ~Issued(m, eng[m], reported[m], Ingest(t))
        \/ TaskIs(m, Ingest(t), "asking")
        \/ RequestFor(m, Ingest(t)) \in Asks(h)}

Bound == [h \in Pods |-> [t \in TileSet(h) |-> Cardinality(Peers(Job, h, t) \ Waits(h, t))]]

LEMMA PeerIs ==
    ASSUME NEW h, NEW t, NEW m
    PROVE  m \in Peers(Job, h, t) <=> IsFetch(m, Ingest(t), h)
BY DEF Peers, IsFetch, Pods, AllIds, Code

LEMMA FetchStays ==
    ASSUME jobName' = jobName, NEW m, NEW id, NEW h
    PROVE  IsFetch(m, id, h)' <=> IsFetch(m, id, h)
BY DEF IsFetch, Pods, AllIds, Code, Job, Catalog

LEMMA IssuedStays ==
    ASSUME jobName' = jobName, NEW n, NEW e, NEW D, NEW id
    PROVE  Issued(n, e, D, id)' <=> Issued(n, e, D, id)
BY DEF Issued, Code, Job, Catalog

(* A task is of an instruction that was issued.                            *)
LEMMA TaskIssued ==
    ASSUME NEW B, All(B), NEW m \in Pods, NEW id \in DOMAIN task[m]
    PROVE  id \in AllIds(m) /\ Issued(m, eng[m], reported[m], id)
<1> DEFINE e == eng[m]
           L == InHand(queue[m], DOMAIN task[m])
           D == reported[m]
<1>1. Good(m, e, L, D, B[m])
  BY NodeParts
<1>2. Apart(e, L) /\ InTable(m, e, L) /\ DepsOk(m, e, L, D)
  BY <1>1 DEF Good, Orderly
<1>3. id \in L
  BY DEF InHand
<1> HIDE DEF L, D
<1>4. id \in e.table /\ id \in AllIds(m)
  BY <1>2, <1>3 DEF InTable
<1>5. id \notin ToSet(e.ready)
  BY <1>2, <1>3 DEF Apart, Placed
<1>6. Code(m, id).deps \cap e.table = {}
  BY <1>2, <1>3 DEF DepsOk
<1>7. Issued(m, e, D, id)
  BY <1>4, <1>5, <1>6 DEF Issued
<1> QED BY <1>4, <1>7 DEF D

(* Where new requests come from, and new tasks that are about to ask.      *)
AsksCome ==
    \A h \in Pods : \A r \in Asks(h)' :
        \/ r \in Asks(h)
        \/ /\ IsFetch(r.to, r.id, h) /\ r = RequestFor(r.to, r.id)
           /\ TaskIs(r.to, r.id, "asking") /\ ~TaskIs(r.to, r.id, "asking")'

AskingComes ==
    \A m \in Pods : \A id :
        TaskIs(m, id, "asking")' => TaskIs(m, id, "asking") \/ id \in ToSet(eng[m].ready)

Fewer == \A h \in Pods : \A t : Waits(h, t)' \subseteq Waits(h, t)

LEMMA RequestsMove ==
    ASSUME NEW B, All(B), NEW C, AllBecome(C), RequestsOk, AsksCome, AskingComes,
           \A h \in Pods : AskedOnce(queue'[h], eng'[h].parked) /\ FetchesOk(h)'
    PROVE  RequestsOk' /\ Fewer
<1>1. jobName' = jobName /\ Pods' = Pods /\ Job' = Job
  BY JobStays DEF AllBecome
<1>2. ASSUME NEW m, NEW id, NEW h, IsFetch(m, id, h), Issued(m, eng[m], reported[m], id)
      PROVE  Issued(m, eng[m], reported[m], id)'
  <2>1. Progress(m, eng[m], reported[m], eng'[m], reported'[m])
    BY <1>2 DEF AllBecome, Becomes, IsFetch
  <2>2. Issued(m, eng'[m], reported'[m], id)
    BY <1>2, <2>1 DEF Progress, IsFetch
  <2> QED BY <1>1, <2>2, IssuedStays
<1>3. ASSUME NEW h \in Pods, NEW r \in Asks(h)' PROVE KnownRequest(h, r)'
  <2>1. CASE r \in Asks(h)
    <3>1. KnownRequest(h, r)
      BY <2>1 DEF RequestsOk
    <3>2. IsFetch(r.to, r.id, h) /\ r = RequestFor(r.to, r.id)
          /\ Issued(r.to, eng[r.to], reported[r.to], r.id) /\ ~TaskIs(r.to, r.id, "asking")
      BY <3>1 DEF KnownRequest
    <3>3. IsFetch(r.to, r.id, h)' /\ Issued(r.to, eng[r.to], reported[r.to], r.id)'
      BY <1>1, <1>2, <3>2, FetchStays
    <3>4. r.id \notin ToSet(eng[r.to].ready) /\ r.to \in Pods
      BY <3>2 DEF Issued, IsFetch
    <3>5. ~TaskIs(r.to, r.id, "asking")'
      BY <3>2, <3>4 DEF AskingComes
    <3> QED BY <3>2, <3>3, <3>5 DEF KnownRequest
  <2>2. CASE /\ IsFetch(r.to, r.id, h) /\ r = RequestFor(r.to, r.id)
             /\ TaskIs(r.to, r.id, "asking") /\ ~TaskIs(r.to, r.id, "asking")'
    <3>1. Issued(r.to, eng[r.to], reported[r.to], r.id)
      BY <2>2, TaskIssued DEF TaskIs, IsFetch
    <3>2. IsFetch(r.to, r.id, h)' /\ Issued(r.to, eng[r.to], reported[r.to], r.id)'
      BY <1>1, <1>2, <2>2, <3>1, FetchStays
    <3> QED BY <2>2, <3>2 DEF KnownRequest
  <2> QED BY <2>1, <2>2 DEF AsksCome
<1>4. RequestsOk'
  BY <1>1, <1>3 DEF RequestsOk
<1>5. ASSUME NEW h \in Pods, NEW t, NEW m \in Waits(h, t)' PROVE m \in Waits(h, t)
  <2> DEFINE id == Ingest(t)
             r  == RequestFor(m, id)
  <2>1. m \in Peers(Job, h, t)
        /\ (\/ ~Issued(m, eng[m], reported[m], id)' \/ TaskIs(m, id, "asking")' \/ r \in Asks(h)')
    BY <1>1 DEF Waits
  <2>2. IsFetch(m, id, h) /\ r.to = m /\ r.id = id
    BY <2>1, PeerIs DEF RequestFor
  <2>3. CASE ~Issued(m, eng[m], reported[m], id)'
    BY <1>2, <2>1, <2>2, <2>3 DEF Waits
  <2>4. CASE TaskIs(m, id, "asking")'
    <3>1. TaskIs(m, id, "asking") \/ id \in ToSet(eng[m].ready)
      BY <2>2, <2>4 DEF AskingComes, IsFetch
    <3> QED BY <2>1, <3>1 DEF Waits, Issued
  <2>5. CASE r \in Asks(h)'
    <3>1. r \in Asks(h) \/ TaskIs(m, id, "asking")
      BY <2>2, <2>5 DEF AsksCome
    <3> QED BY <2>1, <3>1 DEF Waits
  <2> QED BY <2>1, <2>3, <2>4, <2>5
<1>6. Fewer
  BY <1>5 DEF Fewer
<1> QED BY <1>4, <1>6

(* A step that neither asks nor serves.                                    *)
Steady ==
    \A m \in Pods :
        /\ eng'[m].parked = eng[m].parked /\ Asked(queue'[m]) = Asked(queue[m])
        /\ AskedOnce(queue[m], eng[m].parked) => AskedOnce(queue'[m], eng[m].parked)
        /\ \A id \in DOMAIN task'[m] :
              task'[m][id].state \in {"asking", "asked"} =>
                  id \in DOMAIN task[m] /\ task'[m][id] = task[m][id]

LEMMA SteadyMoves ==
    ASSUME NEW B, All(B), NEW C, AllBecome(C), RequestsOk, Steady
    PROVE  RequestsOk' /\ Fewer
<1>1. jobName' = jobName /\ Pods' = Pods /\ Job' = Job
  BY JobStays DEF AllBecome
<1>2. \A h \in Pods : Asks(h)' = Asks(h)
  BY DEF Steady, Asks
<1>3. AsksCome
  BY <1>2 DEF AsksCome
<1>4. AskingComes
  BY DEF AskingComes, TaskIs, Steady
<1>5. \A h \in Pods : AskedOnce(queue'[h], eng'[h].parked)
  BY DEF RequestsOk, Steady
<1>6. ASSUME NEW m \in Pods PROVE FetchesOk(m)'
  <2> SUFFICES ASSUME NEW id \in DOMAIN task'[m], task'[m][id].state \in {"asking", "asked"}
               PROVE  /\ Code(m, id)'.op = "fetch"
                      /\ task'[m][id].state = "asked" => RequestFor(m, id) \in Asks(Code(m, id).from)'
    BY DEF FetchesOk
  <2>1. id \in DOMAIN task[m] /\ task'[m][id] = task[m][id]
    BY DEF Steady
  <2>2. /\ Code(m, id).op = "fetch"
        /\ task[m][id].state = "asked" => RequestFor(m, id) \in Asks(Code(m, id).from)
    BY <2>1 DEF RequestsOk, FetchesOk
  <2>3. Code(m, id)' = Code(m, id) /\ Code(m, id).from \in Pods
    <3>1. id \in AllIds(m)
      BY <2>1, TaskIssued
    <3>2. Named(Job, m) /\ jobName \in DOMAIN Jobs
      BY TheJob DEF All
    <3> QED BY <1>1, <2>2, <3>1, <3>2 DEF Code, Named, AllIds, Pods
  <2> QED BY <1>2, <2>1, <2>2, <2>3
<1> QED BY <1>3, <1>4, <1>5, <1>6, RequestsMove

-----------------------------------------------------------------------------
(* How often a tile was served: at least by those that no longer wait      *)

LEMMA PeersFinite ==
    ASSUME jobName \in DOMAIN Jobs, NEW h, NEW t
    PROVE  IsFiniteSet(Peers(Job, h, t))
<1>1. Job.width \in Nat
  BY TheJob
<1>2. IsFiniteSet(0..(Job.width - 1))
  BY <1>1, FS_Interval
<1>3. Peers(Job, h, t) \in SUBSET (0..(Job.width - 1))
  BY DEF Peers
<1> QED BY <1>2, <1>3, FS_Subset

LEMMA PeersLess ==
    ASSUME jobName \in DOMAIN Jobs, NEW h, NEW t, NEW W
    PROVE  Cardinality(Peers(Job, h, t) \ W) \in Nat
<1>1. IsFiniteSet(Peers(Job, h, t)) /\ Peers(Job, h, t) \ W \in SUBSET Peers(Job, h, t)
  BY PeersFinite
<1>2. IsFiniteSet(Peers(Job, h, t) \ W)
  BY <1>1, FS_Subset
<1> QED BY <1>2, FS_CardinalityType

LEMMA BoundIs ==
    ASSUME jobName \in DOMAIN Jobs, NEW h \in Pods
    PROVE  Bound[h] \in [TileSet(h) -> Nat]
<1>1. \A t \in TileSet(h) : Cardinality(Peers(Job, h, t) \ Waits(h, t)) \in Nat
  BY PeersLess
<1>2. Bound[h] = [t \in TileSet(h) |-> Cardinality(Peers(Job, h, t) \ Waits(h, t))]
  BY DEF Bound
<1> QED BY <1>1, <1>2

LEMMA FewerLeft ==
    ASSUME NEW P, IsFiniteSet(P), NEW W, NEW V, V \subseteq W, NEW X, X \subseteq P,
           X \subseteq W, X \cap V = {}
    PROVE  /\ Cardinality(P \ W) \in Nat /\ Cardinality(P \ V) \in Nat /\ Cardinality(X) \in Nat
           /\ Cardinality(P \ W) + Cardinality(X) <= Cardinality(P \ V)
<1>1. IsFiniteSet(P \ W) /\ IsFiniteSet(P \ V) /\ IsFiniteSet(X)
  BY FS_Subset
<1>2. Cardinality(P \ W) \in Nat /\ Cardinality(P \ V) \in Nat /\ Cardinality(X) \in Nat
  BY <1>1, FS_CardinalityType
<1>3. (P \ W) \cup X \in SUBSET (P \ V) /\ (P \ W) \cap X = {}
  OBVIOUS
<1>4. Cardinality((P \ W) \cup X) = Cardinality(P \ W) + Cardinality(X) - Cardinality({})
  <2>1. Cardinality((P \ W) \cup X)
        = Cardinality(P \ W) + Cardinality(X) - Cardinality((P \ W) \cap X)
    BY <1>1, FS_Union
  <2> QED BY <1>3, <2>1
<1>5. Cardinality((P \ W) \cup X) <= Cardinality(P \ V)
  BY <1>1, <1>3, FS_Subset
<1>6. Cardinality({}) = 0
  BY FS_EmptySet
<1> QED BY <1>2, <1>4, <1>5, <1>6

LEMMA BoundGrows ==
    ASSUME jobName \in DOMAIN Jobs, jobName' = jobName, Fewer, NEW h \in Pods,
           NEW t \in TileSet(h), NEW X, X \subseteq Waits(h, t), X \cap Waits(h, t)' = {}
    PROVE  /\ Bound[h][t] \in Nat /\ Bound'[h][t] \in Nat /\ Cardinality(X) \in Nat
           /\ Bound[h][t] + Cardinality(X) <= Bound'[h][t]
<1>1. Job' = Job /\ Pods' = Pods /\ Peers(Job, h, t)' = Peers(Job, h, t)
  BY JobStays DEF Peers
<1>2. TileSet(h)' = TileSet(h)
  BY DEF TileSet, AllIds, Job, Catalog
<1>3. Bound[h][t] = Cardinality(Peers(Job, h, t) \ Waits(h, t))
  BY DEF Bound
<1>4. Bound'[h][t] = Cardinality(Peers(Job, h, t) \ Waits(h, t)')
  BY <1>1, <1>2 DEF Bound
<1>5. X \subseteq Peers(Job, h, t) /\ Waits(h, t)' \subseteq Waits(h, t)
  BY DEF Waits, Fewer
<1>6. PICK p, w, v : p = Peers(Job, h, t) /\ w = Waits(h, t) /\ v = Waits(h, t)'
  OBVIOUS
<1>7. IsFiniteSet(p) /\ v \subseteq w /\ X \subseteq p /\ X \subseteq w /\ X \cap v = {}
  BY <1>5, <1>6, PeersFinite
<1>8. /\ Cardinality(p \ w) \in Nat /\ Cardinality(p \ v) \in Nat /\ Cardinality(X) \in Nat
      /\ Cardinality(p \ w) + Cardinality(X) <= Cardinality(p \ v)
  BY <1>7, FewerLeft
<1> QED BY <1>3, <1>4, <1>6, <1>8

LEMMA GoodGrows ==
    ASSUME NEW n, NEW D, NEW B, Context(n, D, B), NEW C, Context(n, D, C),
           \A t \in TileSet(n) : B[t] <= C[t], NEW e, NEW L, Good(n, e, L, D, B)
    PROVE  Good(n, e, L, D, C)
<1>1. ArenaOk(e) /\ TilesKnown(n, e, D) /\ ServesOk(n, e, D, B) /\ DoneOk(n, e, D)
  BY DEF Good, Orderly, Stocked
<1>2. \A t \in TileSet(n) : B[t] \in Nat /\ C[t] \in Nat /\ B[t] <= C[t]
  BY DEF Context
<1>3. ASSUME NEW t \in DOMAIN e.tiles PROVE e.tiles[t].serves <= C[t]
  <2>1. t \in TileSet(n) /\ e.tiles[t].serves \in Nat /\ e.tiles[t].serves <= B[t]
    BY <1>1 DEF TilesKnown, ServesOk, ArenaOk, TilesOk, Buffers
  <2> QED BY <1>2, <2>1
<1>4. ASSUME NEW id \in Done(e, D), Code(n, id).op = "free"
      PROVE  Code(n, id).serves <= C[id[2]]
  <2>1. id \in AllIds(n) /\ Code(n, id).serves <= B[id[2]]
    BY <1>1, <1>4 DEF DoneOk, ServesOk
  <2>2. id[2] \in TileSet(n) /\ Code(n, id).serves \in Nat
    BY <2>1, NameIs
  <2> QED BY <1>2, <2>1, <2>2
<1>5. ServesOk(n, e, D, C)
  BY <1>3, <1>4 DEF ServesOk
<1> QED BY <1>5 DEF Good, Stocked

LEMMA AllGrow ==
    ASSUME jobName \in DOMAIN Jobs, NEW B, AllBecome(B), NEW C,
           \A m \in Pods : C[m] \in [TileSet(m) -> Nat] /\ \A t \in TileSet(m) : B[m][t] <= C[m][t]
    PROVE  AllBecome(C)
<1>1. ASSUME NEW m \in Pods PROVE Becomes(m, C)
  <2> DEFINE e == eng'[m]
             I == DOMAIN task'[m]
             D == reported'[m]
  <2>1. /\ Node(m, e, queue'[m], I, DOMAIN kreq'[m], stream'[m], shipped'[m], D, failed'[m], B[m])
        /\ Progress(m, eng[m], reported[m], eng'[m], reported'[m])
    BY DEF AllBecome, Becomes
  <2>2. Context(m, D, B[m]) /\ Good(m, e, InHand(queue'[m], I), D, B[m])
    BY <2>1 DEF Node
  <2>3. Context(m, D, C[m])
    BY <2>2 DEF Context
  <2> HIDE DEF e, I, D
  <2>4. Good(m, e, InHand(queue'[m], I), D, C[m])
    BY <2>2, <2>3, GoodGrows
  <2>5. Node(m, e, queue'[m], I, DOMAIN kreq'[m], stream'[m], shipped'[m], D, failed'[m], C[m])
    BY <2>1, <2>3, <2>4 DEF Node
  <2> QED BY <2>1, <2>5 DEF Becomes, e, I, D
<1> QED BY <1>1 DEF AllBecome

(* What is always so of the nodes and the requests.                        *)
Holds == All(Bound) /\ RequestsOk

LEMMA HoldsOn ==
    ASSUME jobName \in DOMAIN Jobs, NEW C, AllBecome(C), RequestsOk', NEW c, c = Bound',
           \A m \in Pods : \A t \in TileSet(m) : C[m][t] <= c[m][t]
    PROVE  Holds'
<1>1. jobName' = jobName /\ Pods' = Pods /\ \A m : TileSet(m)' = TileSet(m)
  BY JobStays DEF AllBecome, TileSet, AllIds, Job, Catalog
<1>2. \A m \in Pods : c[m] \in [TileSet(m) -> Nat]
  <2> SUFFICES ASSUME NEW m \in Pods PROVE Bound'[m] \in [TileSet(m) -> Nat]
    OBVIOUS
  <2>1. \A t : Peers(Job, m, t)' = Peers(Job, m, t)
    BY JobStays, <1>1 DEF Peers
  <2>2. \A t : Cardinality(Peers(Job, m, t) \ Waits(m, t)') \in Nat
    BY PeersLess
  <2>3. Bound'[m] = [t \in TileSet(m) |-> Cardinality(Peers(Job, m, t) \ Waits(m, t)')]
    BY <1>1, <2>1 DEF Bound
  <2> QED BY <2>2, <2>3
<1>3. AllBecome(c)
  BY <1>2, AllGrow
<1>4. All(c)'
  BY <1>3, AllStays
<1>5. All(Bound)'
  BY <1>4 DEF All, Is
<1> QED BY <1>5 DEF Holds

LEMMA TheBound ==
    ASSUME Holds, NEW b, b = Bound
    PROVE  /\ All(b) /\ RequestsOk /\ jobName \in DOMAIN Jobs
           /\ \A n : With(b, n, b[n]) = b
           /\ \A n \in Pods : b[n] \in [TileSet(n) -> Nat]
<1>1. All(b) /\ RequestsOk /\ jobName \in DOMAIN Jobs
  BY DEF Holds, All, Is
<1>2. b = [m \in Pods |-> b[m]]
  BY DEF Bound
<1>3. \A n : With(b, n, b[n]) = b
  BY <1>2 DEF With
<1>4. \A n \in Pods : b[n] \in [TileSet(n) -> Nat]
  BY <1>1, BoundIs
<1> QED BY <1>1, <1>3, <1>4

-----------------------------------------------------------------------------
(* Steps that neither ask for a tile nor serve one *)

SteadyMail ==
    \A m \in Pods :
        /\ Asked(queue'[m]) = Asked(queue[m])
        /\ AskedOnce(queue[m], eng[m].parked) => AskedOnce(queue'[m], eng[m].parked)

SteadyTasks ==
    \A m \in Pods : \A id \in DOMAIN task'[m] :
        task'[m][id].state \in {"asking", "asked"} =>
            id \in DOMAIN task[m] /\ task'[m][id] = task[m][id]

LEMMA PostsQuietly ==
    ASSUME NEW B, All(B), NEW x, NEW msg, msg.type # "Serve",
           queue' = [queue EXCEPT ![x] = Append(queue[x], msg)]
    PROVE  SteadyMail
<1> DEFINE q == [queue EXCEPT ![x] = Append(queue[x], msg)]
<1>1. Wrote(queue, x, Append(queue[x], msg), q) /\ queue' = q
  BY AllParts, OnPodsExcept
<1> HIDE DEF q
<1>2. ASSUME NEW m \in Pods
      PROVE  /\ Asked(queue'[m]) = Asked(queue[m])
             /\ AskedOnce(queue[m], eng[m].parked) => AskedOnce(queue'[m], eng[m].parked)
  <2>1. CASE m = x
    <3>1. IsQueue(queue[m])
      BY NodeParts
    <3>2. /\ Asked(Append(queue[m], msg)) = Asked(queue[m])
          /\ AskedOnce(queue[m], eng[m].parked) => AskedOnce(Append(queue[m], msg), eng[m].parked)
      BY <3>1, MoreMail
    <3>3. queue'[m] = Append(queue[m], msg)
      BY <1>1, <2>1 DEF Wrote
    <3> QED BY <3>2, <3>3
  <2>2. CASE m # x
    BY <1>1, <2>2 DEF Wrote
  <2> QED BY <2>1, <2>2
<1> QED BY <1>2 DEF SteadyMail

LEMMA ReadsQuietly ==
    ASSUME NEW B, All(B), NEW n \in Pods, NEW type, type # "Serve", Handling(n, type)
    PROVE  SteadyMail
<1>1. /\ queue[n] # <<>> /\ Head(queue[n]).type = type
      /\ Wrote(queue, n, Tail(queue[n]), queue')
  BY Reading
<1>2. ASSUME NEW m \in Pods
      PROVE  /\ Asked(queue'[m]) = Asked(queue[m])
             /\ AskedOnce(queue[m], eng[m].parked) => AskedOnce(queue'[m], eng[m].parked)
  <2>1. CASE m = n
    <3>1. IsQueue(queue[m])
      BY NodeParts
    <3>2. /\ Asked(Tail(queue[m])) = Asked(queue[m])
          /\ AskedOnce(queue[m], eng[m].parked) => AskedOnce(Tail(queue[m]), eng[m].parked)
      BY <1>1, <2>1, <3>1, LessMail
    <3>3. queue'[m] = Tail(queue[m])
      BY <1>1, <2>1 DEF Wrote
    <3> QED BY <3>2, <3>3
  <2>2. CASE m # n
    BY <1>1, <2>2 DEF Wrote
  <2> QED BY <2>1, <2>2
<1> QED BY <1>2 DEF SteadyMail

LEMMA SameMail ==
    ASSUME UNCHANGED queue
    PROVE  SteadyMail
BY DEF SteadyMail

LEMMA SameTasks ==
    ASSUME UNCHANGED task
    PROVE  SteadyTasks
BY DEF SteadyTasks

LEMMA FewerTasks ==
    ASSUME OnPods(task), NEW n, NEW id, task' = [task EXCEPT ![n] = Without(task[n], id)]
    PROVE  SteadyTasks
<1> DEFINE mine == Without(task[n], id)
           t    == [task EXCEPT ![n] = mine]
<1>1. /\ DOMAIN mine = DOMAIN task[n] \ {id}
      /\ \A i \in DOMAIN task[n] \ {id} : mine[i] = task[n][i]
  BY DEF Without
<1>2. Wrote(task, n, mine, t) /\ task' = t
  BY OnPodsExcept
<1> HIDE DEF mine, t
<1>3. ASSUME NEW m \in Pods, NEW i \in DOMAIN task'[m]
      PROVE  i \in DOMAIN task[m] /\ task'[m][i] = task[m][i]
  <2>1. CASE m = n
    BY <1>1, <1>2, <1>3, <2>1 DEF Wrote
  <2>2. CASE m # n
    BY <1>2, <1>3, <2>2 DEF Wrote
  <2> QED BY <2>1, <2>2
<1> QED BY <1>3 DEF SteadyTasks

(* A step after which requests are as they should be, and no bound shrinks. *)
LEMMA OnlyGrows ==
    ASSUME NEW b, b = Bound, jobName \in DOMAIN Jobs, AllBecome(b), RequestsOk', Fewer
    PROVE  Holds'
<1>0. jobName' = jobName
  BY DEF AllBecome
<1>1. PICK c : c = Bound'
  OBVIOUS
<1>2. ASSUME NEW h \in Pods, NEW t \in TileSet(h) PROVE b[h][t] <= c[h][t]
  <2>1. /\ Bound[h][t] \in Nat /\ Bound'[h][t] \in Nat /\ Cardinality({}) \in Nat
        /\ Bound[h][t] + Cardinality({}) <= Bound'[h][t]
    BY <1>0, BoundGrows
  <2>2. Cardinality({}) = 0
    BY FS_EmptySet
  <2> HIDE DEF Pods
  <2>3. Bound[h][t] <= Bound'[h][t]
    BY <2>1, <2>2
  <2> QED BY <1>1, <2>3
<1> QED BY <1>1, <1>2, HoldsOn

LEMMA Quiet ==
    ASSUME Holds, NEW b, b = Bound, AllBecome(b), SteadyMail, SteadyTasks, SameParked
    PROVE  Holds'
<1>1. All(b) /\ RequestsOk /\ jobName \in DOMAIN Jobs
  BY TheBound
<1>2. Steady
  BY DEF Steady, SteadyMail, SteadyTasks, SameParked
<1>3. RequestsOk' /\ Fewer
  BY <1>1, <1>2, SteadyMoves
<1> QED BY <1>1, <1>3, OnlyGrows

LEMMA TurnHolds ==
    ASSUME Holds, UNCHANGED <<queue, eng, mem, ioVars, shipVars, outVars>>
    PROVE  Holds'
<1>1. PICK b : b = Bound
  OBVIOUS
<1>2. AllBecome(b)
  BY <1>1, TheBound, TurnStep
<1>3. SteadyMail /\ SteadyTasks /\ SameParked
  BY SameMail, SameTasks DEF ioVars, SameParked
<1> QED BY <1>1, <1>2, <1>3, Quiet

LEMMA PostHolds ==
    ASSUME Holds, NEW n \in Pods, NEW leaf,
           ReceiveKernel(n) \/ Ship(n) \/ AskKernel(n, leaf) \/ KernelArrives(n, leaf)
    PROVE  Holds'
<1>1. PICK b : b = Bound
  OBVIOUS
<1>2. All(b)
  BY <1>1, TheBound
<1>3. AllBecome(b)
  BY <1>2, ReceiveKernelStep, ShipStep, AskKernelStep, KernelArrivesStep
<1>4. UNCHANGED <<eng, task>>
  BY DEF ReceiveKernel, Ship, AskKernel, KernelArrives, ioVars
<1>5. SteadyTasks /\ SameParked
  BY <1>4, SameTasks DEF SameParked
<1>6. SteadyMail
  <2>1. CASE ReceiveKernel(n)
    <3> DEFINE msg == [Message("Kernel") EXCEPT !.leaf = Head(stream[n])]
    <3>1. queue' = [queue EXCEPT ![n] = Append(queue[n], msg)] /\ msg.type = "Kernel"
      BY <2>1 DEF ReceiveKernel, Post, Message
    <3> HIDE DEF msg
    <3> QED BY <1>2, <3>1, PostsQuietly
  <2>2. CASE Ship(n)
    <3> DEFINE msg == [Message("Issue") EXCEPT !.seg = shipped[n] + 1]
    <3>1. queue' = [queue EXCEPT ![n] = Append(queue[n], msg)] /\ msg.type = "Issue"
      BY <2>2 DEF Ship, Post, Message
    <3> HIDE DEF msg
    <3> QED BY <1>2, <3>1, PostsQuietly
  <2>3. CASE AskKernel(n, leaf)
    <3> DEFINE msg == [Message("GetKernel") EXCEPT !.leaf = leaf, !.to = n]
    <3>1. queue' = [queue EXCEPT ![0] = Append(queue[0], msg)] /\ msg.type = "GetKernel"
      BY <2>3 DEF AskKernel, Post, Message
    <3> HIDE DEF msg
    <3> QED BY <1>2, <3>1, PostsQuietly
  <2>4. CASE KernelArrives(n, leaf)
    <3> DEFINE msg == [Message("KernelFetched") EXCEPT !.leaf = leaf]
    <3>1. queue' = [queue EXCEPT ![n] = Append(queue[n], msg)] /\ msg.type = "KernelFetched"
      BY <2>4 DEF KernelArrives, Post, Message
    <3> HIDE DEF msg
    <3> QED BY <1>2, <3>1, PostsQuietly
  <2> QED BY <2>1, <2>2, <2>3, <2>4
<1> QED BY <1>1, <1>3, <1>5, <1>6, Quiet

LEMMA TaskHolds ==
    ASSUME Holds, NEW n \in Pods, NEW id \in DOMAIN task[n],
           LoadDone(n, id) \/ StoreDone(n, id) \/ IoError(n, id)
    PROVE  Holds'
<1>1. PICK b : b = Bound
  OBVIOUS
<1>2. All(b) /\ AllBecome(b)
  BY <1>1, TheBound, TaskStep
<1>3. task' = [task EXCEPT ![n] = Without(task[n], id)] /\ UNCHANGED eng
  BY DEF LoadDone, StoreDone, IoError
<1>4. OnPods(task)
  BY <1>2, AllParts
<1>5. SteadyTasks /\ SameParked
  BY <1>3, <1>4, FewerTasks DEF SameParked
<1>6. SteadyMail
  <2>1. CASE LoadDone(n, id)
    <3> DEFINE data == IF Code(n, id).op = "load" THEN Stored(id[2]) ELSE task[n][id].data
               msg  == [Message("IoDone") EXCEPT !.id = id, !.data = data]
    <3>1. queue' = [queue EXCEPT ![n] = Append(queue[n], msg)] /\ msg.type = "IoDone"
      BY <2>1 DEF LoadDone, Post, Message
    <3> HIDE DEF msg
    <3> QED BY <1>2, <3>1, PostsQuietly
  <2>2. CASE StoreDone(n, id)
    <3> DEFINE msg == [Message("StoreDone") EXCEPT !.id = id]
    <3>1. queue' = [queue EXCEPT ![n] = Append(queue[n], msg)] /\ msg.type = "StoreDone"
      BY <2>2 DEF StoreDone, Post, Message
    <3> HIDE DEF msg
    <3> QED BY <1>2, <3>1, PostsQuietly
  <2>3. CASE IoError(n, id)
    <3> DEFINE msg == [Message("IoFailed") EXCEPT !.id = id]
    <3>1. queue' = [queue EXCEPT ![n] = Append(queue[n], msg)] /\ msg.type = "IoFailed"
      BY <2>3 DEF IoError, Post, Message
    <3> HIDE DEF msg
    <3> QED BY <1>2, <3>1, PostsQuietly
  <2> QED BY <2>1, <2>2, <2>3
<1> QED BY <1>1, <1>2, <1>5, <1>6, Quiet

LEMMA ReadHolds ==
    ASSUME Holds, NEW n \in Pods,
           \/ OnKernel(n) \/ OnIssue(n) \/ OnStoreDone(n) \/ OnIoFailed(n)
           \/ OnKernelFetched(n) \/ OnGetKernel(n)
    PROVE  Holds'
<1>1. PICK b : b = Bound
  OBVIOUS
<1>2. All(b) /\ With(b, n, b[n]) = b
  BY <1>1, TheBound
<1>3. AllBecome(With(b, n, b[n])) /\ SameParked
  BY <1>2, OnKernelStep, OnIssueStep, OnStoreDoneStep, OnIoFailedStep, OnKernelFetchedStep,
     OnGetKernelStep
<1>4. SteadyTasks
  <2>1. UNCHANGED task
    BY DEF OnKernel, OnIssue, OnStoreDone, OnIoFailed, OnKernelFetched, OnGetKernel
  <2> QED BY <2>1, SameTasks
<1>5. SteadyMail
  <2>1. \/ Handling(n, "Kernel") \/ Handling(n, "Issue") \/ Handling(n, "StoreDone")
        \/ Handling(n, "IoFailed") \/ Handling(n, "KernelFetched") \/ Handling(n, "GetKernel")
    BY DEF OnKernel, OnIssue, OnStoreDone, OnIoFailed, OnKernelFetched, OnGetKernel
  <2> QED BY <1>2, <2>1, ReadsQuietly
<1> QED BY <1>1, <1>2, <1>3, <1>4, <1>5, Quiet

LEMMA WorkHolds ==
    ASSUME Holds, NEW n \in Pods, NEW id,
           \/ Finish(n, id) \/ IssueAlloc(n) \/ IssueFree(n) \/ Launch(n) \/ AwaitKernel(n)
           \/ EndRound(n)
    PROVE  Holds'
<1>1. PICK b : b = Bound
  OBVIOUS
<1>2. All(b) /\ With(b, n, b[n]) = b
  BY <1>1, TheBound
<1>3. AllBecome(With(b, n, b[n])) /\ SameParked
  BY <1>2, FinishStep, IssueAllocStep, IssueFreeStep, LaunchStep, AwaitKernelStep, EndRoundStep
<1>4. UNCHANGED <<queue, task>>
  BY DEF Finish, IssueAlloc, IssueFree, Launch, AwaitKernel, EndRound, Issuing, ioVars
<1>5. SteadyMail /\ SteadyTasks
  BY <1>4, SameMail, SameTasks
<1> QED BY <1>1, <1>2, <1>3, <1>5, Quiet

-----------------------------------------------------------------------------
(* Steps that ask *)

LEMMA CodeStays ==
    ASSUME jobName \in DOMAIN Jobs, jobName' = jobName, NEW m \in Pods, NEW id \in AllIds(m),
           Code(m, id).op = "fetch"
    PROVE  Code(m, id)' = Code(m, id) /\ Code(m, id).from \in Pods /\ IsFetch(m, id, Code(m, id).from)
<1>1. Job' = Job
  BY JobStays
<1>2. Named(Job, m)
  BY TheJob
<1>3. Code(m, id).from \in Pods
  BY <1>2 DEF Named, AllIds, Code, Pods
<1> QED BY <1>1, <1>3 DEF Code, IsFetch

(* A task's state can be read.                                             *)
TasksOk == \A m \in Pods : \A id \in DOMAIN task[m] : "state" \in DOMAIN task[m][id]

LEMMA IssueIoHolds ==
    ASSUME Holds, NEW n \in Pods, IssueIo(n)
    PROVE  Holds'
<1> DEFINE id == Head(eng[n].ready)
<1>1. PICK b : b = Bound
  OBVIOUS
<1>2. All(b) /\ RequestsOk /\ With(b, n, b[n]) = b /\ jobName \in DOMAIN Jobs
  BY <1>1, TheBound
<1>3. AllBecome(b) /\ SameParked
  BY <1>2, IssueIoStep
<1>4. jobName' = jobName /\ UNCHANGED queue
  BY DEF IssueIo, Issuing, shipVars
<1>5. SteadyMail
  BY <1>4, SameMail
<1>6. id \in ToSet(eng[n].ready) /\ id \in AllIds(n)
  <2>1. Good(n, eng[n], InHand(queue[n], DOMAIN task[n]), reported[n], b[n])
    BY <1>2, NodeParts
  <2>2. eng[n].ready \in Seq(AllIds(n)) /\ eng[n].ready # <<>>
    BY <2>1 DEF IssueIo, Issuing, Good, Orderly, ListsOfIds, ListOf
  <2> QED BY <2>2, TailIs
<1>7. ASSUME NEW io, io.state # "asked", io.state = "asking" => Code(n, id).op = "fetch",
             task' = [task EXCEPT ![n] = Put(task[n], id, io)]
      PROVE  RequestsOk' /\ Fewer
  <2> DEFINE mine == Put(task[n], id, io)
             t    == [task EXCEPT ![n] = mine]
  <2>1. /\ DOMAIN mine = DOMAIN task[n] \cup {id} /\ mine[id] = io
        /\ \A i \in DOMAIN mine \ {id} : mine[i] = task[n][i]
    BY DEF Put
  <2>2. Wrote(task, n, mine, t) /\ task' = t
    BY <1>2, <1>7, AllParts, OnPodsExcept
  <2> HIDE DEF mine, t
  <2>3. ASSUME NEW m \in Pods, NEW i \in DOMAIN task'[m]
        PROVE  \/ m = n /\ i = id /\ task'[m][i] = io
               \/ i \in DOMAIN task[m] /\ task'[m][i] = task[m][i]
    <3>1. CASE m = n
      BY <2>1, <2>2, <2>3, <3>1 DEF Wrote
    <3>2. CASE m # n
      BY <2>2, <2>3, <3>2 DEF Wrote
    <3> QED BY <3>1, <3>2
  <2>4. \A h \in Pods : Asks(h)' = Asks(h)
    BY <1>3, <1>5 DEF Asks, SameParked, SteadyMail
  <2>5. AsksCome
    BY <2>4 DEF AsksCome
  <2>6. AskingComes
    BY <1>6, <2>3 DEF AskingComes, TaskIs
  <2>7. \A h \in Pods : AskedOnce(queue'[h], eng'[h].parked)
    BY <1>2, <1>3, <1>5 DEF RequestsOk, SteadyMail, SameParked
  <2>8. ASSUME NEW m \in Pods PROVE FetchesOk(m)'
    <3> SUFFICES ASSUME NEW i \in DOMAIN task'[m], task'[m][i].state \in {"asking", "asked"}
                 PROVE  /\ Code(m, i)'.op = "fetch"
                        /\ task'[m][i].state = "asked" => RequestFor(m, i) \in Asks(Code(m, i).from)'
      BY DEF FetchesOk
    <3>2. CASE m = n /\ i = id /\ task'[m][i] = io
      <4>1. Code(m, i).op = "fetch" /\ i \in AllIds(m)
        BY <1>6, <1>7, <3>2
      <4> QED BY <1>2, <1>4, <1>7, <3>2, <4>1, CodeStays
    <3>3. CASE i \in DOMAIN task[m] /\ task'[m][i] = task[m][i]
      <4>1. /\ Code(m, i).op = "fetch"
            /\ task[m][i].state = "asked" => RequestFor(m, i) \in Asks(Code(m, i).from)
        BY <1>2, <3>3 DEF RequestsOk, FetchesOk
      <4>2. i \in AllIds(m)
        BY <1>2, <3>3, TaskIssued
      <4> QED BY <1>2, <1>4, <2>4, <3>3, <4>1, <4>2, CodeStays
    <3> QED BY <2>3, <3>2, <3>3
  <2> QED BY <1>2, <1>3, <2>5, <2>6, <2>7, <2>8, RequestsMove
<1>8. RequestsOk' /\ Fewer
  <2>1. CASE Code(n, id).op = "load"
    <3> DEFINE io == [state |-> "reading", data |-> Garbage]
    <3>1. task' = [task EXCEPT ![n] = Put(task[n], id, io)]
      BY <2>1 DEF IssueIo
    <3>2. io.state = "reading"
      OBVIOUS
    <3> HIDE DEF io
    <3> QED BY <1>7, <3>1, <3>2
  <2>2. CASE Code(n, id).op = "fetch"
    <3> DEFINE io == [state |-> "asking", data |-> Garbage]
    <3>1. task' = [task EXCEPT ![n] = Put(task[n], id, io)]
      BY <2>2 DEF IssueIo
    <3>2. io.state = "asking"
      OBVIOUS
    <3> HIDE DEF io
    <3> QED BY <1>7, <2>2, <3>1, <3>2
  <2>3. CASE Code(n, id).op = "store"
    <3> DEFINE io == [state |-> "writing", data |-> At(n, eng[n].tiles[id[2]].addr)]
    <3>1. task' = [task EXCEPT ![n] = Put(task[n], id, io)]
      BY <2>3 DEF IssueIo
    <3>2. io.state = "writing"
      OBVIOUS
    <3> HIDE DEF io
    <3> QED BY <1>7, <3>1, <3>2
  <2> QED BY <2>1, <2>2, <2>3 DEF IssueIo, Issuing
<1> QED BY <1>1, <1>2, <1>3, <1>8, OnlyGrows

LEMMA AskTileHolds ==
    ASSUME Holds, TasksOk, NEW n \in Pods, NEW id, AskTile(n, id)
    PROVE  Holds'
<1> DEFINE x    == Code(n, id).from
           r    == RequestFor(n, id)
           msg  == [Message("Serve") EXCEPT !.id = id, !.tile = id[2], !.to = n]
           mine == [task[n] EXCEPT ![id].state = "asked"]
           t    == [task EXCEPT ![n] = mine]
           q    == [queue EXCEPT ![x] = Append(queue[x], msg)]
<1>1. PICK b : b = Bound
  OBVIOUS
<1>2. All(b) /\ RequestsOk /\ jobName \in DOMAIN Jobs
  BY <1>1, TheBound
<1>3. AllBecome(b)
  BY <1>2, AskTileStep
<1>4. /\ id \in DOMAIN task[n] /\ task[n][id].state = "asking" /\ queue' = q
      /\ UNCHANGED <<jobName, eng>>
  BY DEF AskTile, Post, shipVars
<1>5. task' = t
  BY DEF AskTile
<1>6. msg.type = "Serve" /\ RequestOf(msg) = r
  BY DEF Message, RequestOf, RequestFor
<1>7. /\ DOMAIN mine = DOMAIN task[n] /\ mine[id].state = "asked"
      /\ \A i \in DOMAIN task[n] \ {id} : mine[i] = task[n][i]
  BY <1>4 DEF TasksOk
<1>8. Wrote(task, n, mine, t) /\ Wrote(queue, x, Append(queue[x], msg), q)
  BY <1>2, AllParts, OnPodsExcept
<1>9. id \in AllIds(n) /\ Code(n, id).op = "fetch"
  BY <1>2, <1>4, TaskIssued DEF RequestsOk, FetchesOk
<1>10. x \in Pods /\ IsFetch(n, id, x)
  BY <1>2, <1>4, <1>9, CodeStays
<1> HIDE DEF msg, mine, t, q, x
<1>11. TaskIs(n, id, "asking") /\ ~TaskIs(n, id, "asking")'
  BY <1>4, <1>5, <1>7, <1>8 DEF TaskIs, Wrote
<1>12. r \notin Asks(x) /\ r.to = n /\ r.id = id
  BY <1>2, <1>10, <1>11 DEF RequestsOk, KnownRequest, RequestFor
<1> HIDE DEF r
<1>13. /\ Asked(Append(queue[x], msg)) = Asked(queue[x]) \cup {r}
       /\ AskedOnce(Append(queue[x], msg), eng[x].parked)
  <2>1. IsQueue(queue[x]) /\ AskedOnce(queue[x], eng[x].parked)
    BY <1>2, <1>10, NodeParts DEF RequestsOk
  <2>2. RequestOf(msg) \notin Asked(queue[x]) \cup eng[x].parked
    BY <1>6, <1>12 DEF Asks
  <2> QED BY <1>6, <2>1, <2>2, MoreAsked
<1>14. \A h \in Pods : Asks(h)' = IF h = x THEN Asks(h) \cup {r} ELSE Asks(h)
  BY <1>4, <1>8, <1>13 DEF Asks, Wrote
<1>15. AsksCome
  <2>1. r = RequestFor(n, id)
    BY DEF r
  <2> QED BY <1>10, <1>11, <1>12, <1>14, <2>1 DEF AsksCome
<1>16. ASSUME NEW m \in Pods, NEW i \in DOMAIN task'[m]
       PROVE  \/ m = n /\ i = id /\ task'[m][i].state = "asked"
              \/ i \in DOMAIN task[m] /\ task'[m][i] = task[m][i]
  <2>1. CASE m = n
    BY <1>5, <1>7, <1>8, <1>16, <2>1 DEF Wrote
  <2>2. CASE m # n
    BY <1>5, <1>8, <1>16, <2>2 DEF Wrote
  <2> QED BY <2>1, <2>2
<1>17. AskingComes
  BY <1>16 DEF AskingComes, TaskIs
<1>18. ASSUME NEW h \in Pods PROVE AskedOnce(queue'[h], eng'[h].parked)
  <2>1. CASE h = x
    BY <1>4, <1>8, <1>13, <2>1 DEF Wrote
  <2>2. CASE h # x
    BY <1>2, <1>4, <1>8, <2>2 DEF Wrote, RequestsOk
  <2> QED BY <2>1, <2>2
<1>19. ASSUME NEW m \in Pods PROVE FetchesOk(m)'
  <2> SUFFICES ASSUME NEW i \in DOMAIN task'[m], task'[m][i].state \in {"asking", "asked"}
               PROVE  /\ Code(m, i)'.op = "fetch"
                      /\ task'[m][i].state = "asked" => RequestFor(m, i) \in Asks(Code(m, i).from)'
    BY DEF FetchesOk
  <2>1. CASE m = n /\ i = id
    <3>1. r = RequestFor(m, i) /\ Code(m, i).from = x
      BY <2>1 DEF r, x
    <3> QED BY <1>2, <1>4, <1>9, <1>10, <1>14, <2>1, <3>1, CodeStays
  <2>2. CASE i \in DOMAIN task[m] /\ task'[m][i] = task[m][i]
    <3>1. /\ Code(m, i).op = "fetch"
          /\ task[m][i].state = "asked" => RequestFor(m, i) \in Asks(Code(m, i).from)
      BY <1>2, <2>2 DEF RequestsOk, FetchesOk
    <3>2. i \in AllIds(m)
      BY <1>2, <2>2, TaskIssued
    <3> QED BY <1>2, <1>4, <1>14, <2>2, <3>1, <3>2, CodeStays
  <2> QED BY <1>16, <2>1, <2>2
<1>20. RequestsOk' /\ Fewer
  BY <1>2, <1>3, <1>15, <1>17, <1>18, <1>19, RequestsMove
<1> QED BY <1>1, <1>2, <1>3, <1>20, OnlyGrows

(* A request that waits for its tile is parked, which changes nothing for  *)
(* the one who asked.                                                      *)
LEMMA ParkHolds ==
    ASSUME Holds, NEW n \in Pods, OnServe(n), ~Here(n, Head(queue[n]).tile)
    PROVE  Holds'
<1> DEFINE new == RequestOf(Head(queue[n]))
           P   == eng[n].parked
<1>1. PICK b : b = Bound
  OBVIOUS
<1>2. All(b) /\ RequestsOk /\ jobName \in DOMAIN Jobs /\ With(b, n, b[n]) = b
  BY <1>1, TheBound
<1>3. AllBecome(b) /\ ParkedBecome(n, P \cup {new})
  BY <1>2, ParkStep DEF RequestOf
<1>4. UNCHANGED task /\ jobName' = jobName
  BY DEF OnServe, Here, Handling, shipVars
<1>5. /\ queue[n] # <<>> /\ Head(queue[n]).type = "Serve"
      /\ Wrote(queue, n, Tail(queue[n]), queue')
  <2>1. Handling(n, "Serve")
    BY DEF OnServe
  <2> QED BY <1>2, <2>1, Reading
<1>6. /\ Asked(queue[n]) = Asked(Tail(queue[n])) \cup {new}
      /\ new \notin Asked(Tail(queue[n])) \cup P /\ AskedOnce(Tail(queue[n]), P)
  <2>1. IsQueue(queue[n]) /\ AskedOnce(queue[n], P)
    BY <1>2, NodeParts DEF RequestsOk
  <2> QED BY <1>5, <2>1, LessAsked
<1> HIDE DEF new, P
<1>7. \A h \in Pods : Asks(h)' = Asks(h)
  BY <1>3, <1>5, <1>6 DEF Asks, Wrote, ParkedBecome, P
<1>8. AskedOnce(Tail(queue[n]), P \cup {new})
  BY <1>6 DEF AskedOnce
<1>9. \A h \in Pods : AskedOnce(queue'[h], eng'[h].parked)
  BY <1>2, <1>3, <1>5, <1>8 DEF Wrote, ParkedBecome, RequestsOk
<1>10. AsksCome /\ AskingComes
  BY <1>4, <1>7 DEF AsksCome, AskingComes, TaskIs
<1>11. ASSUME NEW m \in Pods PROVE FetchesOk(m)'
  <2> SUFFICES ASSUME NEW i \in DOMAIN task[m], task[m][i].state \in {"asking", "asked"}
               PROVE  /\ Code(m, i)'.op = "fetch"
                      /\ task[m][i].state = "asked" => RequestFor(m, i) \in Asks(Code(m, i).from)'
    BY <1>4 DEF FetchesOk
  <2>1. /\ Code(m, i).op = "fetch"
        /\ task[m][i].state = "asked" => RequestFor(m, i) \in Asks(Code(m, i).from)
    BY <1>2 DEF RequestsOk, FetchesOk
  <2>2. i \in AllIds(m)
    BY <1>2, TaskIssued
  <2> QED BY <1>2, <1>4, <1>7, <2>1, <2>2, CodeStays
<1>12. RequestsOk' /\ Fewer
  BY <1>2, <1>3, <1>9, <1>10, <1>11, RequestsMove
<1> QED BY <1>1, <1>2, <1>3, <1>12, OnlyGrows

-----------------------------------------------------------------------------
(* Steps that serve *)

(* The requests in X, all for one tile, are answered by node n.            *)
LEMMA Answering ==
    ASSUME Holds, NEW b, b = Bound, NEW n \in Pods, NEW tile, NEW X, X \subseteq Asks(n),
           \A r \in X : r.tile = tile, NEW data, Reply(X, data),
           Asks(n)' = Asks(n) \ X, \A h \in Pods \ {n} : Asks(h)' = Asks(h),
           \A h \in Pods : AskedOnce(queue'[h], eng'[h].parked),
           AllBecome(With(b, n, More(b[n], tile, Cardinality(X))))
    PROVE  Holds'
<1> DEFINE C  == With(b, n, More(b[n], tile, Cardinality(X)))
           To == {r.to : r \in X}
           f  == [m \in To |-> RequestFor(m, Ingest(tile))]
<1>1. /\ All(b) /\ RequestsOk /\ jobName \in DOMAIN Jobs /\ b[n] \in [TileSet(n) -> Nat]
      /\ jobName' = jobName
  BY TheBound DEF AllBecome
<1>2. ASSUME NEW m \in Pods, NEW i \in DOMAIN task'[m], task'[m][i].state \in {"asking", "asked"}
      PROVE  /\ i \in DOMAIN task[m] /\ task'[m][i] = task[m][i]
             /\ ~\E w \in X : w.to = m /\ w.id = i
  <2>1. i \in DOMAIN task[m]
    BY <1>2 DEF Reply
  <2>2. task'[m][i] = IF \E w \in X : w.to = m /\ w.id = i
                      THEN [state |-> "served", data |-> data] ELSE task[m][i]
    BY <2>1 DEF Reply
  <2> QED BY <1>2, <2>1, <2>2
<1>3. \A h \in Pods : Asks(h)' \subseteq Asks(h)
  OBVIOUS
<1>4. AsksCome
  BY <1>3 DEF AsksCome
<1>5. AskingComes
  BY <1>2 DEF AskingComes, TaskIs
<1>6. ASSUME NEW m \in Pods PROVE FetchesOk(m)'
  <2> SUFFICES ASSUME NEW i \in DOMAIN task'[m], task'[m][i].state \in {"asking", "asked"}
               PROVE  /\ Code(m, i)'.op = "fetch"
                      /\ task'[m][i].state = "asked" => RequestFor(m, i) \in Asks(Code(m, i).from)'
    BY DEF FetchesOk
  <2>1. /\ i \in DOMAIN task[m] /\ task'[m][i] = task[m][i]
        /\ ~\E w \in X : w.to = m /\ w.id = i
    BY <1>2
  <2>2. /\ Code(m, i).op = "fetch"
        /\ task[m][i].state = "asked" => RequestFor(m, i) \in Asks(Code(m, i).from)
    BY <1>1, <2>1 DEF RequestsOk, FetchesOk
  <2>3. i \in AllIds(m)
    BY <1>1, <2>1, TaskIssued
  <2>4. RequestFor(m, i) \notin X
    BY <2>1 DEF RequestFor
  <2> QED BY <1>1, <2>1, <2>2, <2>3, <2>4, CodeStays
<1>7. RequestsOk' /\ Fewer
  <2> HIDE DEF C
  <2>1. AllBecome(C)
    BY DEF C
  <2> QED BY <1>1, <1>4, <1>5, <1>6, <2>1, RequestsMove
(* Who is answered waited until now.                                       *)
<1>8. ASSUME NEW r \in X
      PROVE  /\ r = RequestFor(r.to, Ingest(tile)) /\ IsFetch(r.to, Ingest(tile), n)
             /\ r.to \in Waits(n, tile) /\ r.to \notin Waits(n, tile)'
  <2>1. KnownRequest(n, r)
    BY <1>1 DEF RequestsOk
  <2>2. IsFetch(r.to, r.id, n) /\ r = RequestFor(r.to, r.id)
        /\ Issued(r.to, eng[r.to], reported[r.to], r.id) /\ ~TaskIs(r.to, r.id, "asking")
    BY <2>1 DEF KnownRequest
  <2>3. r.id[2] = tile /\ r.id = Ingest(r.id[2])
    <3>1. r.tile = r.id[2]
      BY <2>2 DEF RequestFor
    <3>2. Named(Job, r.to)
      BY <1>1, <2>2, TheJob DEF IsFetch
    <3> QED BY <2>2, <3>1, <3>2 DEF Named, IsFetch, AllIds, Code
  <2>4. r.id = Ingest(tile)
    BY <2>3
  <2> HIDE DEF Pods
  <2>5. r.to \in Peers(Job, n, tile) /\ r.to \in Waits(n, tile)
    BY <2>2, <2>4, PeerIs DEF Waits
  <2>6. Issued(r.to, eng[r.to], reported[r.to], Ingest(tile))'
    <3>1. Progress(r.to, eng[r.to], reported[r.to], eng'[r.to], reported'[r.to])
      BY <2>2 DEF AllBecome, Becomes, IsFetch
    <3>2. Issued(r.to, eng'[r.to], reported'[r.to], Ingest(tile))
      BY <2>2, <2>4, <3>1 DEF Progress, IsFetch
    <3> QED BY <1>1, <3>2, IssuedStays
  <2>7. ~TaskIs(r.to, Ingest(tile), "asking")'
    <3>1. r.to \in Pods
      BY <2>2 DEF IsFetch
    <3> QED BY <1>2, <2>4, <3>1 DEF TaskIs
  <2>8. RequestFor(r.to, Ingest(tile)) \notin Asks(n)'
    BY <2>2, <2>4
  <2> QED BY <2>2, <2>4, <2>5, <2>6, <2>7, <2>8 DEF Waits
<1>9. To \subseteq Waits(n, tile) /\ To \cap Waits(n, tile)' = {}
  BY <1>8
<1>10. Cardinality(X) \in Nat /\ Cardinality(X) <= Cardinality(To)
  <2>1. X = {f[m] : m \in To}
    <3>1. (\A r \in X : f[r.to] = r /\ r.to \in To) /\ \A m \in To : \E r \in X : m = r.to
      BY <1>8
    <3> HIDE DEF To, f
    <3> QED BY <3>1
  <2>2. To \in SUBSET Peers(Job, n, tile)
    BY <1>9 DEF Waits
  <2> HIDE DEF To, f
  <2>3. IsFiniteSet(To)
    BY <1>1, <2>2, PeersFinite, FS_Subset
  <2>4. IsFiniteSet({f[m] : m \in To}) /\ Cardinality({f[m] : m \in To}) <= Cardinality(To)
    BY <2>3, ImageFits
  <2> QED BY <2>1, <2>4, FS_CardinalityType
<1> HIDE DEF To
<1>11. PICK c : c = Bound'
  OBVIOUS
<1>12. ASSUME NEW h \in Pods, NEW t \in TileSet(h) PROVE C[h][t] <= c[h][t]
  <2>1. CASE h = n /\ t = tile
    <3>1. /\ Bound[h][t] \in Nat /\ Bound'[h][t] \in Nat /\ Cardinality(To) \in Nat
          /\ Bound[h][t] + Cardinality(To) <= Bound'[h][t]
      BY <1>1, <1>7, <1>9, <2>1, BoundGrows
    <3>2. C[h][t] = b[h][t] + Cardinality(X)
      BY <1>1, <2>1 DEF With, More
    <3> HIDE DEF C
    <3> QED BY <1>10, <1>11, <3>1, <3>2
  <2>2. CASE ~(h = n /\ t = tile)
    <3>1. /\ Bound[h][t] \in Nat /\ Bound'[h][t] \in Nat /\ Cardinality({}) \in Nat
          /\ Bound[h][t] + Cardinality({}) <= Bound'[h][t]
      BY <1>1, <1>7, BoundGrows
    <3>2. C[h][t] = b[h][t]
      BY <1>1, <2>2 DEF With, More
    <3> HIDE DEF C
    <3>3. Cardinality({}) = 0
      BY FS_EmptySet
    <3> QED BY <1>11, <3>1, <3>2, <3>3
  <2> QED BY <2>1, <2>2
<1> HIDE DEF C
<1>13. AllBecome(C)
  BY DEF C
<1> QED BY <1>1, <1>7, <1>11, <1>12, <1>13, HoldsOn

LEMMA ServeHolds ==
    ASSUME Holds, NEW n \in Pods, OnServe(n), Here(n, Head(queue[n]).tile)
    PROVE  Holds'
<1> DEFINE msg == Head(queue[n])
           new == RequestOf(msg)
           P   == eng[n].parked
           data == At(n, eng[n].tiles[msg.tile].addr)
<1>1. PICK b : b = Bound
  OBVIOUS
<1>2. All(b) /\ RequestsOk /\ jobName \in DOMAIN Jobs
  BY <1>1, TheBound
<1>3. AllBecome(With(b, n, More(b[n], msg.tile, 1))) /\ SameParked
  BY <1>2, ServeStep
<1>4. Reply({new}, data)
  BY DEF OnServe, Here, RequestOf
<1>5. /\ queue[n] # <<>> /\ Head(queue[n]).type = "Serve"
      /\ Wrote(queue, n, Tail(queue[n]), queue')
  <2>1. Handling(n, "Serve")
    BY DEF OnServe
  <2> QED BY <1>2, <2>1, Reading
<1>6. /\ Asked(queue[n]) = Asked(Tail(queue[n])) \cup {new}
      /\ new \notin Asked(Tail(queue[n])) \cup P /\ AskedOnce(Tail(queue[n]), P)
  <2>1. IsQueue(queue[n]) /\ AskedOnce(queue[n], P)
    BY <1>2, NodeParts DEF RequestsOk
  <2> QED BY <1>5, <2>1, LessAsked
<1>7. new.tile = msg.tile
  BY DEF RequestOf
<1> HIDE DEF new, data
<1>8. Asks(n) = P \cup Asked(Tail(queue[n])) \cup {new} /\ Asks(n)' = P \cup Asked(Tail(queue[n]))
  BY <1>3, <1>5, <1>6 DEF Asks, Wrote, SameParked
<1>9. {new} \subseteq Asks(n) /\ Asks(n)' = Asks(n) \ {new}
  BY <1>6, <1>8
<1>10. \A h \in Pods \ {n} : Asks(h)' = Asks(h)
  BY <1>3, <1>5 DEF Asks, Wrote, SameParked
<1>11. \A h \in Pods : AskedOnce(queue'[h], eng'[h].parked)
  BY <1>2, <1>3, <1>5, <1>6 DEF Wrote, SameParked, RequestsOk
<1>12. \A r \in {new} : r.tile = msg.tile
  BY <1>7
<1>13. Cardinality({new}) = 1
  BY FS_Singleton
<1>14. AllBecome(With(b, n, More(b[n], msg.tile, Cardinality({new}))))
  BY <1>3, <1>13
<1> HIDE DEF msg
<1> QED BY <1>1, <1>4, <1>9, <1>10, <1>11, <1>12, <1>14, Answering

(* The requests that waited for a tile are answered when it is there.      *)
LEMMA WaitersHold ==
    ASSUME Holds, NEW b, b = Bound, NEW n \in Pods, NEW tile,
           NEW data, Reply(Waiters(eng[n], tile), data), SteadyMail,
           ParkedBecome(n, eng[n].parked \ Waiters(eng[n], tile)),
           AllBecome(With(b, n, More(b[n], tile, Cardinality(Waiters(eng[n], tile)))))
    PROVE  Holds'
<1> DEFINE W == Waiters(eng[n], tile)
           P == eng[n].parked
<1>1. RequestsOk /\ \A h \in Pods : AskedOnce(queue[h], eng[h].parked)
  BY TheBound DEF RequestsOk
<1>2. W \subseteq P /\ \A r \in W : r.tile = tile
  BY DEF Waiters
<1> HIDE DEF W
<1>3. W \subseteq Asks(n) /\ W \cap Asked(queue[n]) = {}
  BY <1>1, <1>2 DEF Asks, AskedOnce
<1>4. Asks(n)' = Asks(n) \ W
  <2>1. Asks(n)' = (P \ W) \cup Asked(queue[n])
    BY DEF Asks, ParkedBecome, SteadyMail, W
  <2> QED BY <1>3, <2>1 DEF Asks
<1>5. \A h \in Pods \ {n} : Asks(h)' = Asks(h)
  BY DEF Asks, ParkedBecome, SteadyMail
<1>6. ASSUME NEW h \in Pods PROVE AskedOnce(queue'[h], eng'[h].parked)
  <2>1. AskedOnce(queue'[h], eng[h].parked)
    BY <1>1 DEF SteadyMail
  <2>2. eng'[h].parked \subseteq eng[h].parked
    BY DEF ParkedBecome
  <2> QED BY <2>1, <2>2 DEF AskedOnce
<1>7. Reply(W, data) /\ AllBecome(With(b, n, More(b[n], tile, Cardinality(W))))
  BY DEF W
<1> QED BY <1>2, <1>3, <1>4, <1>5, <1>6, <1>7, Answering

LEMMA OnIoDoneHolds ==
    ASSUME Holds, NEW n \in Pods, OnIoDone(n)
    PROVE  Holds'
<1> DEFINE msg  == Head(queue[n])
           tile == msg.id[2]
<1>1. PICK b : b = Bound
  OBVIOUS
<1>2. All(b)
  BY <1>1, TheBound
<1>3. /\ AllBecome(With(b, n, More(b[n], tile, Cardinality(Waiters(eng[n], tile)))))
      /\ ParkedBecome(n, eng[n].parked \ Waiters(eng[n], tile))
  BY <1>2, OnIoDoneStep
<1>4. Reply(Waiters(eng[n], tile), msg.data) /\ Handling(n, "IoDone")
  BY DEF OnIoDone
<1>5. SteadyMail
  BY <1>2, <1>4, ReadsQuietly
<1> HIDE DEF msg, tile
<1> QED BY <1>1, <1>3, <1>4, <1>5, WaitersHold

LEMMA PollHolds ==
    ASSUME Holds, NEW n \in Pods, NEW id, Poll(n, id)
    PROVE  Holds'
<1> DEFINE tile == id[2]
           g    == Polled(eng[n], id)
           data == At(n, g.tiles[tile].addr)
<1>1. PICK b : b = Bound
  OBVIOUS
<1>2. All(b)
  BY <1>1, TheBound
<1>3. /\ AllBecome(With(b, n, More(b[n], tile, Cardinality(Waiters(eng[n], tile)))))
      /\ ParkedBecome(n, eng[n].parked \ Waiters(eng[n], tile))
  BY <1>2, PollStep
<1>4. Reply(Waiters(g, tile), data) /\ UNCHANGED queue
  BY DEF Poll, Polled
<1>5. IsEngine(eng[n])
  BY <1>2, EngineIs
<1>6. g.parked = eng[n].parked
  BY <1>5 DEF Polled, IsEngine, Fields
<1> HIDE DEF g, tile, data
<1>7. Waiters(g, tile) = Waiters(eng[n], tile)
  BY <1>6 DEF Waiters
<1>8. Reply(Waiters(eng[n], tile), data)
  BY <1>4, <1>7
<1>9. SteadyMail
  BY <1>4, SameMail
<1> QED BY <1>1, <1>3, <1>8, <1>9, WaitersHold

-----------------------------------------------------------------------------
(* Tasks *)

LEMMA TaskWritten ==
    ASSUME OnPods(task), TasksOk, NEW n, NEW mine, task' = [task EXCEPT ![n] = mine],
           \A i \in DOMAIN mine : "state" \in DOMAIN mine[i], Pods' = Pods
    PROVE  TasksOk'
<1> DEFINE t == [task EXCEPT ![n] = mine]
<1>1. Wrote(task, n, mine, t) /\ task' = t
  BY OnPodsExcept
<1> HIDE DEF t
<1> QED BY <1>1 DEF Wrote, TasksOk

LEMMA TasksStay ==
    ASSUME OnPods(task), TasksOk, NEW n \in Pods, Pods' = Pods, NEW id \in DOMAIN task[n],
           task' = [task EXCEPT ![n] = Without(task[n], id)]
    PROVE  TasksOk'
<1>1. \A i \in DOMAIN Without(task[n], id) : "state" \in DOMAIN Without(task[n], id)[i]
  BY DEF Without, TasksOk
<1> QED BY <1>1, TaskWritten

LEMMA TaskIssues ==
    ASSUME OnPods(task), TasksOk, NEW n \in Pods, Pods' = Pods, NEW id, NEW state, NEW data,
           task' = [task EXCEPT ![n] = Put(task[n], id, [state |-> state, data |-> data])]
    PROVE  TasksOk'
<1> DEFINE io == [state |-> state, data |-> data]
<1>1. "state" \in DOMAIN io
  OBVIOUS
<1> HIDE DEF io
<1>2. \A i \in DOMAIN Put(task[n], id, io) : "state" \in DOMAIN Put(task[n], id, io)[i]
  BY <1>1 DEF Put, TasksOk
<1> QED BY <1>2, TaskWritten DEF io

LEMMA TasksAnswered ==
    ASSUME TasksOk, Pods' = Pods, NEW W, NEW data, Reply(W, data)
    PROVE  TasksOk'
<1> SUFFICES ASSUME NEW m \in Pods, NEW i \in DOMAIN task'[m]
             PROVE  "state" \in DOMAIN task'[m][i]
  BY DEF TasksOk
<1>1. i \in DOMAIN task[m]
  BY DEF Reply
<1>2. task'[m][i] = IF \E w \in W : w.to = m /\ w.id = i
                    THEN [state |-> "served", data |-> data] ELSE task[m][i]
  BY <1>1 DEF Reply
<1>3. "state" \in DOMAIN task[m][i] /\ "state" \in DOMAIN [state |-> "served", data |-> data]
  BY <1>1 DEF TasksOk
<1> QED BY <1>2, <1>3

LEMMA JobKept ==
    ASSUME [Next]_vars
    PROVE  jobName' = jobName
<1>1. CASE UNCHANGED vars
  BY <1>1 DEF vars, shipVars
<1>2. CASE Next
  <2>1. PICK n \in Pods : World(n) \/ Engine(n) \/ \E id \in DOMAIN task[n] : IoError(n, id)
    BY <1>2 DEF Next
  <2>2. CASE World(n)
    BY <2>2 DEF World, ReceiveKernel, Ship, Finish, LoadDone, StoreDone, AskTile, AskKernel,
                KernelArrives, shipVars
  <2>3. CASE \E id \in DOMAIN task[n] : IoError(n, id)
    BY <2>3 DEF IoError, shipVars
  <2>4. CASE \/ Begin(n) \/ EndDrain(n) \/ EndPoll(n) \/ EndRound(n)
    BY <2>4 DEF Begin, EndDrain, EndPoll, EndRound, shipVars
  <2>5. CASE \/ OnKernel(n) \/ OnIssue(n) \/ OnIoDone(n) \/ OnStoreDone(n) \/ OnIoFailed(n)
             \/ OnKernelFetched(n) \/ OnServe(n) \/ OnGetKernel(n)
    BY <2>5 DEF OnKernel, OnIssue, OnIoDone, OnStoreDone, OnIoFailed, OnKernelFetched, OnServe,
                OnGetKernel, Handling, shipVars
  <2>6. CASE \E id \in eng[n].finished : Poll(n, id)
    BY <2>6 DEF Poll, shipVars
  <2>7. CASE IssueAlloc(n) \/ IssueFree(n) \/ IssueIo(n) \/ Launch(n) \/ AwaitKernel(n)
    BY <2>7 DEF IssueAlloc, IssueFree, IssueIo, Launch, AwaitKernel, Issuing, shipVars
  <2> QED BY <2>1, <2>2, <2>3, <2>4, <2>5, <2>6, <2>7 DEF Engine
<1> QED BY <1>1, <1>2

LEMMA TasksStep ==
    ASSUME OnPods(task), TasksOk, [Next]_vars
    PROVE  TasksOk'
<1>1. jobName' = jobName
  BY JobKept
<1>2. Pods' = Pods
  BY <1>1, JobStays
<1>3. CASE UNCHANGED task
  BY <1>2, <1>3 DEF TasksOk
<1>4. ASSUME NEW n \in Pods, NEW id \in DOMAIN task[n],
             LoadDone(n, id) \/ StoreDone(n, id) \/ IoError(n, id)
      PROVE  TasksOk'
  <2>1. task' = [task EXCEPT ![n] = Without(task[n], id)]
    BY <1>4 DEF LoadDone, StoreDone, IoError
  <2> QED BY <1>2, <2>1, TasksStay
<1>5. ASSUME NEW n \in Pods, NEW id \in DOMAIN task[n], AskTile(n, id)
      PROVE  TasksOk'
  <2> DEFINE mine == [task[n] EXCEPT ![id].state = "asked"]
  <2>1. task' = [task EXCEPT ![n] = mine]
    BY <1>5 DEF AskTile
  <2>2. \A i \in DOMAIN mine : "state" \in DOMAIN mine[i]
    BY DEF TasksOk
  <2> HIDE DEF mine
  <2> QED BY <1>2, <2>1, <2>2, TaskWritten
<1>6. ASSUME NEW n \in Pods, IssueIo(n)
      PROVE  TasksOk'
  <2> DEFINE id == Head(eng[n].ready)
  <2>1. CASE Code(n, id).op = "load"
    <3>1. task' = [task EXCEPT ![n] = Put(task[n], id, [state |-> "reading", data |-> Garbage])]
      BY <1>6, <2>1 DEF IssueIo
    <3> QED BY <1>2, <3>1, TaskIssues
  <2>2. CASE Code(n, id).op = "fetch"
    <3>1. task' = [task EXCEPT ![n] = Put(task[n], id, [state |-> "asking", data |-> Garbage])]
      BY <1>6, <2>2 DEF IssueIo
    <3> QED BY <1>2, <3>1, TaskIssues
  <2>3. CASE Code(n, id).op = "store"
    <3> DEFINE data == At(n, eng[n].tiles[id[2]].addr)
    <3>1. task' = [task EXCEPT ![n] = Put(task[n], id, [state |-> "writing", data |-> data])]
      BY <1>6, <2>3 DEF IssueIo
    <3> HIDE DEF data
    <3> QED BY <1>2, <3>1, TaskIssues
  <2> QED BY <1>6, <2>1, <2>2, <2>3 DEF IssueIo, Issuing
<1>7. ASSUME NEW n \in Pods, OnServe(n) PROVE TasksOk'
  <2> DEFINE msg     == Head(queue[n])
             request == [tile |-> msg.tile, to |-> msg.to, id |-> msg.id]
             data    == At(n, eng[n].tiles[msg.tile].addr)
  <2>1. Reply({request}, data) \/ UNCHANGED task
    BY <1>7 DEF OnServe
  <2> HIDE DEF request, data
  <2> QED BY <1>2, <1>3, <2>1, TasksAnswered
<1>8. ASSUME NEW n \in Pods, OnIoDone(n) PROVE TasksOk'
  <2>1. Reply(Waiters(eng[n], Head(queue[n]).id[2]), Head(queue[n]).data)
    BY <1>8 DEF OnIoDone
  <2> QED BY <1>2, <2>1, TasksAnswered
<1>9. ASSUME NEW n \in Pods, NEW id, Poll(n, id) PROVE TasksOk'
  <2> DEFINE e == [eng[n] EXCEPT !.running = Without(@, id), !.finished = @ \ {id}]
  <2>1. Reply(Waiters(e, id[2]), At(n, e.tiles[id[2]].addr))
    BY <1>9 DEF Poll
  <2> HIDE DEF e
  <2> QED BY <1>2, <2>1, TasksAnswered
<1> QED
  <2>1. CASE UNCHANGED vars
    BY <1>3, <2>1 DEF vars, ioVars
  <2>2. ASSUME NEW n \in Pods, World(n) PROVE TasksOk'
    BY <1>3, <1>4, <1>5, <2>2 DEF World, ReceiveKernel, Ship, Finish, AskKernel, KernelArrives, ioVars
  <2>3. ASSUME NEW n \in Pods, Engine(n) PROVE TasksOk'
    BY <1>3, <1>6, <1>7, <1>8, <1>9, <2>3
    DEF Engine, Begin, EndDrain, EndPoll, EndRound, OnKernel, OnIssue, OnStoreDone, OnIoFailed,
        OnKernelFetched, OnGetKernel, IssueAlloc, IssueFree, Launch, AwaitKernel, ioVars
  <2> QED BY <1>4, <2>1, <2>2, <2>3 DEF Next

-----------------------------------------------------------------------------
(* The inductive invariant *)

Turns ==
    /\ turn \in Pods \cup {Nobody} /\ phase \in {"drain", "poll", "issue"}
    /\ got \in BOOLEAN /\ ioFailed \in 0..MaxIoFail

IInv == jobName \in DOMAIN Jobs /\ Turns /\ TasksOk /\ Holds

LEMMA TurnsStep ==
    ASSUME Turns, [Next]_vars
    PROVE  Turns' /\ jobName' = jobName
<1>1. MaxIoFail \in Nat
  BY PodAssumption
<1>2. CASE UNCHANGED vars
  BY <1>2 DEF vars, roundVars, ioVars, shipVars, Turns, Pods, Job, Catalog
<1>3. ASSUME Next
      PROVE  /\ turn' \in Pods \cup {turn, Nobody} /\ phase' \in {phase, "drain", "poll", "issue"}
             /\ got' \in BOOLEAN \cup {got}
             /\ ioFailed' = ioFailed \/ (ioFailed < MaxIoFail /\ ioFailed' = ioFailed + 1)
  <2>1. PICK n \in Pods : World(n) \/ Engine(n) \/ \E id \in DOMAIN task[n] : IoError(n, id)
    BY <1>3 DEF Next
  <2>2. CASE World(n)
    BY <2>2 DEF World, ReceiveKernel, Ship, Finish, LoadDone, StoreDone, AskTile, AskKernel,
                KernelArrives, roundVars, ioVars, shipVars
  <2>3. CASE \E id \in DOMAIN task[n] : IoError(n, id)
    BY <2>3 DEF IoError, roundVars, shipVars
  <2>4. CASE \/ Begin(n) \/ EndDrain(n) \/ EndPoll(n) \/ EndRound(n)
    BY <2>4 DEF Begin, EndDrain, EndPoll, EndRound, ioVars, shipVars
  <2>5. CASE \/ OnKernel(n) \/ OnIssue(n) \/ OnIoDone(n) \/ OnStoreDone(n) \/ OnIoFailed(n)
             \/ OnKernelFetched(n) \/ OnServe(n) \/ OnGetKernel(n)
    BY <2>5 DEF OnKernel, OnIssue, OnIoDone, OnStoreDone, OnIoFailed, OnKernelFetched, OnServe,
                OnGetKernel, Handling, shipVars
  <2>6. CASE \E id \in eng[n].finished : Poll(n, id)
    BY <2>6 DEF Poll, roundVars, shipVars
  <2>7. CASE IssueAlloc(n) \/ IssueFree(n) \/ IssueIo(n) \/ Launch(n) \/ AwaitKernel(n)
    BY <2>7 DEF IssueAlloc, IssueFree, IssueIo, Launch, AwaitKernel, Issuing, roundVars, shipVars
  <2> QED BY <2>1, <2>2, <2>3, <2>4, <2>5, <2>6, <2>7 DEF Engine
<1>4. jobName' = jobName
  BY JobKept
<1>5. CASE Next
  <2>1. Pods' = Pods
    BY <1>4, JobStays
  <2> QED BY <1>1, <1>3, <1>4, <1>5, <2>1 DEF Turns
<1> QED BY <1>2, <1>4, <1>5

LEMMA HoldsStep ==
    ASSUME Holds, TasksOk, [Next]_vars
    PROVE  Holds'
<1>1. CASE UNCHANGED vars
  <2>1. UNCHANGED <<queue, eng, mem, ioVars, shipVars, outVars>>
    BY <1>1 DEF vars
  <2> QED BY <2>1, TurnHolds
<1>2. ASSUME NEW n \in Pods, World(n) PROVE Holds'
  BY <1>2, PostHolds, TaskHolds, WorkHolds, AskTileHolds DEF World
<1>3. ASSUME NEW n \in Pods, Engine(n) PROVE Holds'
  <2>1. CASE Begin(n) \/ EndDrain(n) \/ EndPoll(n)
    <3>1. UNCHANGED <<queue, eng, mem, ioVars, shipVars, outVars>>
      BY <2>1 DEF Begin, EndDrain, EndPoll
    <3> QED BY <3>1, TurnHolds
  <2>2. CASE \/ OnKernel(n) \/ OnIssue(n) \/ OnStoreDone(n) \/ OnIoFailed(n)
             \/ OnKernelFetched(n) \/ OnGetKernel(n)
    BY <2>2, ReadHolds
  <2>3. CASE EndRound(n) \/ IssueAlloc(n) \/ IssueFree(n) \/ Launch(n) \/ AwaitKernel(n)
    BY <2>3, WorkHolds
  <2>4. CASE IssueIo(n)
    BY <2>4, IssueIoHolds
  <2>5. CASE OnServe(n)
    BY <2>5, ParkHolds, ServeHolds
  <2>6. CASE OnIoDone(n)
    BY <2>6, OnIoDoneHolds
  <2>7. CASE \E id \in eng[n].finished : Poll(n, id)
    BY <2>7, PollHolds
  <2> QED BY <1>3, <2>1, <2>2, <2>3, <2>4, <2>5, <2>6, <2>7 DEF Engine
<1>4. ASSUME NEW n \in Pods, NEW id \in DOMAIN task[n], IoError(n, id) PROVE Holds'
  BY <1>4, TaskHolds
<1> QED BY <1>1, <1>2, <1>3, <1>4 DEF Next

LEMMA NothingListed ==
    /\ \A S : <<>> \in Seq(S) /\ IsInjective(<<>>)
    /\ DOMAIN <<>> = {} /\ ToSet(<<>>) = {} /\ IsMap(<<>>)
<1>1. DOMAIN <<>> = {}
  OBVIOUS
<1>2. \A S : <<>> \in Seq(S)
  OBVIOUS
<1>3. IsMap(<<>>)
  BY DEF IsMap
<1>4. IsInjective(<<>>) /\ ToSet(<<>>) = {}
  BY <1>1 DEF IsInjective, ToSet
<1> QED BY <1>1, <1>2, <1>3, <1>4

LEMMA IdleGood ==
    ASSUME NEW n, NEW B, Context(n, {}, B)
    PROVE  Good(n, Idle, {}, {}, B)
<1>1. /\ IsEngine(Idle) /\ Idle.table = {} /\ Idle.ready = <<>> /\ Idle.allocs = <<>>
      /\ Idle.frees = <<>> /\ Idle.waiting = <<>> /\ Idle.running = <<>> /\ Idle.finished = {}
      /\ Idle.tiles = <<>> /\ Idle.slabs = <<>> /\ Idle.bump = 0 /\ Idle.completions = {}
  <2>1. IsEngine(Idle)
    BY DEF Idle, IsEngine, Fields
  <2>2. /\ Idle.table = {} /\ Idle.ready = <<>> /\ Idle.allocs = <<>> /\ Idle.frees = <<>>
        /\ Idle.waiting = <<>> /\ Idle.running = <<>> /\ Idle.finished = {}
    BY DEF Idle
  <2>3. Idle.tiles = <<>> /\ Idle.slabs = <<>> /\ Idle.bump = 0 /\ Idle.completions = {}
    BY DEF Idle
  <2> QED BY <2>1, <2>2, <2>3
<1>2. Placed(Idle) = {} /\ Done(Idle, {}) = {}
  BY <1>1, NothingListed DEF Placed, Done
<1>3. Job.arena \in Nat
  BY TheJob DEF Context
<1> HIDE DEF Idle
<1>4. ListsOfIds(n, Idle) /\ OpsOk(n, Idle)
  BY <1>1, NothingListed DEF ListsOfIds, ListOf, OpsOk
<1>5. Apart(Idle, {}) /\ InTable(n, Idle, {})
  BY <1>1, <1>2, NothingListed DEF Apart, InTable
<1>6. DoneOk(n, Idle, {}) /\ DepsOk(n, Idle, {}, {})
  BY <1>1, <1>2 DEF DoneOk, DepsOk
<1>7. ArenaOk(Idle)
  BY <1>1, <1>3, NothingListed DEF ArenaOk, TilesOk, ListsOk, BelowBump, TilesClear,
     TilesClearOfLists, ListsClear
<1>8. TilesKnown(n, Idle, {}) /\ FreesKnown(n, Idle, {}) /\ ServesOk(n, Idle, {}, B)
  BY <1>1, <1>2, NothingListed DEF TilesKnown, FreesKnown, ServesOk
<1> QED BY <1>1, <1>4, <1>5, <1>6, <1>7, <1>8 DEF Good, Orderly, Stocked

LEMMA InitHolds ==
    ASSUME Init
    PROVE  IInv
<1>1. jobName \in DOMAIN Jobs /\ MaxIoFail \in Nat
  <2>1. jobName \in DOMAIN Jobs
    BY DEF Init, Catalog
  <2>2. MaxIoFail \in Nat
    BY PodAssumption
  <2> QED BY <2>1, <2>2
<1>2. Turns
  <2>1. turn = Nobody /\ phase = "drain" /\ got = FALSE /\ ioFailed = 0
    BY DEF Init
  <2>2. turn \in Pods \cup {Nobody} /\ phase \in {"drain", "poll", "issue"} /\ got \in BOOLEAN
    BY <2>1, Zenon
  <2>3. ioFailed \in 0..MaxIoFail
    BY <1>1, <2>1
  <2> QED BY <2>2, <2>3 DEF Turns
<1>3. Shape
  <2>1. \A f : f = [m \in Pods |-> f[m]] => OnPods(f)
    BY DEF OnPods, IsMap
  <2>2. /\ queue = [m \in Pods |-> queue[m]] /\ eng = [m \in Pods |-> eng[m]]
        /\ task = [m \in Pods |-> task[m]] /\ kreq = [m \in Pods |-> kreq[m]]
        /\ mem = [m \in Pods |-> mem[m]]
    BY DEF Init
  <2>3. /\ stream = [m \in Pods |-> stream[m]] /\ shipped = [m \in Pods |-> shipped[m]]
        /\ reported = [m \in Pods |-> reported[m]] /\ failed = [m \in Pods |-> failed[m]]
    BY DEF Init
  <2> QED BY <2>1, <2>2, <2>3 DEF Shape
<1>4. ASSUME NEW n \in Pods
      PROVE  /\ queue[n] = <<>> /\ eng[n] = Idle /\ task[n] = <<>> /\ kreq[n] = <<>>
             /\ stream[n] = SentKernels(jobName, n) /\ shipped[n] = 0
             /\ reported[n] = {} /\ failed[n] = {}
  BY DEF Init
<1>5. TasksOk
  BY <1>4, NothingListed DEF TasksOk
<1>6. /\ Of(<<>>, {"Serve"}) = {} /\ Of(<<>>, IoTypes) = {} /\ Of(<<>>, {"Issue"}) = {}
  BY NothingListed DEF Of
<1>7. Told(<<>>) = {} /\ InHand(<<>>, {}) = {} /\ Unhandled(<<>>) = {} /\ Asked(<<>>) = {}
  BY <1>6 DEF Told, InHand, Unhandled, Asked
<1>8. /\ Idle.io = 0 /\ Idle.kernels = {} /\ Idle.fetching = {} /\ Idle.parked = {}
      /\ Idle.table = {} /\ Idle.completions = {}
  BY DEF Idle
<1> HIDE DEF Idle
<1>9. ASSUME NEW n \in Pods PROVE Is(n, Bound)
  <2>1. Context(n, {}, Bound[n])
    BY <1>1, BoundIs DEF Context
  <2>2. Good(n, Idle, InHand(<<>>, {}), {}, Bound[n])
    BY <1>7, <2>1, IdleGood
  <2>3. PostOk(n, Idle, <<>>, {})
    <3>1. IsQueue(<<>>) /\ MailOk(<<>>, {})
      BY <1>6, <1>7, NothingListed DEF IsQueue, MailOk
    <3>2. IsFiniteSet({}) /\ Cardinality({}) = 0
      BY FS_EmptySet
    <3> QED BY <1>7, <1>8, <3>1, <3>2, NothingListed DEF PostOk
  <2>4. KernelsOk(Idle, {}, SentKernels(jobName, n))
    <3>1. <<0, 1>> \in Seq(Leaves)
      BY DEF Leaves
    <3>2. SentKernels(jobName, n) \in Seq(Leaves)
      BY <3>1, OnlyIs DEF SentKernels
    <3> QED BY <1>8, <3>2, FS_EmptySet DEF KernelsOk
  <2>5. ShippedOk(n, Idle, <<>>, 0, {})
    <3>1. Len(Segs(n)) \in Nat
      BY <1>1, SegsIs
    <3>2. Handled(<<>>, 0) = {}
      BY DEF Handled
    <3>3. IssuesOk(<<>>, 0)
      BY <1>6, <3>2 DEF IssuesOk
    <3>4. Idle.table \cup Done(Idle, {}) = {}
      BY <1>8 DEF Done
    <3> QED BY <3>1, <3>2, <3>3, <3>4 DEF ShippedOk
  <2> HIDE DEF Pods
  <2> QED BY <1>4, <2>1, <2>2, <2>3, <2>4, <2>5, NothingListed DEF Is, Node
<1>10. All(Bound)
  BY <1>1, <1>3, <1>9 DEF All
<1>11. RequestsOk
  <2>1. \A h \in Pods : Asks(h) = {} /\ AskedOnce(queue[h], eng[h].parked)
    BY <1>4, <1>6, <1>7, <1>8 DEF Asks, AskedOnce
  <2>2. \A h \in Pods : FetchesOk(h)
    BY <1>4, NothingListed DEF FetchesOk
  <2> QED BY <2>1, <2>2 DEF RequestsOk
<1> QED BY <1>1, <1>2, <1>5, <1>10, <1>11 DEF IInv, Holds

(* Every state the engines reach is as IInv says: IInv holds at first and  *)
(* every step keeps it.                                                    *)
THEOREM Invariance == Spec => []IInv
<1>1. Init => IInv
  BY InitHolds
<1>2. IInv /\ [Next]_vars => IInv'
  <2> SUFFICES ASSUME IInv, [Next]_vars PROVE IInv'
    OBVIOUS
  <2>1. jobName' = jobName /\ Turns'
    BY TurnsStep DEF IInv
  <2>2. OnPods(task)
    <3>1. PICK b : b = Bound
      OBVIOUS
    <3> QED BY <3>1, TheBound, AllParts DEF IInv
  <2>3. TasksOk' /\ Holds'
    BY <2>2, TasksStep, HoldsStep DEF IInv
  <2> QED BY <2>1, <2>3 DEF IInv
<1> QED BY <1>1, <1>2, PTL DEF Spec

-----------------------------------------------------------------------------
(* What follows *)

(* Every variable keeps its type, in particular what is parked, in flight  *)
(* or under way in an engine is an instruction still in its table, and     *)
(* what it completed is not.                                               *)
THEOREM Types == Spec => []TypeOK
<1>1. IInv => TypeOK
  <2> SUFFICES ASSUME IInv PROVE TypeOK
    OBVIOUS
  <2>1. PICK b : b = Bound
    OBVIOUS
  <2>2. All(b)
    BY <2>1, TheBound DEF IInv
  <2>3. ASSUME NEW n \in Pods
        PROVE  /\ eng[n].table \subseteq AllIds(n)
               /\ ToSet(eng[n].ready) \cup ToSet(eng[n].allocs) \cup ToSet(eng[n].frees)
                    \cup ToSet(eng[n].waiting) \cup DOMAIN eng[n].running \cup DOMAIN task[n]
                    \subseteq eng[n].table
               /\ eng[n].finished \subseteq DOMAIN eng[n].running
               /\ eng[n].io \in Nat /\ eng[n].bump \in 0..Job.arena
               /\ eng[n].kernels \cup eng[n].fetching \cup DOMAIN kreq[n] \subseteq Leaves
               /\ eng[n].completions \cup reported[n] \subseteq AllIds(n) \ eng[n].table
               /\ failed[n] \subseteq AllIds(n)
               /\ shipped[n] \in 0..Len(Segs(n))
    <3> DEFINE L == InHand(queue[n], DOMAIN task[n])
    <3>1. /\ Good(n, eng[n], L, reported[n], b[n])
          /\ PostOk(n, eng[n], queue[n], DOMAIN task[n])
          /\ eng[n].kernels \subseteq Leaves /\ eng[n].fetching \subseteq Leaves
          /\ ShippedOk(n, eng[n], queue[n], shipped[n], reported[n])
          /\ failed[n] \subseteq AllIds(n)
      BY <2>2, NodeParts
    <3>2. DOMAIN kreq[n] \subseteq Leaves
      BY <2>2, AllParts
    <3>3. DOMAIN task[n] \subseteq L
      BY DEF InHand
    <3>4. IsFiniteSet(L) /\ eng[n].io = Cardinality(L)
      BY <3>1 DEF PostOk
    <3>5. shipped[n] \in 0..Len(Segs(n))
      BY <3>1 DEF ShippedOk
    <3> HIDE DEF L, Pods
    <3>6. InTable(n, eng[n], L) /\ DoneOk(n, eng[n], reported[n]) /\ ArenaOk(eng[n])
      BY <3>1 DEF Good, Orderly, Stocked
    <3>7. eng[n].io \in Nat
      BY <3>4, FS_CardinalityType
    <3>8. eng[n].bump \in 0..Job.arena
      BY <3>6 DEF ArenaOk, BelowBump
    <3>9. /\ eng[n].table \subseteq AllIds(n)
          /\ ToSet(eng[n].ready) \cup ToSet(eng[n].allocs) \cup ToSet(eng[n].frees)
                \cup ToSet(eng[n].waiting) \cup DOMAIN eng[n].running \cup DOMAIN task[n]
                \subseteq eng[n].table
          /\ eng[n].finished \subseteq DOMAIN eng[n].running
      BY <3>3, <3>6 DEF InTable, Placed
    <3>10. eng[n].completions \cup reported[n] \subseteq AllIds(n) \ eng[n].table
      BY <3>6 DEF DoneOk, Done
    <3> QED BY <3>1, <3>2, <3>5, <3>7, <3>8, <3>9, <3>10
  <2> HIDE DEF Pods
  <2> QED BY <2>3 DEF TypeOK, IInv, Turns, Catalog
<1> QED BY <1>1, Invariance, PTL

(* Two slabs of one engine, in use or on a free list.                      *)
LEMMA SlabsApart ==
    ASSUME NEW e, ArenaOk(e), jobName \in DOMAIN Jobs, NEW s \in Slabs(e), NEW t \in Slabs(e)
    PROVE  /\ s[1] + s[2] <= Job.arena
           /\ s # t => Clear(s[1], s[2], t[1], t[2])
<1> DEFINE InUse(u, k)   == k \in DOMAIN e.tiles /\ u = <<e.tiles[k].addr, e.tiles[k].class, k>>
           Free1(u, c, i) == /\ c \in DOMAIN e.slabs /\ i \in DOMAIN e.slabs[c]
                            /\ u = <<e.slabs[c][i], c, i>>
<1>1. ASSUME NEW u \in Slabs(e) PROVE (\E k : InUse(u, k)) \/ \E c, i : Free1(u, c, i)
  BY DEF Slabs
<1>2. Job.arena \in Nat
  BY TheJob
<1>3. e.bump \in Nat /\ e.bump <= Job.arena
  BY <1>2 DEF ArenaOk, BelowBump
<1>4. ASSUME NEW u, NEW k, InUse(u, k)
      PROVE  /\ u[1] = e.tiles[k].addr /\ u[2] = e.tiles[k].class /\ k \in DOMAIN e.tiles
             /\ u[1] \in Nat /\ u[2] \in Nat /\ u[1] + u[2] <= e.bump
  BY <1>4 DEF ArenaOk, TilesOk, Buffers, BelowBump
<1>5. ASSUME NEW u, NEW c, NEW i, Free1(u, c, i)
      PROVE  /\ u[1] = e.slabs[c][i] /\ u[2] = c /\ c \in DOMAIN e.slabs /\ i \in DOMAIN e.slabs[c]
             /\ u[1] \in Nat /\ u[2] \in Nat /\ u[1] + u[2] <= e.bump
  <2>1. /\ u[1] = e.slabs[c][i] /\ u[2] = c /\ c \in DOMAIN e.slabs /\ i \in DOMAIN e.slabs[c]
    BY <1>5
  <2>2. c \in Nat /\ e.slabs[c] \in Seq(Nat) /\ e.slabs[c][i] + c <= e.bump
    BY <2>1 DEF ArenaOk, ListsOk, BelowBump
  <2>3. e.slabs[c][i] \in Nat
    BY <2>1, <2>2, LenProperties, ElementOfSeq
  <2> QED BY <2>1, <2>2, <2>3
<1>6. s[1] + s[2] <= Job.arena
  <2>1. s[1] \in Nat /\ s[2] \in Nat /\ s[1] + s[2] <= e.bump
    BY <1>1, <1>4, <1>5
  <2> QED BY <1>2, <1>3, <2>1
<1>7. ASSUME s # t PROVE Clear(s[1], s[2], t[1], t[2])
  <2>1. ASSUME NEW k, InUse(s, k), NEW l, InUse(t, l) PROVE Clear(s[1], s[2], t[1], t[2])
    <3>1. k # l
      BY <1>7, <2>1
    <3> QED BY <1>4, <2>1, <3>1 DEF ArenaOk, TilesClear
  <2>2. ASSUME NEW k, InUse(s, k), NEW c, NEW i, Free1(t, c, i) PROVE Clear(s[1], s[2], t[1], t[2])
    BY <1>4, <1>5, <2>2 DEF ArenaOk, TilesClearOfLists
  <2>3. ASSUME NEW k, InUse(t, k), NEW c, NEW i, Free1(s, c, i) PROVE Clear(s[1], s[2], t[1], t[2])
    <3>1. Clear(t[1], t[2], s[1], s[2])
      BY <1>4, <1>5, <2>3 DEF ArenaOk, TilesClearOfLists
    <3> QED BY <3>1 DEF Clear
  <2>4. ASSUME NEW c, NEW i, Free1(s, c, i), NEW d, NEW j, Free1(t, d, j)
        PROVE  Clear(s[1], s[2], t[1], t[2])
    <3>1. <<c, i>> # <<d, j>>
      BY <1>7, <2>4
    <3> QED BY <1>5, <2>4, <3>1 DEF ArenaOk, ListsClear
  <2> QED BY <1>1, <2>1, <2>2, <2>3, <2>4
<1> QED BY <1>6, <1>7

(* No two buffers in use overlap, none overlaps a slab on a free list, and *)
(* all lie within the arena, whatever the sizes of the tiles and the order *)
(* of ALLOCs and FREEs.                                                    *)
THEOREM ArenaNeverOverlaps == Spec => []SlabsDisjoint
<1>1. IInv => SlabsDisjoint
  <2> SUFFICES ASSUME IInv PROVE SlabsDisjoint
    OBVIOUS
  <2>1. PICK b : b = Bound
    OBVIOUS
  <2>2. All(b) /\ jobName \in DOMAIN Jobs
    BY <2>1, TheBound DEF IInv
  <2>3. ASSUME NEW n \in Pods PROVE ArenaOk(eng[n])
    <3>1. Good(n, eng[n], InHand(queue[n], DOMAIN task[n]), reported[n], b[n])
      BY <2>2, NodeParts
    <3> QED BY <3>1 DEF Good, Stocked
  <2> QED BY <2>2, <2>3, SlabsApart DEF SlabsDisjoint, Clear
<1> QED BY <1>1, Invariance, PTL

(* A tile is not freed on its home while a node's FETCH of it has not been *)
(* answered: a FREE waits for as many serves as there are FETCHes, and     *)
(* each FETCH is served once.                                              *)
THEOREM NeverFreedEarly == Spec => []ServedBeforeFreed
<1>1. IInv => ServedBeforeFreed
  <2> SUFFICES ASSUME IInv, NEW m \in Pods, NEW id \in DOMAIN task[m],
                      task[m][id].state \in {"asking", "asked"},
                      Free(id[2]) \in Done(eng[Code(m, id).from], reported[Code(m, id).from])
               PROVE  FALSE
    BY DEF ServedBeforeFreed, Done
  <2> DEFINE t == id[2]
             x == Code(m, id).from
             P == Peers(Job, x, t)
             W == Waits(x, t)
  <2>1. PICK b : b = Bound
    OBVIOUS
  <2>2. All(b) /\ RequestsOk /\ jobName \in DOMAIN Jobs
    BY <2>1, TheBound DEF IInv
  <2>3. id \in AllIds(m) /\ Code(m, id).op = "fetch"
        /\ (task[m][id].state = "asked" => RequestFor(m, id) \in Asks(x))
    BY <2>2, TaskIssued DEF RequestsOk, FetchesOk
  <2>4. Context(m, reported[m], b[m])
    BY <2>2, NodeParts
  <2>5. id = Ingest(t) /\ x \in Pods /\ IsFetch(m, id, x)
    BY <2>3, <2>4, NameIs DEF IsFetch
  <2> HIDE DEF t, x, Pods
  <2>6. m \in P /\ m \in W
    <3>1. m \in P
      BY <2>5, PeerIs
    <3>2. TaskIs(m, id, "asking") \/ RequestFor(m, id) \in Asks(x)
      BY <2>3 DEF TaskIs
    <3> QED BY <2>5, <3>1, <3>2 DEF Waits
  <2>7. Context(x, reported[x], b[x])
        /\ Good(x, eng[x], InHand(queue[x], DOMAIN task[x]), reported[x], b[x])
    BY <2>2, <2>5, NodeParts
  <2>8. Free(t) \in Done(eng[x], reported[x]) /\ Free(t) \in AllIds(x) /\ Free(t)[2] = t
    <3>1. DoneOk(x, eng[x], reported[x])
      BY <2>7 DEF Good, Orderly
    <3>2. Free(t) \in Done(eng[x], reported[x])
      BY DEF t, x
    <3> QED BY <3>1, <3>2 DEF DoneOk, Free
  <2>9. Code(x, Free(t)).op = "free" /\ t \in TileSet(x) /\ Code(x, Free(t)).serves \in Nat
    BY <2>7, <2>8, NameIs
  <2>10. Code(x, Free(t)).serves <= b[x][t]
    BY <2>7, <2>8, <2>9 DEF Good, Stocked, ServesOk
  <2>11. b[x][t] = Cardinality(P \ W)
    BY <2>1, <2>5, <2>9 DEF Bound
  <2>12. Cardinality(P) <= Code(x, Free(t)).serves
    <3>1. Counted(Job, x)
      BY <2>2, <2>5, TheJob
    <3> QED BY <2>8, <2>9, <3>1 DEF Counted, Code, AllIds
  <2>13. IsFiniteSet(P)
    BY <2>2, PeersFinite
  <2> HIDE DEF P, W
  <2>14. /\ Cardinality(P \ W) \in Nat /\ Cardinality(P \ {}) \in Nat /\ Cardinality({m}) \in Nat
         /\ Cardinality(P \ W) + Cardinality({m}) <= Cardinality(P \ {})
    BY <2>6, <2>13, FewerLeft
  <2>15. Cardinality({m}) = 1 /\ P \ {} = P
    BY FS_Singleton
  <2> QED BY <2>9, <2>10, <2>11, <2>12, <2>14, <2>15
<1> QED BY <1>1, Invariance, PTL
==============================================================================
