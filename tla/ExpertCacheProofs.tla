--------------------------- MODULE ExpertCacheProofs ---------------------------
(***************************************************************************)
(* Theorems about ExpertCache, for every number of blocks, experts and     *)
(* slots, and all traffic: its variables keep their types, the maps of     *)
(* both caches agree, and no pass runs out of slots.                       *)
(***************************************************************************)
EXTENDS ExpertCache, ListProofs

(* A block's device slots include as many as it may be given.              *)
LEMMA DeviceSlots ==
    /\ MaxOf(PerBlocks) \in Nat
    /\ \A n \in PerBlocks : n \in Nat \ {0} /\ Used <= n /\ 1..n \subseteq DeviceSlot
<1>1. /\ PerBlocks # {} /\ PerBlocks \subseteq Used..Experts
      /\ Used \in Nat \ {0} /\ Experts \in Nat
  BY CacheAssumption
<1> DEFINE T == {Experts - n : n \in PerBlocks}
<1>2. \E m \in PerBlocks : \A k \in PerBlocks : k <= m
  <2>1. T \in SUBSET Nat /\ T # {}
    <3>1. \A n \in PerBlocks : Experts - n \in Nat
      BY <1>1
    <3> QED BY <1>1, <3>1
  <2>2. PICK x \in T : \A y \in T : x <= y
    BY <2>1, LeastExists
  <2>3. PICK m \in PerBlocks : x = Experts - m
    OBVIOUS
  <2>4. ASSUME NEW k \in PerBlocks PROVE k <= m
    <3>1. Experts - m <= Experts - k
      BY <2>2, <2>3
    <3> QED BY <1>1, <3>1
  <2> QED BY <2>4
<1>3. MaxOf(PerBlocks) \in PerBlocks /\ \A k \in PerBlocks : k <= MaxOf(PerBlocks)
  BY <1>2 DEF MaxOf
<1>4. \A n \in PerBlocks : n \in Nat \ {0} /\ Used <= n
  BY <1>1
<1>5. ASSUME NEW n \in PerBlocks PROVE 1..n \subseteq DeviceSlot
  BY <1>3, <1>4 DEF DeviceSlot
<1> QED BY <1>3, <1>4, <1>5

-----------------------------------------------------------------------------
(* The inductive invariant *)

Slots == 1..traffic.slots
Bytes == (Block \X Expert) \cup {Nobody}
Kinds == {"decode", "rows", "prompt"}
Copies == [op : {"copy"}, id : Nat, src : HostSlot, bytes : Bytes, block : Block,
           slot : DeviceSlot, of : 0..Experts]
Landed == [expert : 0..Experts, stray : BOOLEAN]
Ops == Copies \cup [op : {"wait"}, id : Nat] \cup [op : {"add"}]
       \cup [op : {"kernel"}, block : Block, reads : SUBSET (DeviceSlot \X Expert)]
RefillsTo(t) == [block : Block, expert : Expert, slot : 0..HostSlots, tick : 0..t]
Wants == [block : Block, expert : Expert, slot : 1..per, tick : 0..tick,
          stream : {"main", "copy"}, then : {"place", "refill", "choose"}]

LruOk == lru \in Seq(HostSlot) /\ IsInjective(lru) /\ ToSet(lru) = Slots

HostMaps ==
    /\ owner \in [HostSlot -> Bytes] /\ hostOf \in [Block -> [Expert -> 0..traffic.slots]]
    /\ \A s \in HostSlot, b \in Block, e \in Expert : hostOf[b][e] = s <=> owner[s] = <<b, e>>

ContentTypes ==
    /\ content \in [HostSlot -> Bytes] /\ planned \in Seq(Block \X Expert)
    /\ batch \subseteq [slot : HostSlot, of : Block \X Expert]

EventTypes ==
    /\ issued \in Nat /\ done \in [HostSlot -> 0..issued] /\ fetched \in [Block -> 0..issued]
    /\ arriving \in [Block -> SUBSET (1..per)]

QueueTypes == \A q \in {jobs, results, received, refills, todo} : q \in Seq(RefillsTo(tick))

(* The slots the host team holds are at most as many as a row's misses.    *)
TeamOk ==
    /\ teamHolds \subseteq HostSlot /\ Cardinality(teamHolds) <= Used /\ team \in BOOLEAN
    /\ holds = [s \in HostSlot |-> IF s \in teamHolds THEN 1 ELSE 0]

DeviceMaps ==
    /\ per \in PerBlocks /\ tick \in Nat
    /\ held \in [Block -> [DeviceSlot -> [expert : 0..Experts, used : 0..tick]]]
    /\ slotOf \in [Block -> [Expert -> 0..per]]
    /\ \A b \in Block, e \in Expert, p \in 1..per : slotOf[b][e] = p <=> held[b][p].expert = e

StreamTypes ==
    /\ main \in Seq(Ops) /\ copy \in Seq(Copies)
    /\ resident \in [Block -> [DeviceSlot -> Landed]] /\ predicted \in [Block -> BOOLEAN]

(* The fill under way is of an expert its block does not have; one of a    *)
(* row is of an expert placed.                                             *)
Filling == pc \in {"fill", "ahead"}
RowUnderWay == pc = "place" \/ (Filling /\ want.then = "place")

WantOk ==
    /\ Filling => want \in Wants /\ slotOf[want.block][want.expert] = NoSlot
    /\ Filling /\ want.then = "place" => want.block = block /\ \E r \in placed : r[2] = want.expert
    /\ left \in 0..Ahead /\ (pc = "ahead" => left <= Len(planned))
    /\ placed \subseteq DeviceSlot \X Expert

ThreadOk ==
    /\ pc \in {"between", "route", "refill", "predict", "choose", "step", "place", "fill", "ahead"}
    /\ traffic \in Traffics /\ pass \in 0..Passes /\ block \in Block
    /\ pc # "between" => pass # 0
    /\ pc = "predict" => block < Blocks

RowsOk ==
    /\ row \in Seq(Expert) /\ IsInjective(row)
    /\ misses \in Seq(Expert) /\ IsInjective(misses)
    /\ later \in Seq(Seq(Expert))
    /\ \A i \in DOMAIN later : IsInjective(later[i]) /\ Cardinality(ToSet(later[i])) <= per
    /\ ~RowUnderWay => row = <<>>
    /\ pc # "step" /\ ~RowUnderWay => misses = <<>> /\ later = <<>>

(* A decode row and the misses left so far are no more than a row chooses. *)
DecodeRow ==
    pass # 0 /\ kind = "decode" =>
        /\ \A i \in DOMAIN later : Cardinality(ToSet(later[i])) <= Used
        /\ later # <<>> => pc = "step" /\ Len(later) = 1 /\ misses = <<>>
        /\ ToSet(row) \cap ToSet(misses) = {}
        /\ Cardinality(ToSet(row) \cup ToSet(misses)) <= Used

(* What is still planned is neither held nor resident, and the row has not *)
(* come to it.                                                             *)
PlannedApart ==
    /\ IsInjective(planned)
    /\ pass # 0 /\ kind # "prompt" => planned = <<>>
    /\ \A x \in ToSet(planned) :
          /\ x[1] = block /\ hostOf[block][x[2]] = NoSlot /\ slotOf[block][x[2]] = NoSlot
          /\ x[2] \in ToSet(row) \/ (Filling /\ want.then = "place" /\ x[2] = want.expert)

(* A block has slots for all experts of the row or group, and the slots    *)
(* stamped for it hold only those.                                         *)
Current == ToSet(row) \cup {r[2] : r \in placed}
RowFits ==
    RowUnderWay /\ ~RowDecodes =>
        /\ IsFiniteSet(Current) /\ Cardinality(Current) <= per
        /\ \A p \in 1..per : held[block][p].used = tick => held[block][p].expert \in Current

IInv == /\ LruOk /\ HostMaps /\ ContentTypes /\ EventTypes /\ QueueTypes /\ TeamOk
        /\ DeviceMaps /\ StreamTypes /\ WantOk /\ ThreadOk /\ RowsOk /\ DecodeRow
        /\ PlannedApart /\ RowFits

-----------------------------------------------------------------------------
(* What the helpers do *)

LEMMA Constants ==
    /\ {Blocks, Experts, Used, HostSlots, Ahead} \subseteq Nat \ {0} /\ Used <= Experts
    /\ \A t \in Traffics : /\ t.slots \in Nat /\ Used < t.slots /\ 1..t.slots \subseteq HostSlot
                           /\ t.kinds \in Seq(Kinds)
<1>1. {Blocks, Experts, Used, HostSlots, Ahead} \subseteq Nat \ {0} /\ Used <= Experts
  BY CacheAssumption
<1>2. ASSUME NEW t \in Traffics
      PROVE  t.slots \in (Used + 1)..HostSlots /\ t.kinds \in Seq(Kinds)
  BY CacheAssumption DEF Kinds
<1>3. ASSUME NEW t \in Traffics
      PROVE  /\ t.slots \in Nat /\ Used < t.slots /\ 1..t.slots \subseteq HostSlot
             /\ t.kinds \in Seq(Kinds)
  BY <1>1, <1>2 DEF HostSlot
<1> QED BY <1>1, <1>3

(* Slots touched are still all there, once each.                           *)
LEMMA TouchedIs ==
    ASSUME LruOk, traffic \in Traffics, UNCHANGED traffic,
           NEW ss \in Seq(Slots), IsInjective(ss), lru' = Touched(ss)
    PROVE  LruOk'
<1> DEFINE rest == Only(lru, HostSlot \ ToSet(ss))
<1>1. lru \in Seq(HostSlot) /\ IsInjective(lru) /\ ToSet(lru) = Slots
  BY DEF LruOk
<1>2. rest \in Seq(HostSlot) /\ ToSet(rest) = ToSet(lru) \cap (HostSlot \ ToSet(ss)) /\ IsInjective(rest)
  BY <1>1, OnlyIs
<1>3. Slots \subseteq HostSlot
  BY Constants DEF Slots
<1>4. ss \in Seq(HostSlot) /\ ToSet(ss) \subseteq Slots
  <2>1. ss \in Seq(HostSlot)
    BY <1>3, SeqMonotonic
  <2>2. DOMAIN ss = 1..Len(ss) /\ \A i \in 1..Len(ss) : ss[i] \in Slots
    BY LenProperties, ElementOfSeq
  <2> QED BY <2>1, <2>2 DEF ToSet
<1> HIDE DEF rest
<1>5. /\ rest \o ss \in Seq(HostSlot) /\ ToSet(rest \o ss) = ToSet(rest) \cup ToSet(ss)
      /\ IsInjective(rest \o ss)
  <2>1. ToSet(rest) \cap ToSet(ss) = {}
    BY <1>2
  <2> QED BY <1>2, <1>4, <2>1, ConcatIs
<1>6. ToSet(rest \o ss) = Slots
  BY <1>1, <1>2, <1>3, <1>4, <1>5
<1>7. lru' = rest \o ss
  BY DEF Touched, rest
<1> QED BY <1>5, <1>6, <1>7 DEF LruOk, Slots

LEMMA TouchedOne ==
    ASSUME LruOk, traffic \in Traffics, UNCHANGED traffic,
           NEW s \in Slots, lru' = Touched(<<s>>)
    PROVE  LruOk'
<1>1. <<s>> \in Seq(Slots) /\ IsInjective(<<s>>)
  BY DEF IsInjective
<1> QED BY <1>1, TouchedIs

(* An expert held is in a slot there is.                                   *)
LEMMA HeldSlot ==
    ASSUME HostMaps, traffic \in Traffics, NEW b \in Block, NEW e \in Expert, hostOf[b][e] # NoSlot
    PROVE  /\ hostOf[b][e] \in Slots /\ hostOf[b][e] \in HostSlot
           /\ owner[hostOf[b][e]] = <<b, e>>
<1>1. hostOf[b][e] \in 0..traffic.slots /\ traffic.slots \in Nat /\ Slots \subseteq HostSlot
  BY Constants DEF HostMaps, Slots
<1>2. hostOf[b][e] \in Slots
  BY <1>1 DEF Slots, NoSlot
<1> QED BY <1>1, <1>2 DEF HostMaps

LEMMA HeldAtIs ==
    ASSUME HostMaps, traffic \in Traffics, NEW b \in Block, NEW es \in Seq(Expert), IsInjective(es)
    PROVE  /\ HeldAt(b, es) \in Seq(Slots) /\ IsInjective(HeldAt(b, es))
           /\ Cardinality(Range(HeldAt(b, es))) <= Cardinality(ToSet(es))
<1> DEFINE S == {e \in Expert : Holds(b, e)}
           there == Only(es, S)
           h == [i \in DOMAIN there |-> hostOf[b][there[i]]]
<1>1. there \in Seq(Expert) /\ ToSet(there) = ToSet(es) \cap S /\ IsInjective(there)
  BY OnlyIs
<1>2. DOMAIN there = 1..Len(there) /\ Len(there) \in Nat
  BY <1>1, LenProperties
<1> HIDE DEF there
<1>3. ASSUME NEW i \in 1..Len(there)
      PROVE  there[i] \in Expert /\ hostOf[b][there[i]] # NoSlot
  <2>1. there[i] \in ToSet(there)
    BY <1>2 DEF ToSet
  <2>2. there[i] \in S
    BY <1>1, <2>1
  <2> QED BY <2>2 DEF Holds
<1>4. ASSUME NEW i \in 1..Len(there)
      PROVE  h[i] \in Slots /\ owner[h[i]] = <<b, there[i]>>
  BY <1>2, <1>3, HeldSlot
<1>5. h \in [1..Len(there) -> Slots]
  BY <1>2, <1>4
<1>6. h \in Seq(Slots)
  BY <1>2, <1>5, SeqDef
<1>7. IsInjective(h)
  <2> SUFFICES ASSUME NEW i \in 1..Len(there), NEW j \in 1..Len(there), h[i] = h[j] PROVE i = j
    BY <1>2 DEF IsInjective
  <2>1. <<b, there[i]>> = <<b, there[j]>>
    BY <1>4
  <2>2. there[i] = there[j]
    BY <2>1
  <2> QED BY <1>1, <1>2, <2>2 DEF IsInjective
<1>8. Range(h) = {hostOf[b][e] : e \in ToSet(there)}
  BY <1>2 DEF Range, ToSet
<1>9. /\ IsFiniteSet(ToSet(es)) /\ Cardinality(ToSet(es)) \in Nat
      /\ IsFiniteSet(ToSet(there)) /\ Cardinality(ToSet(there)) \in Nat
  BY <1>1, ToSetFits
<1>10. Cardinality(Range(h)) <= Cardinality(ToSet(there)) /\ IsFiniteSet(Range(h))
  BY <1>8, <1>9, ImageFits
<1>11. Cardinality(ToSet(there)) <= Cardinality(ToSet(es))
  BY <1>1, <1>9, FS_Subset
<1>12. Cardinality(Range(h)) \in Nat
  BY <1>10, FS_CardinalityType
<1>13. Cardinality(Range(h)) <= Cardinality(ToSet(es))
  BY <1>9, <1>10, <1>11, <1>12
<1>14. HeldAt(b, es) = h
  BY DEF HeldAt, there
<1> HIDE DEF h
<1> QED BY <1>6, <1>7, <1>13, <1>14

(* A claim takes a slot there is; only its old and its new expert are      *)
(* affected.                                                               *)
ClaimDone(s, b, e) ==
    /\ s \in Slots
    /\ \A c \in Block, f \in Expert :
          hostOf'[c][f] = IF c = b /\ f = e THEN s
                          ELSE IF owner[s] = <<c, f>> THEN NoSlot ELSE hostOf[c][f]

LEMMA ClaimIs ==
    ASSUME LruOk, HostMaps, traffic \in Traffics, UNCHANGED traffic,
           NEW s \in HostSlot, NEW b \in Block, NEW e \in Expert, hostOf[b][e] = NoSlot,
           Claim(s, b, e)
    PROVE  LruOk' /\ HostMaps' /\ ClaimDone(s, b, e)
<1>1. s \in Slots
  <2>1. PICK i \in DOMAIN lru : s = lru[i]
    BY DEF Claim, FirstClaimable
  <2> QED BY <2>1 DEF LruOk, ToSet
<1>2. LruOk'
  BY <1>1, TouchedOne DEF Claim
<1>3. /\ owner \in [HostSlot -> Bytes] /\ hostOf \in [Block -> [Expert -> 0..traffic.slots]]
      /\ \A r \in HostSlot, c \in Block, f \in Expert : hostOf[c][f] = r <=> owner[r] = <<c, f>>
  BY DEF HostMaps
<1>4. s # NoSlot /\ s \in 0..traffic.slots /\ traffic.slots \in Nat
  BY <1>1, Constants DEF Slots, NoSlot
<1>5. owner' = [owner EXCEPT ![s] = <<b, e>>]
  BY DEF Claim
<1> DEFINE freed == IF owner[s] = Nobody THEN hostOf
                    ELSE [hostOf EXCEPT ![owner[s][1]][owner[s][2]] = NoSlot]
<1>6. hostOf' = [freed EXCEPT ![b][e] = s]
  BY DEF Claim
<1>7. /\ freed \in [Block -> [Expert -> 0..traffic.slots]]
      /\ \A c \in Block, f \in Expert :
            freed[c][f] = IF owner[s] = <<c, f>> THEN NoSlot ELSE hostOf[c][f]
  <2>1. CASE owner[s] = Nobody
    <3>1. \A c \in Block, f \in Expert : owner[s] # <<c, f>>
      BY <2>1 DEF Nobody, Block
    <3> QED BY <1>3, <2>1, <3>1
  <2>2. CASE owner[s] # Nobody
    <3>1. PICK k \in Block, g \in Expert : owner[s] = <<k, g>>
      BY <1>3, <2>2 DEF Bytes
    <3>2. freed = [hostOf EXCEPT ![k][g] = NoSlot]
      BY <2>2, <3>1
    <3>3. NoSlot \in 0..traffic.slots
      BY <1>4 DEF NoSlot
    <3> HIDE DEF freed
    <3>4. freed \in [Block -> [Expert -> 0..traffic.slots]]
      BY <1>3, <3>2, <3>3
    <3>5. ASSUME NEW c \in Block, NEW f \in Expert
          PROVE  freed[c][f] = IF owner[s] = <<c, f>> THEN NoSlot ELSE hostOf[c][f]
      <4>1. freed[c][f] = IF c = k /\ f = g THEN NoSlot ELSE hostOf[c][f]
        BY <1>3, <3>2
      <4>2. (owner[s] = <<c, f>>) <=> (c = k /\ f = g)
        BY <3>1
      <4> QED BY <4>1, <4>2
    <3> QED BY <3>4, <3>5
  <2> QED BY <2>1, <2>2
<1> HIDE DEF freed
<1>8. hostOf' \in [Block -> [Expert -> 0..traffic.slots]]
  BY <1>4, <1>6, <1>7
<1>9. \A c \in Block, f \in Expert : hostOf'[c][f] = IF c = b /\ f = e THEN s ELSE freed[c][f]
  BY <1>6, <1>7
<1>10. ClaimDone(s, b, e)
  BY <1>1, <1>7, <1>9 DEF ClaimDone
<1>11. owner' \in [HostSlot -> Bytes]
  BY <1>3, <1>5 DEF Bytes
<1>12. ASSUME NEW r \in HostSlot, NEW c \in Block, NEW f \in Expert
       PROVE  hostOf'[c][f] = r <=> owner'[r] = <<c, f>>
  <2>1. owner'[r] = IF r = s THEN <<b, e>> ELSE owner[r]
    BY <1>3, <1>5
  <2>2. hostOf'[c][f] = IF c = b /\ f = e THEN s
                        ELSE IF owner[s] = <<c, f>> THEN NoSlot ELSE hostOf[c][f]
    BY <1>10 DEF ClaimDone
  <2>3. hostOf[c][f] = r <=> owner[r] = <<c, f>>
    BY <1>3
  <2>4. r # NoSlot
    BY DEF HostSlot, NoSlot
  <2>5. CASE c = b /\ f = e
    <3>1. owner[r] # <<b, e>>
      BY <2>3, <2>4, <2>5
    <3> QED BY <2>1, <2>2, <2>5, <3>1
  <2>6. CASE ~(c = b /\ f = e)
    <3>1. <<b, e>> # <<c, f>>
      BY <2>6
    <3>2. CASE owner[s] = <<c, f>>
      <4>1. hostOf[c][f] = s
        BY <1>3, <3>2
      <4>2. r # s => owner[r] # <<c, f>>
        BY <2>3, <4>1
      <4> QED BY <2>1, <2>2, <2>4, <2>6, <3>1, <3>2, <4>2
    <3>3. CASE owner[s] # <<c, f>>
      <4>1. hostOf[c][f] # s
        BY <1>3, <3>3
      <4> QED BY <2>1, <2>2, <2>3, <2>6, <3>1, <3>3, <4>1
    <3> QED BY <3>2, <3>3
  <2> QED BY <2>5, <2>6
<1> QED BY <1>2, <1>8, <1>10, <1>11, <1>12 DEF HostMaps

(* A copy issued: the expert is in its slot, the one before is not.        *)
WantFields(w) ==
    /\ w.block \in Block /\ w.expert \in Expert /\ w.slot \in 1..per /\ w.tick \in 0..tick
    /\ w.stream \in {"main", "copy"} /\ slotOf[w.block][w.expert] = NoSlot

IssueDone(w) ==
    /\ \A b \in Block, e \in Expert :
          slotOf'[b][e] = IF b = w.block /\ e = w.expert THEN w.slot
                          ELSE IF b = w.block /\ held[b][w.slot].expert = e THEN NoSlot
                          ELSE slotOf[b][e]
    /\ \A b \in Block, p \in 1..per :
          held'[b][p] = IF b = w.block /\ p = w.slot THEN [expert |-> w.expert, used |-> w.tick]
                        ELSE held[b][p]

LEMMA IssueMaps ==
    ASSUME DeviceMaps, NEW s, NEW bytes, NEW w, WantFields(w), Issue(s, bytes, w),
           UNCHANGED <<per, tick>>
    PROVE  DeviceMaps' /\ IssueDone(w)
<1>1. /\ per \in PerBlocks /\ tick \in Nat
      /\ held \in [Block -> [DeviceSlot -> [expert : 0..Experts, used : 0..tick]]]
      /\ slotOf \in [Block -> [Expert -> 0..per]]
      /\ \A b \in Block, e \in Expert, p \in 1..per : slotOf[b][e] = p <=> held[b][p].expert = e
  BY DEF DeviceMaps
<1>2. /\ w.block \in Block /\ w.expert \in Expert /\ w.slot \in 1..per /\ w.tick \in 0..tick
      /\ slotOf[w.block][w.expert] = NoSlot
  BY DEF WantFields
<1>3. per \in Nat \ {0} /\ 1..per \subseteq DeviceSlot /\ Experts \in Nat
  BY <1>1, DeviceSlots, Constants
<1> DEFINE old == held[w.block][w.slot].expert
           new == [expert |-> w.expert, used |-> w.tick]
           freed == IF old = NoExpert THEN slotOf ELSE [slotOf EXCEPT ![w.block][old] = NoSlot]
<1>4. held' = [held EXCEPT ![w.block][w.slot] = new] /\ slotOf' = [freed EXCEPT ![w.block][w.expert] = w.slot]
  BY DEF Issue
<1>5. new \in [expert : 0..Experts, used : 0..tick]
  BY <1>2, <1>3 DEF Expert
<1>6. old \in 0..Experts /\ w.slot \in DeviceSlot
  BY <1>1, <1>2, <1>3
<1>7. /\ freed \in [Block -> [Expert -> 0..per]]
      /\ \A b \in Block, e \in Expert :
            freed[b][e] = IF b = w.block /\ old = e THEN NoSlot ELSE slotOf[b][e]
  <2>1. CASE old = NoExpert
    <3>1. \A e \in Expert : old # e
      BY <2>1 DEF NoExpert, Expert
    <3> QED BY <1>1, <2>1, <3>1
  <2>2. CASE old # NoExpert
    <3>1. old \in Expert /\ NoSlot \in 0..per
      BY <1>3, <1>6, <2>2 DEF NoExpert, Expert, NoSlot
    <3> HIDE DEF old
    <3>2. freed = [slotOf EXCEPT ![w.block][old] = NoSlot]
      BY <2>2
    <3> HIDE DEF freed
    <3> QED BY <1>1, <1>2, <3>1, <3>2
  <2> QED BY <2>1, <2>2
<1> HIDE DEF freed, new
<1>8. held' \in [Block -> [DeviceSlot -> [expert : 0..Experts, used : 0..tick]]]
  BY <1>1, <1>2, <1>4, <1>5, <1>6
<1>9. ASSUME NEW b \in Block, NEW p \in DeviceSlot
      PROVE  held'[b][p] = IF b = w.block /\ p = w.slot THEN new ELSE held[b][p]
  BY <1>1, <1>2, <1>4, <1>6, <1>9
<1>10. slotOf' \in [Block -> [Expert -> 0..per]]
  <2>1. w.slot \in 0..per
    BY <1>2, <1>3
  <2> QED BY <1>2, <1>4, <1>7, <2>1
<1>11. ASSUME NEW b \in Block, NEW e \in Expert
       PROVE  slotOf'[b][e] = IF b = w.block /\ e = w.expert THEN w.slot
                              ELSE IF b = w.block /\ old = e THEN NoSlot ELSE slotOf[b][e]
  <2>1. slotOf'[b][e] = IF b = w.block /\ e = w.expert THEN w.slot ELSE freed[b][e]
    BY <1>2, <1>4, <1>7
  <2> QED BY <1>7, <2>1
<1>12. ASSUME NEW b \in Block, NEW e \in Expert, NEW p \in 1..per
       PROVE  slotOf'[b][e] = p <=> held'[b][p].expert = e
  <2>1. p \in DeviceSlot /\ p # NoSlot
    BY <1>3 DEF NoSlot
  <2>2. held'[b][p].expert = IF b = w.block /\ p = w.slot THEN w.expert ELSE held[b][p].expert
    BY <1>9, <2>1 DEF new
  <2>3. /\ slotOf'[b][e] = IF b = w.block /\ e = w.expert THEN w.slot
                           ELSE IF b = w.block /\ old = e THEN NoSlot ELSE slotOf[b][e]
        /\ slotOf[b][e] = p <=> held[b][p].expert = e
    BY <1>1, <1>11
  <2>4. CASE b # w.block
    BY <2>2, <2>3, <2>4
  <2>5. CASE b = w.block /\ p = w.slot
    <3>1. old = e <=> slotOf[b][e] = p
      BY <2>3, <2>5
    <3> QED BY <2>1, <2>2, <2>3, <2>5, <3>1
  <2>6. CASE b = w.block /\ p # w.slot
    <3>1. old = e => slotOf[b][e] = w.slot
      BY <1>1, <1>2, <2>6
    <3>2. e = w.expert => slotOf[b][e] = NoSlot
      BY <1>2, <2>6
    <3> QED BY <2>1, <2>2, <2>3, <2>6, <3>1, <3>2
  <2> QED BY <2>4, <2>5, <2>6
<1>13. DeviceMaps'
  BY <1>1, <1>8, <1>10, <1>12 DEF DeviceMaps
<1>14. IssueDone(w)
  BY <1>3, <1>9, <1>11 DEF IssueDone, new
<1> QED BY <1>13, <1>14

(* Copies whose slot is given up stay copies.                              *)
LEMMA DisownIs ==
    ASSUME copy \in Seq(Copies), NEW ids
    PROVE  Disown(ids) \in Seq(Copies)
<1>1. Len(copy) \in Nat /\ DOMAIN copy = 1..Len(copy) /\ \A i \in 1..Len(copy) : copy[i] \in Copies
  BY LenProperties, ElementOfSeq
<1>2. NoExpert \in 0..Experts
  BY Constants DEF NoExpert
<1> DEFINE d(i) == IF copy[i].id \in ids THEN [copy[i] EXCEPT !.of = NoExpert] ELSE copy[i]
<1>3. ASSUME NEW i \in 1..Len(copy) PROVE d(i) \in Copies
  <2>1. copy[i] \in Copies
    BY <1>1
  <2>2. [copy[i] EXCEPT !.of = NoExpert] \in Copies
    BY <1>2, <2>1 DEF Copies
  <2> QED BY <2>1, <2>2
<1>4. Disown(ids) = [i \in 1..Len(copy) |-> d(i)]
  BY <1>1 DEF Disown
<1> HIDE DEF d
<1> QED BY <1>1, <1>3, <1>4, SeqDef

LEMMA IssueStreams ==
    ASSUME DeviceMaps, StreamTypes, EventTypes, NEW s \in HostSlot, NEW bytes \in Bytes,
           NEW w, WantFields(w), Issue(s, bytes, w), UNCHANGED <<per, resident, predicted>>
    PROVE  StreamTypes' /\ EventTypes'
<1> DEFINE c == [op |-> "copy", id |-> issued + 1, src |-> s, bytes |-> bytes,
                 block |-> w.block, slot |-> w.slot,
                 of |-> IF owner[s] = <<w.block, w.expert>> THEN w.expert ELSE NoExpert]
<1>1. /\ main \in Seq(Ops) /\ copy \in Seq(Copies) /\ issued \in Nat
      /\ done \in [HostSlot -> 0..issued] /\ fetched \in [Block -> 0..issued]
      /\ arriving \in [Block -> SUBSET (1..per)]
  BY DEF StreamTypes, EventTypes
<1>2. w.block \in Block /\ w.slot \in 1..per /\ w.slot \in DeviceSlot
  BY DeviceSlots DEF WantFields, DeviceMaps
<1>3. c \in Ops /\ c \in Copies
  <2>2. w.expert \in 0..Experts /\ NoExpert \in 0..Experts
    BY Constants DEF WantFields, Expert, NoExpert
  <2>1. c \in Copies
    BY <1>1, <1>2, <2>2 DEF Copies
  <2> QED BY <2>1 DEF Ops
<1>4. /\ issued' = issued + 1 /\ done' = [done EXCEPT ![s] = issued + 1]
      /\ IF w.stream = "main"
         THEN main' = Append(main, c) /\ copy' = Disown(Overtaken(w.block, w.slot))
         ELSE copy' = Append(copy, c) /\ UNCHANGED main
      /\ IF w.stream = "copy"
         THEN /\ fetched' = [fetched EXCEPT ![w.block] = issued + 1]
              /\ arriving' = [arriving EXCEPT ![w.block] = @ \cup {w.slot}]
         ELSE UNCHANGED <<fetched, arriving>>
  BY DEF Issue
<1> HIDE DEF c
<1>5. Append(main, c) \in Seq(Ops) /\ Append(copy, c) \in Seq(Copies)
  BY <1>1, <1>3, AppendProperties
<1>6. main' \in Seq(Ops) /\ copy' \in Seq(Copies)
  BY <1>1, <1>4, <1>5, DisownIs
<1>7. issued' \in Nat /\ issued + 1 \in 0..issued' /\ 0..issued \subseteq 0..issued'
  BY <1>1, <1>4
<1>8. done' \in [HostSlot -> 0..issued']
  BY <1>1, <1>4, <1>7
<1>9. fetched' \in [Block -> 0..issued']
  BY <1>1, <1>4, <1>7
<1>10. arriving' \in [Block -> SUBSET (1..per)]
  <2>1. [arriving EXCEPT ![w.block] = @ \cup {w.slot}] \in [Block -> SUBSET (1..per)]
    BY <1>1, <1>2
  <2> QED BY <1>1, <1>4, <2>1
<1> QED BY <1>6, <1>7, <1>8, <1>9, <1>10 DEF StreamTypes, EventTypes

-----------------------------------------------------------------------------
(* The host cache *)

LEMMA WantIs ==
    ASSUME IInv, Filling
    PROVE  WantFields(want) /\ want.then \in {"place", "refill", "choose"}
<1>1. want \in Wants /\ slotOf[want.block][want.expert] = NoSlot
  BY DEF IInv, WantOk
<1> QED BY <1>1 DEF Wants, WantFields

LEMMA TrafficStays ==
    ASSUME Next PROVE UNCHANGED traffic
<1>1. ASSUME FillHeld \/ FillWaits \/ FillAlone \/ FillAhead \/ ClaimAhead \/ WriteAhead \/ ClaimWaits
      PROVE  UNCHANGED traffic
  BY <1>1 DEF FillHeld, FillWaits, FillAlone, FillAhead, ClaimAhead, WriteAhead, ClaimWaits,
              threadVars, modeVars
<1>2. ASSUME Route \/ RefillFrom \/ RefillResident \/ Submit \/ SubmitBusy \/ Synced \/ Prefetch
      PROVE  UNCHANGED traffic
  BY <1>2 DEF Route, RefillFrom, RefillResident, Submit, SubmitBusy, Synced, Prefetch, modeVars
<1>3. ASSUME Choose \/ Step \/ PlaceHit \/ LeaveMiss \/ PlaceMiss \/ LaunchRow \/ StartMisses
             \/ NextBlock \/ BeginPass
      PROVE  UNCHANGED traffic
  BY <1>3 DEF Choose, Step, PlaceHit, LeaveMiss, PlaceMiss, LaunchRow, StartMisses, NextBlock,
              BeginPass, modeVars
<1>4. ASSUME Cool \/ Resize \/ WorkerWrites \/ CopyRuns \/ MainRuns \/ TeamDone
      PROVE  UNCHANGED traffic
  BY <1>4 DEF Cool, Resize, WorkerWrites, CopyRuns, MainRuns, TeamDone, threadVars, modeVars
<1> QED BY <1>1, <1>2, <1>3, <1>4 DEF Next, Thread

LEMMA AloneClaims ==
    ASSUME IInv, FillAlone
    PROVE  /\ LruOk' /\ HostMaps' /\ WantFields(want)
           /\ \E s \in HostSlot : /\ ClaimDone(s, want.block, want.expert)
                                  /\ content' = [content EXCEPT ![s] = <<want.block, want.expert>>]
                                  /\ Issue(s, <<want.block, want.expert>>, want)
<1>1. PICK s \in HostSlot :
          /\ Claim(s, want.block, want.expert)
          /\ content' = [content EXCEPT ![s] = <<want.block, want.expert>>]
          /\ Issue(s, <<want.block, want.expert>>, want)
  BY DEF FillAlone
<1>2. Filling /\ hostOf[want.block][want.expert] = NoSlot /\ UNCHANGED traffic
  BY DEF FillAlone, NotHeld, Filling, modeVars
<1>3. WantFields(want)
  BY <1>2, WantIs
<1>4. LruOk' /\ HostMaps' /\ ClaimDone(s, want.block, want.expert)
  <2>1. LruOk /\ HostMaps /\ traffic \in Traffics
    BY DEF IInv, ThreadOk
  <2>2. want.block \in Block /\ want.expert \in Expert
    BY <1>3 DEF WantFields
  <2> QED BY <1>1, <1>2, <2>1, <2>2, ClaimIs
<1> QED BY <1>1, <1>3, <1>4

LEMMA AheadClaims ==
    ASSUME IInv, ClaimAhead
    PROVE  /\ LruOk' /\ HostMaps' /\ planned # <<>> /\ Head(planned) \in Block \X Expert
           /\ Head(planned)[1] = block
           /\ \E s \in HostSlot : /\ ClaimDone(s, block, Head(planned)[2])
                                  /\ batch' = batch \cup {[slot |-> s, of |-> Head(planned)]}
                                  /\ done' = [done EXCEPT ![s] = 0]
<1>1. PICK s \in HostSlot :
          /\ Claim(s, Head(planned)[1], Head(planned)[2])
          /\ batch' = batch \cup {[slot |-> s, of |-> Head(planned)]}
          /\ done' = [done EXCEPT ![s] = 0]
  BY DEF ClaimAhead
<1>2. planned \in Seq(Block \X Expert) /\ pc = "ahead" /\ left > 0 /\ left \in Nat
      /\ left <= Len(planned) /\ UNCHANGED traffic
  BY DEF ClaimAhead, IInv, ContentTypes, WantOk, modeVars
<1>3. planned # <<>>
  <2>1. Len(planned) # 0
    BY <1>2, LenProperties
  <2> QED BY <2>1, EmptySeq
<1>4. Head(planned) \in Block \X Expert /\ Head(planned) \in ToSet(planned)
  BY <1>2, <1>3, TailIs
<1>5. Head(planned)[1] = block /\ hostOf[block][Head(planned)[2]] = NoSlot
  BY <1>4 DEF IInv, PlannedApart
<1>6. LruOk' /\ HostMaps' /\ ClaimDone(s, block, Head(planned)[2])
  <2>1. LruOk /\ HostMaps /\ traffic \in Traffics
    BY DEF IInv, ThreadOk
  <2>2. block \in Block /\ Head(planned)[2] \in Expert
    BY <1>4, <1>5
  <2> QED BY <1>1, <1>2, <1>5, <2>1, <2>2, ClaimIs
<1> QED BY <1>1, <1>3, <1>4, <1>5, <1>6

LEMMA RefillIs ==
    ASSUME IInv, todo # <<>>
    PROVE  /\ Refill \in RefillsTo(tick) /\ Refill.block \in Block /\ Refill.expert \in Expert
           /\ Refill.tick \in 0..tick /\ Refill.slot \in 0..HostSlots
           /\ Tail(todo) \in Seq(RefillsTo(tick))
<1>1. todo \in Seq(RefillsTo(tick))
  BY DEF IInv, QueueTypes
<1>2. Refill \in RefillsTo(tick) /\ Tail(todo) \in Seq(RefillsTo(tick))
  BY <1>1, TailIs DEF Refill
<1> QED BY <1>2 DEF RefillsTo

LEMMA SubmitClaims ==
    ASSUME IInv, Submit
    PROVE  /\ LruOk' /\ HostMaps'
           /\ \E s \in HostSlot : /\ done' = [done EXCEPT ![s] = 0]
                                  /\ jobs' = Append(jobs, [Refill EXCEPT !.slot = s])
                                  /\ ClaimDone(s, Refill.block, Refill.expert)
<1>1. PICK s \in HostSlot :
          /\ Claim(s, Refill.block, Refill.expert)
          /\ done' = [done EXCEPT ![s] = 0]
          /\ jobs' = Append(jobs, [Refill EXCEPT !.slot = s])
  BY DEF Submit
<1>2. todo # <<>> /\ hostOf[Refill.block][Refill.expert] = NoSlot /\ UNCHANGED traffic
  BY DEF Submit, NotAtHost, modeVars
<1>3. Refill.block \in Block /\ Refill.expert \in Expert
  BY <1>2, RefillIs
<1>4. LruOk' /\ HostMaps' /\ ClaimDone(s, Refill.block, Refill.expert)
  <2>1. LruOk /\ HostMaps /\ traffic \in Traffics
    BY DEF IInv, ThreadOk
  <2> QED BY <1>1, <1>2, <1>3, <2>1, ClaimIs
<1> QED BY <1>1, <1>4

LEMMA HostMapsStep ==
    ASSUME IInv, Next PROVE HostMaps'
<1>1. CASE FillAlone
  BY <1>1, AloneClaims
<1>2. CASE ClaimAhead
  BY <1>2, AheadClaims
<1>3. CASE Submit
  BY <1>3, SubmitClaims
<1>4. ASSUME FillHeld \/ FillWaits \/ FillAhead \/ WriteAhead \/ ClaimWaits \/ Route \/ RefillFrom
             \/ RefillResident \/ SubmitBusy \/ Synced \/ Prefetch
      PROVE  UNCHANGED <<owner, hostOf>>
  BY <1>4 DEF FillHeld, FillWaits, FillAhead, WriteAhead, ClaimWaits, Route, RefillFrom,
              RefillResident, SubmitBusy, Synced, Prefetch, hostVars
<1>5. ASSUME Choose \/ Step \/ PlaceHit \/ LeaveMiss \/ PlaceMiss \/ LaunchRow \/ StartMisses
             \/ NextBlock \/ BeginPass
      PROVE  UNCHANGED <<owner, hostOf>>
  BY <1>5 DEF Choose, Step, PlaceHit, LeaveMiss, PlaceMiss, LaunchRow, StartMisses, NextBlock,
              BeginPass, hostVars
<1>6. ASSUME Cool \/ Resize \/ WorkerWrites \/ CopyRuns \/ MainRuns \/ TeamDone
      PROVE  UNCHANGED <<owner, hostOf>>
  BY <1>6 DEF Cool, Resize, WorkerWrites, CopyRuns, MainRuns, TeamDone, hostVars
<1>7. ASSUME UNCHANGED <<owner, hostOf>> PROVE HostMaps'
  <2>1. UNCHANGED traffic /\ HostMaps
    BY TrafficStays DEF IInv
  <2> QED BY <1>7, <2>1 DEF HostMaps
<1> QED BY <1>1, <1>2, <1>3, <1>4, <1>5, <1>6, <1>7 DEF Next, Thread

LEMMA LruStep ==
    ASSUME IInv, Next PROVE LruOk'
<1>0. LruOk /\ HostMaps /\ traffic \in Traffics /\ UNCHANGED traffic /\ block \in Block
  BY TrafficStays DEF IInv, ThreadOk
<1>1. CASE FillAlone
  BY <1>1, AloneClaims
<1>2. CASE ClaimAhead
  BY <1>2, AheadClaims
<1>3. CASE Submit
  BY <1>3, SubmitClaims
<1>4. CASE FillHeld
  <2>1. Filling /\ hostOf[want.block][want.expert] # NoSlot
        /\ lru' = Touched(<<hostOf[want.block][want.expert]>>)
    BY <1>4 DEF FillHeld, Filling, Holds
  <2>2. hostOf[want.block][want.expert] \in Slots
    BY <1>0, <2>1, WantIs, HeldSlot DEF WantFields
  <2> QED BY <1>0, <2>1, <2>2, TouchedOne
<1>5. CASE RefillFrom
  <2>1. CASE Queued
    <3>1. /\ lru' = Touched(<<hostOf[Refill.block][Refill.expert]>>) /\ todo # <<>>
          /\ hostOf[Refill.block][Refill.expert] # NoSlot
      BY <1>5, <2>1 DEF RefillFrom, Holds
    <3>2. hostOf[Refill.block][Refill.expert] \in Slots
      BY <1>0, <3>1, RefillIs, HeldSlot
    <3> QED BY <1>0, <3>1, <3>2, TouchedOne
  <2>2. CASE ~Queued
    <3>1. UNCHANGED lru
      BY <1>5, <2>2 DEF RefillFrom
    <3> QED BY <1>0, <3>1 DEF LruOk, Slots
  <2> QED BY <2>1, <2>2
<1>6. CASE Step
  <2>1. CASE kind = "prompt"
    <3> DEFINE fills == Only(row', Absent(block))
    <3>1. lru' = Touched(HeldAt(block, fills)) /\ later # <<>> /\ row' = Head(later)
      BY <1>6, <2>1 DEF Step
    <3>2. row' \in Seq(Expert) /\ IsInjective(row')
      <4>1. later \in Seq(Seq(Expert)) /\ \A i \in DOMAIN later : IsInjective(later[i])
        BY DEF IInv, RowsOk
      <4>2. row' \in Seq(Expert) /\ row' \in ToSet(later)
        BY <3>1, <4>1, TailIs
      <4> QED BY <4>1, <4>2 DEF ToSet
    <3>3. fills \in Seq(Expert) /\ IsInjective(fills)
      BY <3>2, OnlyIs
    <3> HIDE DEF fills
    <3>4. HeldAt(block, fills) \in Seq(Slots) /\ IsInjective(HeldAt(block, fills))
      BY <1>0, <3>3, HeldAtIs
    <3> QED BY <1>0, <3>1, <3>4, TouchedIs
  <2>2. CASE kind # "prompt"
    <3>1. UNCHANGED lru
      BY <1>6, <2>2 DEF Step
    <3> QED BY <1>0, <3>1 DEF LruOk, Slots
  <2> QED BY <2>1, <2>2
<1>7. CASE StartMisses \/ NextBlock
  <2>1. lru' = Touched(HeldAt(block, misses)) \/ UNCHANGED lru
    BY <1>7 DEF StartMisses, NextBlock
  <2>2. misses \in Seq(Expert) /\ IsInjective(misses)
    BY DEF IInv, RowsOk
  <2>3. HeldAt(block, misses) \in Seq(Slots) /\ IsInjective(HeldAt(block, misses))
    BY <1>0, <2>2, HeldAtIs
  <2>4. CASE UNCHANGED lru
    BY <1>0, <2>4 DEF LruOk, Slots
  <2> QED BY <1>0, <2>1, <2>3, <2>4, TouchedIs
<1>8. ASSUME FillWaits \/ FillAhead \/ WriteAhead \/ ClaimWaits \/ Route \/ RefillResident
             \/ SubmitBusy \/ Synced \/ Prefetch
      PROVE  UNCHANGED lru
  BY <1>8 DEF FillWaits, FillAhead, WriteAhead, ClaimWaits, Route, RefillResident, SubmitBusy,
              Synced, Prefetch, hostVars
<1>9. ASSUME Choose \/ PlaceHit \/ LeaveMiss \/ PlaceMiss \/ LaunchRow \/ BeginPass
      PROVE  UNCHANGED lru
  BY <1>9 DEF Choose, PlaceHit, LeaveMiss, PlaceMiss, LaunchRow, BeginPass, hostVars
<1>10. ASSUME Cool \/ Resize \/ WorkerWrites \/ CopyRuns \/ MainRuns \/ TeamDone
       PROVE  UNCHANGED lru
  BY <1>10 DEF Cool, Resize, WorkerWrites, CopyRuns, MainRuns, TeamDone, hostVars
<1>11. ASSUME UNCHANGED lru PROVE LruOk'
  BY <1>0, <1>11 DEF LruOk, Slots
<1> QED BY <1>1, <1>2, <1>3, <1>4, <1>5, <1>6, <1>7, <1>8, <1>9, <1>10, <1>11 DEF Next, Thread

LEMMA HeadIs ==
    ASSUME NEW S, NEW q \in Seq(S), q # <<>> PROVE Head(q) \in S /\ Head(q) \in ToSet(q)
  BY TailIs

(* The row or group begun is one of those to come, and what it plans is    *)
(* neither held nor resident.                                              *)
LEMMA StepRow ==
    ASSUME IInv, Step
    PROVE  /\ row' \in Seq(Expert) /\ IsInjective(row') /\ row' \in ToSet(later)
           /\ later' \in Seq(Seq(Expert)) /\ ToSet(later') \subseteq ToSet(later)
           /\ Len(later') = Len(later) - 1
<1>1. later \in Seq(Seq(Expert)) /\ \A i \in DOMAIN later : IsInjective(later[i])
  BY DEF IInv, RowsOk
<1>2. later # <<>> /\ row' = Head(later) /\ later' = Tail(later)
  BY DEF Step
<1>3. /\ row' \in Seq(Expert) /\ row' \in ToSet(later) /\ later' \in Seq(Seq(Expert))
      /\ ToSet(later') \subseteq ToSet(later) /\ Len(later') = Len(later) - 1
  BY <1>1, <1>2, TailIs
<1> QED BY <1>1, <1>3 DEF ToSet

LEMMA StepPlans ==
    ASSUME IInv, Step, kind = "prompt"
    PROVE  /\ planned' \in Seq(Block \X Expert) /\ IsInjective(planned')
           /\ \A x \in ToSet(planned') :
                 /\ x[1] = block /\ x[2] \in Expert /\ x[2] \in ToSet(row')
                 /\ hostOf[block][x[2]] = NoSlot /\ slotOf[block][x[2]] = NoSlot
<1> DEFINE fills == Only(row', Absent(block))
           S == {e \in Expert : hostOf[block][e] = NoSlot}
           free == Only(fills, S)
           plan == [i \in DOMAIN free |-> <<block, free[i]>>]
<1>1. row' \in Seq(Expert) /\ IsInjective(row') /\ block \in Block
  BY StepRow DEF IInv, ThreadOk
<1>2. fills \in Seq(Expert) /\ IsInjective(fills) /\ ToSet(fills) = ToSet(row') \cap Absent(block)
  BY <1>1, OnlyIs
<1>3. free \in Seq(Expert) /\ IsInjective(free) /\ ToSet(free) = ToSet(fills) \cap S
  BY <1>2, OnlyIs
<1>4. planned' = plan
  BY DEF Step
<1> HIDE DEF free, fills
<1>5. DOMAIN free = 1..Len(free) /\ Len(free) \in Nat /\ \A i \in 1..Len(free) : free[i] \in Expert
  BY <1>3, LenProperties, ElementOfSeq
<1>6. plan \in [1..Len(free) -> Block \X Expert] /\ \A i \in 1..Len(free) : plan[i] = <<block, free[i]>>
  BY <1>1, <1>5
<1>7. plan \in Seq(Block \X Expert)
  BY <1>5, <1>6, SeqDef
<1> HIDE DEF plan
<1>8. DOMAIN plan = 1..Len(free)
  BY <1>6
<1>9. IsInjective(plan)
  <2> SUFFICES ASSUME NEW i \in 1..Len(free), NEW j \in 1..Len(free), plan[i] = plan[j]
               PROVE  i = j
    BY <1>8 DEF IsInjective
  <2>1. <<block, free[i]>> = <<block, free[j]>>
    BY <1>6
  <2>2. free[i] = free[j]
    BY <2>1
  <2> QED BY <1>3, <1>5, <2>2 DEF IsInjective
<1>10. ASSUME NEW x \in ToSet(plan)
       PROVE  /\ x[1] = block /\ x[2] \in Expert /\ x[2] \in ToSet(row')
              /\ hostOf[block][x[2]] = NoSlot /\ slotOf[block][x[2]] = NoSlot
  <2>1. PICK i \in 1..Len(free) : x = plan[i]
    BY <1>8 DEF ToSet
  <2>2. x = <<block, free[i]>>
    BY <1>6, <2>1
  <2>3. free[i] \in ToSet(free)
    BY <1>5 DEF ToSet
  <2>4. free[i] \in S /\ free[i] \in ToSet(row') /\ free[i] \in Absent(block)
    BY <1>2, <1>3, <2>3
  <2> QED BY <2>2, <2>4 DEF Absent, Resident
<1> QED BY <1>4, <1>7, <1>9, <1>10

LEMMA ContentStep ==
    ASSUME IInv, Next PROVE ContentTypes'
<1>0. /\ content \in [HostSlot -> Bytes] /\ planned \in Seq(Block \X Expert)
      /\ batch \subseteq [slot : HostSlot, of : Block \X Expert]
  BY DEF IInv, ContentTypes
<1>1. CASE FillAlone
  <2>1. PICK s \in HostSlot : content' = [content EXCEPT ![s] = <<want.block, want.expert>>]
    BY <1>1, AloneClaims
  <2>2. <<want.block, want.expert>> \in Bytes
    BY <1>1, AloneClaims DEF WantFields, Bytes
  <2>3. planned' = <<>> /\ UNCHANGED batch
    BY <1>1 DEF FillAlone
  <2> QED BY <1>0, <2>1, <2>2, <2>3, EmptySeq DEF ContentTypes
<1>2. CASE ClaimAhead
  <2>1. PICK s \in HostSlot : batch' = batch \cup {[slot |-> s, of |-> Head(planned)]}
    BY <1>2, AheadClaims
  <2>2. planned # <<>> /\ planned' = Tail(planned) /\ UNCHANGED content
    BY <1>2, AheadClaims DEF ClaimAhead
  <2>3. Head(planned) \in Block \X Expert /\ planned' \in Seq(Block \X Expert)
    BY <1>0, <2>2, TailIs
  <2> QED BY <1>0, <2>1, <2>2, <2>3 DEF ContentTypes
<1>3. CASE WriteAhead
  <2>1. UNCHANGED planned
    BY <1>3 DEF WriteAhead
  <2>2. CASE batch = {}
    <3>1. UNCHANGED <<content, batch>>
      BY <1>3, <2>2 DEF WriteAhead
    <3> QED BY <1>0, <2>1, <3>1 DEF ContentTypes
  <2>3. CASE batch # {}
    <3>1. PICK w \in batch : content' = [content EXCEPT ![w.slot] = w.of] /\ batch' = batch \ {w}
      BY <1>3, <2>3 DEF WriteAhead
    <3>2. w.slot \in HostSlot /\ w.of \in Bytes
      BY <1>0 DEF Bytes
    <3> QED BY <1>0, <2>1, <3>1, <3>2 DEF ContentTypes
  <2> QED BY <2>2, <2>3
<1>4. CASE Step
  <2>1. UNCHANGED <<content, batch>>
    BY <1>4 DEF Step
  <2>2. CASE kind = "prompt"
    BY <1>0, <1>4, <2>1, <2>2, StepPlans DEF ContentTypes
  <2>3. CASE kind # "prompt"
    <3>1. UNCHANGED planned
      BY <1>4, <2>3 DEF Step
    <3> QED BY <1>0, <2>1, <3>1 DEF ContentTypes
  <2> QED BY <2>2, <2>3
<1>5. CASE WorkerWrites
  <2>1. /\ content' = [content EXCEPT ![Head(jobs).slot] = <<Head(jobs).block, Head(jobs).expert>>]
        /\ jobs # <<>> /\ UNCHANGED <<planned, batch>>
    BY <1>5 DEF WorkerWrites
  <2>2. jobs \in Seq(RefillsTo(tick))
    BY DEF IInv, QueueTypes
  <2>3. Head(jobs) \in RefillsTo(tick)
    BY <2>1, <2>2, HeadIs
  <2>4. <<Head(jobs).block, Head(jobs).expert>> \in Bytes
    BY <2>3 DEF RefillsTo, Bytes
  <2> QED BY <1>0, <2>1, <2>4 DEF ContentTypes
<1>6. ASSUME FillHeld \/ FillWaits \/ FillAhead \/ ClaimWaits \/ Route \/ RefillFrom
             \/ RefillResident \/ Submit \/ SubmitBusy \/ Synced \/ Prefetch
      PROVE  UNCHANGED <<content, planned, batch>>
  BY <1>6 DEF FillHeld, FillWaits, FillAhead, ClaimWaits, Route, RefillFrom, RefillResident,
              Submit, SubmitBusy, Synced, Prefetch, hostVars
<1>7. ASSUME Choose \/ PlaceHit \/ LeaveMiss \/ PlaceMiss \/ LaunchRow \/ StartMisses
             \/ NextBlock \/ BeginPass
      PROVE  UNCHANGED <<content, planned, batch>>
  BY <1>7 DEF Choose, PlaceHit, LeaveMiss, PlaceMiss, LaunchRow, StartMisses, NextBlock,
              BeginPass, hostVars
<1>8. ASSUME Cool \/ Resize \/ CopyRuns \/ MainRuns \/ TeamDone
      PROVE  UNCHANGED <<content, planned, batch>>
  BY <1>8 DEF Cool, Resize, CopyRuns, MainRuns, TeamDone, hostVars
<1>9. ASSUME UNCHANGED <<content, planned, batch>> PROVE ContentTypes'
  BY <1>0, <1>9 DEF ContentTypes
<1> QED BY <1>1, <1>2, <1>3, <1>4, <1>5, <1>6, <1>7, <1>8, <1>9 DEF Next, Thread

-----------------------------------------------------------------------------
(* Copies and slots *)

LEMMA FillIssues ==
    ASSUME IInv, FillHeld \/ FillAlone
    PROVE  /\ WantFields(want) /\ UNCHANGED <<per, tick, resident, predicted>>
           /\ \E s \in HostSlot, bytes \in Bytes : Issue(s, bytes, want)
<1>1. CASE FillAlone
  <2>1. WantFields(want)
    BY <1>1, AloneClaims
  <2>2. PICK s \in HostSlot : Issue(s, <<want.block, want.expert>>, want)
    BY <1>1, AloneClaims
  <2>3. <<want.block, want.expert>> \in Bytes
    BY <2>1 DEF WantFields, Bytes
  <2>4. UNCHANGED <<per, tick, resident, predicted>>
    BY <1>1 DEF FillAlone
  <2> QED BY <2>1, <2>2, <2>3, <2>4
<1>2. CASE FillHeld
  <2> DEFINE s == hostOf[want.block][want.expert]
  <2>1. Filling /\ s # NoSlot /\ Issue(s, content[s], want)
    BY <1>2 DEF FillHeld, Filling, Holds
  <2>2. WantFields(want)
    BY <2>1, WantIs
  <2>3. s \in HostSlot
    BY <2>1, <2>2, HeldSlot DEF WantFields, IInv, ThreadOk
  <2>4. content[s] \in Bytes
    BY <2>3 DEF IInv, ContentTypes
  <2>5. UNCHANGED <<per, tick, resident, predicted>>
    BY <1>2 DEF FillHeld
  <2> HIDE DEF s
  <2> QED BY <2>1, <2>2, <2>3, <2>4, <2>5
<1> QED BY <1>1, <1>2

LEMMA RefillIssues ==
    ASSUME IInv, RefillFrom
    PROVE  /\ UNCHANGED <<per, tick, resident, predicted>>
           /\ \/ UNCHANGED <<done, held, slotOf, fetched, arriving, main, copy, issued>>
              \/ \E s \in HostSlot, bytes \in Bytes : \E w : WantFields(w) /\ Issue(s, bytes, w)
<1> DEFINE s == IF Queued THEN hostOf[Refill.block][Refill.expert] ELSE Refill.slot
           W(p) == Fill(Refill.block, Refill.expert, p, Refill.tick, "copy", "refill")
<1>1. /\ todo # <<>> /\ ~Resident(Refill.block, Refill.expert)
      /\ Queued => Holds(Refill.block, Refill.expert)
      /\ \/ UNCHANGED <<done, held, slotOf, fetched, arriving, main, copy, issued>>
         \/ \E p \in RefillVictim : Issue(s, content[s], W(p))
      /\ UNCHANGED <<per, tick, resident, predicted>>
  BY DEF RefillFrom
<1>2. /\ Refill.block \in Block /\ Refill.expert \in Expert /\ Refill.tick \in 0..tick
      /\ Refill.slot \in 0..HostSlots /\ HostSlots \in Nat
  BY <1>1, RefillIs, Constants
<1>3. s \in HostSlot
  <2>1. CASE Queued
    <3>1. hostOf[Refill.block][Refill.expert] # NoSlot
      BY <1>1, <2>1 DEF Holds
    <3> QED BY <1>2, <2>1, <3>1, HeldSlot DEF IInv, ThreadOk
  <2>2. CASE ~Queued
    BY <1>2, <2>2 DEF Queued, HostSlot, NoSlot
  <2> QED BY <2>1, <2>2
<1> HIDE DEF s
<1>4. content[s] \in Bytes
  BY <1>3 DEF IInv, ContentTypes
<1>5. ASSUME NEW p \in RefillVictim PROVE WantFields(W(p))
  <2>1. p \in 1..per
    BY DEF RefillVictim, Victim
  <2>2. slotOf[Refill.block][Refill.expert] = NoSlot
    BY <1>1 DEF Resident
  <2>3. /\ W(p).block = Refill.block /\ W(p).expert = Refill.expert /\ W(p).slot = p
        /\ W(p).tick = Refill.tick /\ W(p).stream = "copy"
    BY DEF Fill
  <2> HIDE DEF W
  <2> QED BY <1>2, <2>1, <2>2, <2>3 DEF WantFields
<1> HIDE DEF W
<1> QED BY <1>1, <1>3, <1>4, <1>5

LEMMA IssueSteps ==
    ASSUME IInv, FillHeld \/ FillAlone \/ RefillFrom
    PROVE  DeviceMaps' /\ EventTypes' /\ StreamTypes'
<1>0. DeviceMaps /\ EventTypes /\ StreamTypes
  BY DEF IInv
<1>1. UNCHANGED <<per, tick, resident, predicted>>
  BY FillIssues, RefillIssues
<1>2. ASSUME NEW s \in HostSlot, NEW bytes \in Bytes, NEW w, WantFields(w), Issue(s, bytes, w)
      PROVE  DeviceMaps' /\ EventTypes' /\ StreamTypes'
  BY <1>0, <1>1, <1>2, IssueMaps, IssueStreams
<1>3. ASSUME UNCHANGED <<done, held, slotOf, fetched, arriving, main, copy, issued>>
      PROVE  DeviceMaps' /\ EventTypes' /\ StreamTypes'
  BY <1>0, <1>1, <1>3 DEF DeviceMaps, EventTypes, StreamTypes
<1>4. CASE FillHeld \/ FillAlone
  BY <1>2, <1>4, FillIssues
<1>5. CASE RefillFrom
  BY <1>2, <1>3, <1>5, RefillIssues
<1> QED BY <1>4, <1>5

(* Experts stamped at the next step.                                       *)
LEMMA StampMaps ==
    ASSUME DeviceMaps, NEW b \in Block, NEW es, tick' = tick + 1, held' = Stamp(b, es, tick'),
           UNCHANGED <<per, slotOf>>
    PROVE  /\ DeviceMaps'
           /\ \A c \in Block, p \in 1..per :
                 held'[c][p] = IF c = b /\ \E e \in es : slotOf[b][e] = p
                               THEN [expert |-> held[c][p].expert, used |-> tick'] ELSE held[c][p]
<1>1. /\ per \in PerBlocks /\ tick \in Nat /\ 1..per \subseteq DeviceSlot
      /\ held \in [Block -> [DeviceSlot -> [expert : 0..Experts, used : 0..tick]]]
      /\ slotOf \in [Block -> [Expert -> 0..per]]
      /\ \A c \in Block, e \in Expert, p \in 1..per : slotOf[c][e] = p <=> held[c][p].expert = e
  BY DeviceSlots DEF DeviceMaps
<1> DEFINE row1 == [p \in DeviceSlot |-> IF \E e \in es : slotOf[b][e] = p
                                         THEN [held[b][p] EXCEPT !.used = tick'] ELSE held[b][p]]
<1>2. held' = [held EXCEPT ![b] = row1]
  BY DEF Stamp
<1>3. tick' \in Nat /\ tick' \in 0..tick' /\ 0..tick \subseteq 0..tick'
  BY <1>1
<1>4. ASSUME NEW c \in Block, NEW p \in DeviceSlot
      PROVE  held'[c][p] = IF c = b /\ \E e \in es : slotOf[b][e] = p
                           THEN [expert |-> held[c][p].expert, used |-> tick'] ELSE held[c][p]
  <2>1. held[c][p] \in [expert : 0..Experts, used : 0..tick]
    BY <1>1
  <2>2. [held[c][p] EXCEPT !.used = tick'] = [expert |-> held[c][p].expert, used |-> tick']
    BY <2>1
  <2>3. held'[c][p] = IF c = b THEN row1[p] ELSE held[c][p]
    BY <1>1, <1>2
  <2> QED BY <2>2, <2>3
<1> HIDE DEF row1
<1>5. ASSUME NEW c \in Block, NEW p \in DeviceSlot
      PROVE  held'[c][p] \in [expert : 0..Experts, used : 0..tick'] /\ held'[c][p].expert = held[c][p].expert
  <2>1. held[c][p] \in [expert : 0..Experts, used : 0..tick]
    BY <1>1
  <2>2. /\ [expert |-> held[c][p].expert, used |-> tick'] \in [expert : 0..Experts, used : 0..tick']
        /\ held[c][p] \in [expert : 0..Experts, used : 0..tick']
    BY <1>3, <2>1
  <2>3. CASE c = b /\ \E e \in es : slotOf[b][e] = p
    <3>1. held'[c][p] = [expert |-> held[c][p].expert, used |-> tick']
      BY <1>4, <2>3
    <3> QED BY <2>2, <3>1
  <2>4. CASE ~(c = b /\ \E e \in es : slotOf[b][e] = p)
    <3>1. held'[c][p] = held[c][p]
      BY <1>4, <2>4
    <3> QED BY <2>2, <3>1
  <2> QED BY <2>3, <2>4
<1>6. held' \in [Block -> [DeviceSlot -> [expert : 0..Experts, used : 0..tick']]]
  <2>1. ASSUME NEW c \in Block
        PROVE  held'[c] \in [DeviceSlot -> [expert : 0..Experts, used : 0..tick']]
    <3>1. held'[c] = IF c = b THEN row1 ELSE held[c]
      BY <1>1, <1>2
    <3>2. held[c] = [p \in DeviceSlot |-> held[c][p]] /\ row1 = [p \in DeviceSlot |-> row1[p]]
      BY <1>1 DEF row1
    <3>3. held'[c] = [p \in DeviceSlot |-> held'[c][p]]
      BY <3>1, <3>2
    <3> QED BY <1>5, <3>3
  <2>2. held' = [c \in Block |-> held'[c]]
    BY <1>1, <1>2
  <2> QED BY <2>1, <2>2
<1>7. DeviceMaps'
  BY <1>1, <1>3, <1>5, <1>6 DEF DeviceMaps
<1> QED BY <1>1, <1>4, <1>7

LEMMA DeviceStep ==
    ASSUME IInv, Next PROVE DeviceMaps'
<1>0. DeviceMaps
  BY DEF IInv
<1>1. CASE FillHeld \/ FillAlone \/ RefillFrom
  BY <1>1, IssueSteps
<1>2. CASE Prefetch
  <2>1. block + 1 \in Block
    <3>1. block \in Block /\ block < Blocks /\ Blocks \in Nat
      BY <1>2, Constants DEF Prefetch, IInv, ThreadOk
    <3> QED BY <3>1 DEF Block
  <2>2. \E es \in Routed : held' = Stamp(block + 1, Range(es), tick')
    BY <1>2 DEF Prefetch
  <2>3. tick' = tick + 1 /\ UNCHANGED <<per, slotOf>>
    BY <1>2 DEF Prefetch
  <2> QED BY <1>0, <2>1, <2>2, <2>3, StampMaps
<1>3. CASE Step
  <2>1. block \in Block
    BY DEF IInv, ThreadOk
  <2>2. tick' = tick + 1 /\ held' = Stamp(block, Range(row'), tick') /\ UNCHANGED <<per, slotOf>>
    BY <1>3 DEF Step
  <2> QED BY <1>0, <2>1, <2>2, StampMaps
<1>4. CASE Cool \/ Resize
  <2>1. /\ held' = EmptySlots /\ slotOf' = NoneResident /\ per' \in PerBlocks
        /\ UNCHANGED tick /\ tick \in Nat
    BY <1>0, <1>4 DEF Cool, Resize, DeviceMaps
  <2>2. per' \in Nat /\ 1..per' \subseteq DeviceSlot /\ Experts \in Nat
    BY <2>1, DeviceSlots, Constants
  <2>3. held' \in [Block -> [DeviceSlot -> [expert : 0..Experts, used : 0..tick']]]
    <3>1. [expert |-> NoExpert, used |-> 0] \in [expert : 0..Experts, used : 0..tick']
      BY <2>1, <2>2 DEF NoExpert
    <3> QED BY <2>1, <3>1 DEF EmptySlots
  <2>4. slotOf' \in [Block -> [Expert -> 0..per']]
    BY <2>1, <2>2 DEF NoneResident, NoSlot
  <2>5. ASSUME NEW b \in Block, NEW e \in Expert, NEW p \in 1..per'
        PROVE  slotOf'[b][e] = p <=> held'[b][p].expert = e
    <3>1. slotOf'[b][e] = 0
      BY <2>1 DEF NoneResident, NoSlot
    <3>2. held'[b][p].expert = 0
      BY <2>1, <2>2 DEF EmptySlots, NoExpert
    <3>3. p # 0 /\ e # 0
      BY DEF Expert
    <3> QED BY <3>1, <3>2, <3>3
  <2> QED BY <2>1, <2>3, <2>4, <2>5 DEF DeviceMaps
<1>5. ASSUME FillWaits \/ FillAhead \/ ClaimAhead \/ WriteAhead \/ ClaimWaits \/ Route
             \/ RefillResident \/ Submit \/ SubmitBusy \/ Synced
      PROVE  UNCHANGED <<per, tick, held, slotOf>>
  BY <1>5 DEF FillWaits, FillAhead, ClaimAhead, WriteAhead, ClaimWaits, Route, RefillResident,
              Submit, SubmitBusy, Synced, deviceVars
<1>6. ASSUME Choose \/ PlaceHit \/ LeaveMiss \/ PlaceMiss \/ LaunchRow \/ StartMisses
             \/ NextBlock \/ BeginPass
      PROVE  UNCHANGED <<per, tick, held, slotOf>>
  BY <1>6 DEF Choose, PlaceHit, LeaveMiss, PlaceMiss, LaunchRow, StartMisses, NextBlock,
              BeginPass, deviceVars
<1>7. ASSUME WorkerWrites \/ CopyRuns \/ MainRuns \/ TeamDone
      PROVE  UNCHANGED <<per, tick, held, slotOf>>
  BY <1>7 DEF WorkerWrites, CopyRuns, MainRuns, TeamDone, deviceVars
<1>8. ASSUME UNCHANGED <<per, tick, held, slotOf>> PROVE DeviceMaps'
  BY <1>0, <1>8 DEF DeviceMaps
<1> QED BY <1>1, <1>2, <1>3, <1>4, <1>5, <1>6, <1>7, <1>8 DEF Next, Thread

LEMMA EventStep ==
    ASSUME IInv, Next PROVE EventTypes'
<1>0. /\ issued \in Nat /\ done \in [HostSlot -> 0..issued] /\ fetched \in [Block -> 0..issued]
      /\ arriving \in [Block -> SUBSET (1..per)]
  BY DEF IInv, EventTypes
<1>1. CASE FillHeld \/ FillAlone \/ RefillFrom
  BY <1>1, IssueSteps
<1>2. CASE ClaimAhead \/ Submit
  <2>1. UNCHANGED <<issued, fetched, arriving, per>>
    BY <1>2 DEF ClaimAhead, Submit, deviceVars, streamVars
  <2>2. \E s \in HostSlot : done' = [done EXCEPT ![s] = 0]
    BY <1>2, AheadClaims, SubmitClaims
  <2>3. 0 \in 0..issued
    BY <1>0
  <2> QED BY <1>0, <2>1, <2>2, <2>3 DEF EventTypes
<1>3. CASE Synced \/ PlaceHit
  <2>1. UNCHANGED <<issued, done, per>>
    BY <1>3 DEF Synced, PlaceHit, hostVars
  <2>2. \/ UNCHANGED <<fetched, arriving>>
        \/ /\ fetched' = [fetched EXCEPT ![block] = 0]
           /\ arriving' = [arriving EXCEPT ![block] = {}]
    BY <1>3 DEF Synced, PlaceHit, LookAt
  <2>3. 0 \in 0..issued
    BY <1>0
  <2>4. fetched' \in [Block -> 0..issued]
    BY <1>0, <2>2, <2>3
  <2>5. arriving' \in [Block -> SUBSET (1..per)]
    BY <1>0, <2>2
  <2> QED BY <1>0, <2>1, <2>4, <2>5 DEF EventTypes
<1>4. CASE Cool \/ Resize
  <2>1. UNCHANGED <<issued, done>> /\ fetched' = NoFetches /\ arriving' = NoneArriving
    BY <1>4 DEF Cool, Resize, streamVars
  <2>2. 0 \in 0..issued
    BY <1>0
  <2> QED BY <1>0, <2>1, <2>2 DEF EventTypes, NoFetches, NoneArriving
<1>5. ASSUME FillWaits \/ FillAhead \/ WriteAhead \/ ClaimWaits \/ Route
             \/ RefillResident \/ SubmitBusy \/ Prefetch
      PROVE  UNCHANGED <<issued, done, fetched, arriving, per>>
  BY <1>5 DEF FillWaits, FillAhead, WriteAhead, ClaimWaits, Route, RefillResident,
              SubmitBusy, Prefetch, hostVars, deviceVars, streamVars
<1>6. ASSUME Choose \/ Step \/ LeaveMiss \/ PlaceMiss \/ LaunchRow \/ StartMisses
             \/ NextBlock \/ BeginPass
      PROVE  UNCHANGED <<issued, done, fetched, arriving, per>>
  BY <1>6 DEF Choose, Step, LeaveMiss, PlaceMiss, LaunchRow, StartMisses, NextBlock,
              BeginPass, hostVars, deviceVars, streamVars
<1>7. ASSUME WorkerWrites \/ CopyRuns \/ MainRuns \/ TeamDone
      PROVE  UNCHANGED <<issued, done, fetched, arriving, per>>
  BY <1>7 DEF WorkerWrites, CopyRuns, MainRuns, TeamDone, hostVars, deviceVars, streamVars
<1>8. ASSUME UNCHANGED <<issued, done, fetched, arriving, per>> PROVE EventTypes'
  BY <1>0, <1>8 DEF EventTypes
<1> QED BY <1>1, <1>2, <1>3, <1>4, <1>5, <1>6, <1>7, <1>8 DEF Next, Thread

LEMMA ReceiveTypes ==
    ASSUME NEW S, results \in Seq(S), received \in Seq(S), ReceiveOne
    PROVE  results' \in Seq(S) /\ received' \in Seq(S)
<1>1. results # <<>> /\ results' = Tail(results) /\ received' = Append(received, Head(results))
  BY DEF ReceiveOne
<1>2. Head(results) \in S /\ Tail(results) \in Seq(S)
  BY <1>1, TailIs
<1> QED BY <1>1, <1>2, AppendIs

LEMMA QueueStep ==
    ASSUME IInv, Next PROVE QueueTypes'
<1> DEFINE S == RefillsTo(tick)
<1>0. /\ jobs \in Seq(S) /\ results \in Seq(S) /\ received \in Seq(S) /\ refills \in Seq(S)
      /\ todo \in Seq(S) /\ tick \in Nat
  BY DEF IInv, QueueTypes, DeviceMaps
<1> HIDE DEF S
<1>1. ASSUME UNCHANGED tick, jobs' \in Seq(S), results' \in Seq(S), received' \in Seq(S),
             refills' \in Seq(S), todo' \in Seq(S)
      PROVE  QueueTypes'
  BY <1>1 DEF QueueTypes, S, RefillsTo
<1>2. CASE FillWaits \/ ClaimWaits
  <2>1. UNCHANGED <<tick, jobs, refills, todo>> /\ (ReceiveOne \/ UNCHANGED <<results, received>>)
    BY <1>2 DEF FillWaits, ClaimWaits, deviceVars, threadVars
  <2>2. results' \in Seq(S) /\ received' \in Seq(S)
    BY <1>0, <2>1, ReceiveTypes
  <2> QED BY <1>0, <1>1, <2>1, <2>2
<1>3. CASE Route
  <2>1. /\ todo' = received \o results \o refills /\ received' = <<>> /\ results' = <<>>
        /\ refills' = <<>> /\ UNCHANGED <<tick, jobs>>
    BY <1>3 DEF Route
  <2>2. todo' \in Seq(S)
    <3>1. received \o results \in Seq(S)
      BY <1>0, ConcatIs
    <3> QED BY <1>0, <2>1, <3>1, ConcatIs
  <2> QED BY <1>0, <1>1, <2>1, <2>2, EmptySeq
<1>4. CASE RefillFrom \/ RefillResident \/ SubmitBusy
  <2>1. /\ todo # <<>> /\ todo' = Tail(todo) /\ UNCHANGED <<tick, jobs, results, received, refills>>
    BY <1>4 DEF RefillFrom, RefillResident, SubmitBusy, NotAtHost, hostVars, deviceVars
  <2>2. todo' \in Seq(S)
    BY <1>0, <2>1, TailIs
  <2> QED BY <1>0, <1>1, <2>1, <2>2
<1>5. CASE Submit
  <2>1. /\ todo # <<>> /\ todo' = Tail(todo) /\ UNCHANGED <<tick, results, received, refills>>
    BY <1>5 DEF Submit, NotAtHost, deviceVars
  <2>2. todo' \in Seq(S)
    BY <1>0, <2>1, TailIs
  <2>3. PICK s \in HostSlot : jobs' = Append(jobs, [Refill EXCEPT !.slot = s])
    BY <1>5, SubmitClaims
  <2>4. Refill \in S /\ s \in 0..HostSlots
    BY <2>1, RefillIs DEF S, HostSlot
  <2>5. [Refill EXCEPT !.slot = s] \in S
    BY <2>4 DEF S, RefillsTo
  <2>6. jobs' \in Seq(S)
    BY <1>0, <2>3, <2>5, AppendIs
  <2> QED BY <1>0, <1>1, <2>1, <2>2, <2>6
<1>6. CASE Prefetch \/ Step
  <2>1. tick' = tick + 1 /\ UNCHANGED <<jobs, results, received, refills, todo>>
    BY <1>6 DEF Prefetch, Step, hostVars
  <2>2. S \subseteq RefillsTo(tick')
    <3>1. 0..tick \subseteq 0..tick'
      BY <1>0, <2>1
    <3> QED BY <3>1 DEF S, RefillsTo
  <2>3. /\ jobs \in Seq(RefillsTo(tick')) /\ results \in Seq(RefillsTo(tick'))
        /\ received \in Seq(RefillsTo(tick')) /\ refills \in Seq(RefillsTo(tick'))
        /\ todo \in Seq(RefillsTo(tick'))
    BY <1>0, <2>2, SeqMonotonic
  <2> QED BY <2>1, <2>3 DEF QueueTypes
<1>7. CASE StartMisses
  <2>1. UNCHANGED <<tick, jobs, results, received, todo>> /\ QueueRefill
    BY <1>7 DEF StartMisses
  <2>2. refills' \in Seq(S)
    <3>1. CASE misses = <<>> \/ predicted[block]
      BY <1>0, <2>1, <3>1 DEF QueueRefill
    <3>2. CASE ~(misses = <<>> \/ predicted[block])
      <4> DEFINE w == [block |-> block, expert |-> Head(misses), slot |-> NoSlot, tick |-> tick]
      <4>1. refills' = Append(refills, w)
        BY <2>1, <3>2 DEF QueueRefill
      <4>2. misses \in Seq(Expert) /\ misses # <<>> /\ block \in Block
        BY <3>2 DEF IInv, RowsOk, ThreadOk
      <4>3. Head(misses) \in Expert
        BY <4>2, HeadIs
      <4>4. NoSlot \in 0..HostSlots /\ tick \in 0..tick
        BY <1>0, Constants DEF NoSlot
      <4>5. w \in S
        BY <4>2, <4>3, <4>4 DEF S, RefillsTo
      <4> HIDE DEF w
      <4> QED BY <1>0, <4>1, <4>5, AppendIs
    <3> QED BY <3>1, <3>2
  <2> QED BY <1>0, <1>1, <2>1, <2>2
<1>8. CASE Cool \/ Resize
  <2>1. /\ refills' = <<>> /\ UNCHANGED <<tick, jobs, todo>>
        /\ results' = <<>> \/ UNCHANGED results
        /\ received' = <<>> \/ UNCHANGED received
    BY <1>8 DEF Cool, Resize, threadVars
  <2> QED BY <1>0, <1>1, <2>1, EmptySeq
<1>9. CASE WorkerWrites
  <2>1. /\ jobs # <<>> /\ results' = Append(results, Head(jobs)) /\ jobs' = Tail(jobs)
        /\ UNCHANGED <<tick, received, refills, todo>>
    BY <1>9 DEF WorkerWrites, deviceVars, threadVars
  <2>2. Head(jobs) \in S /\ jobs' \in Seq(S)
    BY <1>0, <2>1, TailIs
  <2>3. results' \in Seq(S)
    BY <1>0, <2>1, <2>2, AppendIs
  <2> QED BY <1>0, <1>1, <2>1, <2>2, <2>3
<1>10. ASSUME FillHeld \/ FillAlone \/ FillAhead \/ ClaimAhead \/ WriteAhead \/ Synced
       PROVE  UNCHANGED <<tick, jobs, results, received, refills, todo>>
  BY <1>10 DEF FillHeld, FillAlone, FillAhead, ClaimAhead, WriteAhead, Synced, hostVars,
               deviceVars, threadVars
<1>11. ASSUME Choose \/ PlaceHit \/ LeaveMiss \/ PlaceMiss \/ LaunchRow \/ NextBlock \/ BeginPass
       PROVE  UNCHANGED <<tick, jobs, results, received, refills, todo>>
  BY <1>11 DEF Choose, PlaceHit, LeaveMiss, PlaceMiss, LaunchRow, NextBlock, BeginPass, hostVars,
               deviceVars, threadVars
<1>12. ASSUME CopyRuns \/ MainRuns \/ TeamDone
       PROVE  UNCHANGED <<tick, jobs, results, received, refills, todo>>
  BY <1>12 DEF CopyRuns, MainRuns, TeamDone, hostVars, deviceVars, threadVars
<1>13. ASSUME UNCHANGED <<tick, jobs, results, received, refills, todo>> PROVE QueueTypes'
  BY <1>0, <1>1, <1>13
<1> QED BY <1>2, <1>3, <1>4, <1>5, <1>6, <1>7, <1>8, <1>9, <1>10, <1>11, <1>12, <1>13 DEF Next, Thread

LEMMA TeamStep ==
    ASSUME IInv, Next PROVE TeamOk'
<1>0. /\ teamHolds \subseteq HostSlot /\ Cardinality(teamHolds) <= Used /\ team \in BOOLEAN
      /\ holds = [s \in HostSlot |-> IF s \in teamHolds THEN 1 ELSE 0]
  BY DEF IInv, TeamOk
<1>1. Release(holds) = [s \in HostSlot |-> 0]
  <2>1. \A s \in HostSlot : (IF s \in teamHolds THEN holds[s] - 1 ELSE holds[s]) = 0
    BY <1>0
  <2> QED BY <2>1 DEF Release
<1>2. CASE StartMisses
  <2> DEFINE slots == HeldAt(block, misses)
  <2>1. /\ PlacedRow /\ RowDecodes /\ team' = TRUE /\ teamHolds' = Range(slots)
        /\ holds' = [s \in HostSlot |-> Release(holds)[s] + IF s \in Range(slots) THEN 1 ELSE 0]
    BY <1>2 DEF StartMisses
  <2>2. HostMaps /\ traffic \in Traffics /\ block \in Block /\ misses \in Seq(Expert) /\ IsInjective(misses)
    BY DEF IInv, ThreadOk, RowsOk
  <2>3. slots \in Seq(Slots) /\ Cardinality(Range(slots)) <= Cardinality(ToSet(misses))
    BY <2>2, HeldAtIs
  <2> HIDE DEF slots
  <2>4. Range(slots) \subseteq HostSlot /\ IsFiniteSet(Range(slots)) /\ Cardinality(Range(slots)) \in Nat
    <3>1. Slots \subseteq HostSlot
      BY <2>2, Constants DEF Slots
    <3>2. Range(slots) = ToSet(slots)
      BY DEF Range, ToSet
    <3>3. ToSet(slots) \subseteq Slots
      BY <2>3, LenProperties, ElementOfSeq DEF ToSet
    <3> QED BY <2>3, <3>1, <3>2, <3>3, ToSetFits
  <2>5. Cardinality(ToSet(misses)) <= Used /\ Cardinality(ToSet(misses)) \in Nat
    <3>1. pass # 0 /\ kind = "decode"
      BY <2>1 DEF PlacedRow, RowDecodes, IInv, ThreadOk
    <3>2. Cardinality(ToSet(row) \cup ToSet(misses)) <= Used
      BY <3>1 DEF IInv, DecodeRow
    <3>3. row \in Seq(Expert)
      BY DEF IInv, RowsOk
    <3>4. IsFiniteSet(ToSet(row)) /\ IsFiniteSet(ToSet(misses)) /\ Cardinality(ToSet(misses)) \in Nat
      BY <2>2, <3>3, ToSetFits
    <3>5. IsFiniteSet(ToSet(row) \cup ToSet(misses))
      BY <3>4, FS_Union
    <3>6. /\ Cardinality(ToSet(misses)) <= Cardinality(ToSet(row) \cup ToSet(misses))
          /\ Cardinality(ToSet(row) \cup ToSet(misses)) \in Nat
      <4>1. ToSet(misses) \in SUBSET (ToSet(row) \cup ToSet(misses))
        OBVIOUS
      <4> QED BY <3>5, <4>1, FS_Subset, FS_CardinalityType
    <3>7. Used \in Nat
      BY Constants
    <3> QED BY <3>2, <3>4, <3>6, <3>7
  <2>6. Cardinality(Range(slots)) <= Used
    BY <2>3, <2>4, <2>5, Constants
  <2>7. holds' = [s \in HostSlot |-> IF s \in teamHolds' THEN 1 ELSE 0]
    <3>1. \A s \in HostSlot : Release(holds)[s] + (IF s \in Range(slots) THEN 1 ELSE 0)
                              = IF s \in teamHolds' THEN 1 ELSE 0
      BY <1>1, <2>1
    <3> QED BY <2>1, <3>1
  <2> QED BY <2>1, <2>4, <2>6, <2>7 DEF TeamOk
<1>3. CASE Cool \/ Resize
  <2>1. holds' = Release(holds) /\ teamHolds' = {} /\ UNCHANGED team
    BY <1>3 DEF Cool, Resize
  <2>2. Cardinality({}) = 0 /\ Used \in Nat
    BY FS_EmptySet, Constants
  <2> QED BY <1>0, <1>1, <2>1, <2>2 DEF TeamOk
<1>4. CASE TeamDone
  <2>1. team' = FALSE /\ UNCHANGED <<holds, teamHolds>>
    BY <1>4 DEF TeamDone, hostVars
  <2> QED BY <1>0, <2>1 DEF TeamOk
<1>5. ASSUME FillHeld \/ FillWaits \/ FillAlone \/ FillAhead \/ ClaimAhead \/ WriteAhead \/ ClaimWaits
             \/ Route \/ RefillFrom \/ RefillResident \/ Submit \/ SubmitBusy \/ Synced
      PROVE  UNCHANGED <<holds, team, teamHolds>>
  BY <1>5 DEF FillHeld, FillWaits, FillAlone, FillAhead, ClaimAhead, WriteAhead, ClaimWaits, Route,
              RefillFrom, RefillResident, Submit, SubmitBusy, Synced, hostVars, teamVars
<1>6. ASSUME Prefetch \/ Choose \/ Step \/ PlaceHit \/ LeaveMiss \/ PlaceMiss \/ LaunchRow
             \/ NextBlock \/ BeginPass \/ WorkerWrites \/ CopyRuns \/ MainRuns
      PROVE  UNCHANGED <<holds, team, teamHolds>>
  BY <1>6 DEF Prefetch, Choose, Step, PlaceHit, LeaveMiss, PlaceMiss, LaunchRow, NextBlock, BeginPass,
              WorkerWrites, CopyRuns, MainRuns, hostVars, teamVars
<1>7. ASSUME UNCHANGED <<holds, team, teamHolds>> PROVE TeamOk'
  BY <1>0, <1>7 DEF TeamOk
<1> QED BY <1>2, <1>3, <1>4, <1>5, <1>6, <1>7 DEF Next, Thread

LEMMA StreamStep ==
    ASSUME IInv, Next PROVE StreamTypes'
<1>0. /\ main \in Seq(Ops) /\ copy \in Seq(Copies) /\ predicted \in [Block -> BOOLEAN]
      /\ resident \in [Block -> [DeviceSlot -> Landed]] /\ block \in Block
  BY DEF IInv, StreamTypes, ThreadOk
<1>1. ASSUME main' \in Seq(Ops), copy' \in Seq(Copies), predicted' \in [Block -> BOOLEAN],
             resident' \in [Block -> [DeviceSlot -> Landed]]
      PROVE  StreamTypes'
  BY <1>1 DEF StreamTypes
<1>2. CASE FillHeld \/ FillAlone \/ RefillFrom
  BY <1>2, IssueSteps
<1>3. [op |-> "wait", id |-> fetched[block]] \in Ops
  <2>1. fetched[block] \in Nat
    BY <1>0 DEF IInv, EventTypes
  <2> QED BY <2>1 DEF Ops
<1>4. CASE Synced \/ PlaceHit
  <2>1. /\ UNCHANGED <<copy, predicted, resident>>
        /\ \/ UNCHANGED main
           \/ main' = <<[op |-> "wait", id |-> fetched[block]]>>
           \/ main' = Append(main, [op |-> "wait", id |-> fetched[block]])
    BY <1>4 DEF Synced, PlaceHit
  <2>2. Append(main, [op |-> "wait", id |-> fetched[block]]) \in Seq(Ops)
    BY <1>0, <1>3, AppendIs
  <2>3. <<[op |-> "wait", id |-> fetched[block]]>> \in Seq(Ops)
    BY <1>3
  <2>4. main' \in Seq(Ops)
    BY <1>0, <2>1, <2>2, <2>3
  <2> QED BY <1>0, <1>1, <2>1, <2>4
<1>5. Kernel \in Ops /\ [op |-> "add"] \in Ops
  <2>1. placed \subseteq DeviceSlot \X Expert
    BY DEF IInv, WantOk
  <2> QED BY <1>0, <2>1 DEF Kernel, Ops
<1>6. CASE LaunchRow \/ StartMisses
  <2>1. /\ UNCHANGED <<copy, resident>>
        /\ \E v : predicted' = [predicted EXCEPT ![block] = v] /\ (v = FALSE \/ v = predicted[block])
        /\ main' = Append(main, Kernel) \/ main' = main \o <<Kernel, [op |-> "add"]>>
    BY <1>6 DEF LaunchRow, StartMisses
  <2>2. Append(main, Kernel) \in Seq(Ops) /\ main \o <<Kernel, [op |-> "add"]>> \in Seq(Ops)
    <3>1. <<Kernel, [op |-> "add"]>> \in Seq(Ops)
      BY <1>5
    <3> QED BY <1>0, <1>5, <3>1, AppendIs, ConcatIs
  <2>3. predicted' \in [Block -> BOOLEAN]
    BY <1>0, <2>1
  <2> QED BY <1>0, <1>1, <2>1, <2>2, <2>3
<1>7. CASE Prefetch
  <2>1. predicted' = [predicted EXCEPT ![block + 1] = TRUE] /\ UNCHANGED <<main, copy, resident>>
    BY <1>7 DEF Prefetch, streamVars
  <2>2. predicted' \in [Block -> BOOLEAN]
    BY <1>0, <2>1
  <2> QED BY <1>0, <1>1, <2>1, <2>2
<1>8. CASE Cool
  <2>1. /\ predicted' = NonePredicted /\ UNCHANGED <<main, resident>>
        /\ copy' = Disown({c.id : c \in ToSet(copy)})
    BY <1>8 DEF Cool
  <2>2. copy' \in Seq(Copies)
    BY <1>0, <2>1, DisownIs
  <2> QED BY <1>0, <1>1, <2>1, <2>2 DEF NonePredicted
<1>9. CASE Resize
  <2>1. /\ predicted' = NonePredicted /\ UNCHANGED <<main, copy>>
        /\ resident' = NoBytes
    BY <1>9 DEF Resize
  <2>2. NoBytes \in [Block -> [DeviceSlot -> Landed]]
    BY Constants DEF NoBytes, NoExpert, Landed
  <2> QED BY <1>0, <1>1, <2>1, <2>2 DEF NonePredicted
<1>10. ASSUME NEW c \in Ops \cup Copies, c.op = "copy", Lands(c)
       PROVE  resident' \in [Block -> [DeviceSlot -> Landed]]
  <2>1. c \in Copies
    BY <1>10 DEF Ops
  <2>2. c.src \in HostSlot
    BY <2>1 DEF Copies
  <2>3. content[c.src] \in Bytes
    BY <2>2 DEF IInv, ContentTypes
  <2> DEFINE e == IF content[c.src][1] = c.block THEN content[c.src][2] ELSE NoExpert
             v == [expert |-> e, stray |-> Stray(c)]
  <2>4. v \in Landed
    <3>1. e \in 0..Experts
      BY <2>3, Constants DEF Bytes, Expert, NoExpert, Nobody
    <3> QED BY <3>1 DEF Landed, Stray
  <2>5. resident' = [resident EXCEPT ![c.block][c.slot] = v]
    BY <1>10 DEF Lands
  <2> HIDE DEF v
  <2> QED BY <1>0, <2>4, <2>5
<1>11. CASE CopyRuns
  <2>1. copy # <<>> /\ Lands(Head(copy)) /\ copy' = Tail(copy) /\ UNCHANGED <<main, predicted>>
    BY <1>11 DEF CopyRuns, deviceVars
  <2>2. Head(copy) \in Copies /\ copy' \in Seq(Copies)
    BY <1>0, <2>1, TailIs
  <2>3. resident' \in [Block -> [DeviceSlot -> Landed]]
    BY <1>10, <2>1, <2>2 DEF Copies
  <2> QED BY <1>0, <1>1, <2>1, <2>2, <2>3
<1>12. CASE MainRuns
  <2>1. /\ main # <<>> /\ main' = Tail(main) /\ UNCHANGED <<copy, predicted>>
        /\ IF Head(main).op = "copy" THEN Lands(Head(main)) ELSE UNCHANGED resident
    BY <1>12 DEF MainRuns, deviceVars
  <2>2. Head(main) \in Ops /\ main' \in Seq(Ops)
    BY <1>0, <2>1, TailIs
  <2>3. resident' \in [Block -> [DeviceSlot -> Landed]]
    BY <1>0, <1>10, <2>1, <2>2
  <2> QED BY <1>0, <1>1, <2>1, <2>2, <2>3
<1>13. ASSUME FillWaits \/ FillAhead \/ ClaimAhead \/ WriteAhead \/ ClaimWaits \/ Route
              \/ RefillResident \/ Submit \/ SubmitBusy
       PROVE  UNCHANGED <<main, copy, predicted, resident>>
  BY <1>13 DEF FillWaits, FillAhead, ClaimAhead, WriteAhead, ClaimWaits, Route, RefillResident,
               Submit, SubmitBusy, deviceVars, streamVars
<1>14. ASSUME Choose \/ Step \/ LeaveMiss \/ PlaceMiss \/ NextBlock \/ BeginPass \/ WorkerWrites
              \/ TeamDone
       PROVE  UNCHANGED <<main, copy, predicted, resident>>
  BY <1>14 DEF Choose, Step, LeaveMiss, PlaceMiss, NextBlock, BeginPass, WorkerWrites, TeamDone,
               deviceVars, streamVars
<1>15. ASSUME UNCHANGED <<main, copy, predicted, resident>> PROVE StreamTypes'
  BY <1>0, <1>15 DEF StreamTypes
<1> QED BY <1>2, <1>4, <1>6, <1>7, <1>8, <1>9, <1>11, <1>12, <1>13, <1>14, <1>15 DEF Next, Thread

-----------------------------------------------------------------------------
(* There is room *)

(* When every slot is held or out, one is out with the worker: the team    *)
(* holds no more slots than a row chooses experts.                         *)
LEMMA RoomToClaim ==
    ASSUME IInv, ~AnyIdle PROVE ~NothingOut
<1> SUFFICES ASSUME NothingOut PROVE FALSE
  OBVIOUS
<1>1. /\ ToSet(lru) = Slots /\ traffic \in Traffics /\ teamHolds \subseteq HostSlot
      /\ Cardinality(teamHolds) <= Used
      /\ holds = [s \in HostSlot |-> IF s \in teamHolds THEN 1 ELSE 0]
  BY DEF IInv, LruOk, ThreadOk, TeamOk
<1>2. traffic.slots \in Nat /\ Used < traffic.slots /\ Slots \subseteq HostSlot /\ Used \in Nat
      /\ HostSlots \in Nat
  BY <1>1, Constants DEF Slots
<1>3. ASSUME NEW s PROVE ~Writing(s)
  <2>1. ToSet(jobs \o results) = {}
    <3>1. jobs = <<>> /\ results = <<>>
      BY DEF NothingOut
    <3>2. <<>> \o <<>> = <<>>
      BY EmptySeq, ConcatEmptySeq
    <3> QED BY <3>1, <3>2 DEF ToSet
  <2> QED BY <2>1 DEF Writing
<1>4. Slots \subseteq teamHolds
  <2>1. ASSUME NEW s \in Slots PROVE s \in teamHolds
    <3>1. ~Idle(s)
      BY <1>1 DEF AnyIdle
    <3>2. holds[s] # 0
      BY <1>3, <3>1 DEF Idle
    <3> QED BY <1>1, <1>2, <3>2
  <2> QED BY <2>1
<1>5. IsFiniteSet(teamHolds)
  <2>1. IsFiniteSet(HostSlot)
    BY <1>2, FS_Interval DEF HostSlot
  <2> QED BY <1>1, <2>1, FS_Subset
<1>6. Cardinality(Slots) = traffic.slots /\ Cardinality(Slots) <= Cardinality(teamHolds)
  <2>1. Cardinality(Slots) = traffic.slots
    BY <1>2, FS_Interval DEF Slots
  <2> QED BY <1>4, <1>5, <2>1, FS_Subset
<1>7. Cardinality(teamHolds) \in Nat
  BY <1>5, FS_CardinalityType
<1> QED BY <1>1, <1>2, <1>6, <1>7

(* A slot not stamped is a victim to choose.                               *)
LEMMA VictimExists ==
    ASSUME DeviceMaps, NEW b \in Block, NEW t, NEW q \in 1..per, held[b][q].used # t
    PROVE  Victim(held, b, t) # {}
<1> DEFINE free == {p \in 1..per : held[b][p].used # t}
           U == {held[b][p].used : p \in free}
<1>1. per \in Nat /\ \A p \in 1..per : held[b][p].used \in Nat
  <2>1. per \in Nat /\ 1..per \subseteq DeviceSlot
    BY DeviceSlots DEF DeviceMaps
  <2>2. \A p \in DeviceSlot : held[b][p] \in [expert : 0..Experts, used : 0..tick]
    BY DEF DeviceMaps
  <2> QED BY <2>1, <2>2
<1>2. PICK u \in U : \A v \in U : u <= v
  <2>1. U \in SUBSET Nat
    BY <1>1
  <2>2. U # {}
    OBVIOUS
  <2> QED BY <2>1, <2>2, LeastExists
<1> DEFINE P == {p \in free : held[b][p].used = u}
<1>3. PICK p \in P : \A r \in P : p <= r
  <2>1. P \in SUBSET Nat
    BY <1>1
  <2>2. P # {}
    OBVIOUS
  <2> QED BY <2>1, <2>2, LeastExists
<1>4. ASSUME NEW r \in free
      PROVE  held[b][p].used < held[b][r].used \/ (held[b][p].used = held[b][r].used /\ p <= r)
  <2>1. u <= held[b][r].used /\ u \in Nat /\ held[b][r].used \in Nat /\ held[b][p].used = u
    BY <1>1, <1>2, <1>3
  <2>2. CASE held[b][r].used = u
    <3>1. r \in P
      BY <2>2
    <3> QED BY <1>3, <2>1, <2>2, <3>1
  <2>3. CASE held[b][r].used # u
    BY <2>1, <2>3
  <2> QED BY <2>2, <2>3
<1>5. p \in free
  BY <1>3
<1>6. p \in Victim(held, b, t)
  BY <1>4, <1>5 DEF Victim
<1> QED BY <1>6

(* An expert of the row that is not resident finds a slot: the other       *)
(* experts of the row cannot have them all.                                *)
LEMMA RoomToPlace ==
    ASSUME IInv, NEW e \in Expert, Placing(e), ~RowDecodes, ~Resident(block, e)
    PROVE  Victim(held, block, tick) # {}
<1> SUFFICES ASSUME Victim(held, block, tick) = {} PROVE FALSE
  OBVIOUS
<1>1. DeviceMaps /\ block \in Block /\ RowUnderWay /\ row \in Seq(Expert)
  BY DEF IInv, ThreadOk, RowsOk, Placing, RowUnderWay
<1>2. /\ IsFiniteSet(Current) /\ Cardinality(Current) <= per
      /\ \A p \in 1..per : held[block][p].used = tick => held[block][p].expert \in Current
  BY <1>1 DEF IInv, RowFits
<1>3. per \in Nat /\ per # 0
  BY <1>1, DeviceSlots DEF DeviceMaps
<1>4. \A p \in 1..per : held[block][p].used = tick
  BY <1>1, VictimExists
<1>5. e \in Current
  <2>1. row # <<>> /\ e = Head(row)
    BY DEF Placing
  <2> QED BY <1>1, <2>1, HeadIs DEF Current
<1> DEFINE f == [p \in 1..per |-> held[block][p].expert]
           T == Current \ {e}
<1>6. ASSUME NEW p \in 1..per PROVE f[p] \in T
  <2>1. held[block][p].expert \in Current
    BY <1>2, <1>4
  <2>2. held[block][p].expert # e
    <3>1. slotOf[block][e] = NoSlot /\ p # NoSlot
      BY DEF Resident, NoSlot
    <3> QED BY <1>1, <3>1 DEF DeviceMaps
  <2> QED BY <2>1, <2>2
<1>7. f \in [1..per -> T]
  BY <1>6
<1>8. IsFiniteSet(1..per) /\ Cardinality(1..per) = per
  BY <1>3, FS_Interval
<1>9. IsFiniteSet(T) /\ Cardinality(T) = Cardinality(Current) - 1 /\ Cardinality(Current) \in Nat
  BY <1>2, <1>5, FS_RemoveElement, FS_CardinalityType
<1>10. Cardinality(T) < Cardinality(1..per)
  BY <1>2, <1>3, <1>8, <1>9
<1> HIDE DEF f, T
<1>11. \E x, y \in 1..per : x # y /\ f[x] = f[y]
  <2> SUFFICES ASSUME \A x, y \in 1..per : f[x] = f[y] => x = y PROVE FALSE
    OBVIOUS
  <2>1. f \in Injection(1..per, T)
    <3>1. DOMAIN f = 1..per
      BY <1>7
    <3> QED BY <1>7, <3>1 DEF Injection, IsInjective
  <2>2. Cardinality(1..per) <= Cardinality(T)
    BY <1>9, <2>1, FS_Injection
  <2>3. Cardinality(T) \in Nat
    BY <1>9, FS_CardinalityType
  <2> QED BY <1>3, <1>8, <1>10, <2>2, <2>3
<1>12. PICK x \in 1..per, y \in 1..per : x # y /\ held[block][x].expert = held[block][y].expert
  BY <1>11 DEF f
<1>13. held[block][x].expert \in Expert
  <2>1. held[block][x].expert \in Current
    BY <1>2, <1>4
  <2>2. Current \subseteq Expert
    <3>1. placed \subseteq DeviceSlot \X Expert
      BY DEF IInv, WantOk
    <3>2. ToSet(row) \subseteq Expert
      BY <1>1, LenProperties, ElementOfSeq DEF ToSet
    <3> QED BY <3>1, <3>2 DEF Current
  <2> QED BY <2>1, <2>2
<1>14. slotOf[block][held[block][x].expert] = x /\ slotOf[block][held[block][x].expert] = y
  BY <1>1, <1>12, <1>13 DEF DeviceMaps
<1> QED BY <1>12, <1>14

-----------------------------------------------------------------------------
(* The recording thread *)

LEMMA NextBlockIs ==
    ASSUME IInv, block < Blocks PROVE block + 1 \in Block
<1>1. block \in Block /\ Blocks \in Nat
  BY Constants DEF IInv, ThreadOk
<1> QED BY <1>1 DEF Block

LEMMA ThreadStep ==
    ASSUME IInv, Next PROVE ThreadOk'
<1>0. /\ pc \in {"between", "route", "refill", "predict", "choose", "step", "place", "fill", "ahead"}
      /\ traffic \in Traffics /\ pass \in 0..Passes /\ block \in Block
      /\ pc # "between" => pass # 0
      /\ UNCHANGED traffic
  BY TrafficStays DEF IInv, ThreadOk
<1>1. Passes' = Passes /\ Passes \in Nat
  <2>1. traffic.kinds \in Seq(Kinds)
    BY <1>0, Constants
  <2> QED BY <1>0, <2>1, LenProperties DEF Passes
<1>2. ASSUME pc' \in {"route", "refill", "choose", "step", "place", "fill", "ahead"},
             pc # "between", UNCHANGED <<pass, block>>
      PROVE  ThreadOk'
  BY <1>0, <1>1, <1>2 DEF ThreadOk
<1>3. ASSUME UNCHANGED <<pc, pass, block>> PROVE ThreadOk'
  BY <1>0, <1>1, <1>3 DEF IInv, ThreadOk
<1>4. CASE FillHeld \/ FillAlone
  <2>1. Filling /\ pc' = want.then /\ UNCHANGED <<pass, block>>
    BY <1>4 DEF FillHeld, FillAlone, NotHeld, Filling, modeVars
  <2> QED BY <1>2, <2>1, WantIs DEF Filling
<1>5. CASE FillWaits \/ ClaimAhead \/ RefillFrom \/ RefillResident \/ Submit \/ PlaceHit \/ LeaveMiss
  BY <1>3, <1>5 DEF FillWaits, ClaimAhead, RefillFrom, RefillResident, Submit, PlaceHit, LeaveMiss,
                    threadVars, modeVars
<1>6. CASE FillAhead \/ WriteAhead
  <2>1. Filling /\ pc' \in {"fill", "ahead"} /\ UNCHANGED <<pass, block>>
    BY <1>6 DEF FillAhead, NotHeld, WriteAhead, Filling, modeVars
  <2> QED BY <1>2, <2>1 DEF Filling
<1>7. CASE ClaimWaits
  <2>1. ~NothingOut
    BY <1>7, RoomToClaim DEF ClaimWaits
  <2>2. UNCHANGED <<pc, pass, block>>
    BY <1>7, <2>1 DEF ClaimWaits, modeVars
  <2> QED BY <1>3, <2>2
<1>8. CASE Route \/ Choose \/ Step \/ LaunchRow \/ StartMisses
  <2>1. /\ pc # "between" /\ pc' \in {"refill", "step", "place"} /\ UNCHANGED <<pass, block>>
    BY <1>8 DEF Route, Choose, Step, LaunchRow, StartMisses, PlacedRow, modeVars
  <2> QED BY <1>2, <2>1
<1>9. CASE SubmitBusy \/ Prefetch
  <2>1. /\ pc # "between" /\ pc' \in {"refill", "fill", "choose"} /\ UNCHANGED <<pass, block>>
    BY <1>9 DEF SubmitBusy, NotAtHost, Prefetch, modeVars
  <2> QED BY <1>2, <2>1
<1>10. CASE Synced
  <2>1. /\ pc = "refill" /\ UNCHANGED <<pass, block>>
        /\ pc' = "choose" \/ (pc' = "predict" /\ block < Blocks)
    BY <1>10 DEF Synced, modeVars
  <2> QED BY <1>0, <1>1, <2>1 DEF ThreadOk
<1>11. CASE PlaceMiss
  <2>1. PICK e \in Expert : Placing(e) /\ ~RowDecodes /\ ~Resident(block, e)
    BY <1>11 DEF PlaceMiss
  <2>2. Victim(held, block, tick) # {}
    BY <2>1, RoomToPlace
  <2>3. pc = "place" /\ pc' = "fill" /\ UNCHANGED <<pass, block>>
    BY <1>11, <2>1, <2>2 DEF PlaceMiss, Placing, modeVars
  <2> QED BY <1>2, <2>3
<1>12. CASE NextBlock
  <2>1. /\ pc = "step" /\ UNCHANGED pass
        /\ \/ block < Blocks /\ block' = block + 1 /\ pc' = "route"
           \/ block' = 1 /\ pc' = "between"
    BY <1>12 DEF NextBlock
  <2>2. block' \in Block
    <3>1. 1 \in Block
      BY Constants DEF Block
    <3> QED BY <2>1, <3>1, NextBlockIs
  <2> QED BY <1>0, <1>1, <2>1, <2>2 DEF ThreadOk
<1>13. CASE BeginPass
  <2>1. pass < Passes /\ pass' = pass + 1 /\ pc' = "route" /\ UNCHANGED block
    BY <1>13 DEF BeginPass
  <2>2. pass' \in 0..Passes /\ pass' # 0
    BY <1>0, <1>1, <2>1
  <2> QED BY <1>0, <1>1, <2>1, <2>2 DEF ThreadOk
<1>14. CASE Cool \/ Resize \/ WorkerWrites \/ CopyRuns \/ MainRuns \/ TeamDone
  <2>1. UNCHANGED <<pc, pass, block>>
    BY <1>14 DEF Cool, Resize, WorkerWrites, CopyRuns, MainRuns, TeamDone, threadVars, modeVars
  <2> QED BY <1>3, <2>1
<1> QED BY <1>4, <1>5, <1>6, <1>7, <1>8, <1>9, <1>10, <1>11, <1>12, <1>13, <1>14 DEF Next, Thread

LEMMA WantStep ==
    ASSUME IInv, Next PROVE WantOk'
<1>0. /\ Filling => want \in Wants /\ slotOf[want.block][want.expert] = NoSlot
      /\ Filling /\ want.then = "place" => want.block = block /\ \E r \in placed : r[2] = want.expert
      /\ left \in 0..Ahead /\ (pc = "ahead" => left <= Len(planned))
      /\ placed \subseteq DeviceSlot \X Expert /\ block \in Block /\ Ahead \in Nat
  BY Constants DEF IInv, WantOk, ThreadOk
<1>1. ASSUME pc' \notin {"fill", "ahead"}, UNCHANGED left, placed' \subseteq DeviceSlot \X Expert
      PROVE  WantOk'
  BY <1>0, <1>1 DEF WantOk, Filling
<1>2. ASSUME Filling, pc' \in {"fill", "ahead"}, UNCHANGED <<want, slotOf, placed, block, per, tick>>,
             left' \in 0..Ahead, pc' = "ahead" => left' <= Len(planned')
      PROVE  WantOk'
  BY <1>0, <1>2 DEF WantOk, Filling, Wants
<1>3. ASSUME pc' = "fill", want' \in Wants', slotOf'[want'.block][want'.expert] = NoSlot,
             UNCHANGED left, placed' \subseteq DeviceSlot \X Expert,
             want'.then = "place" => want'.block = block' /\ \E r \in placed' : r[2] = want'.expert
      PROVE  WantOk'
  BY <1>0, <1>3 DEF WantOk, Filling
<1>4. CASE FillHeld \/ FillAlone
  <2>1. Filling /\ pc' = want.then /\ UNCHANGED <<left, placed>>
    BY <1>4 DEF FillHeld, FillAlone, NotHeld, Filling, rowVars
  <2>2. pc' \notin {"fill", "ahead"}
    BY <2>1, WantIs
  <2> QED BY <1>0, <1>1, <2>1, <2>2
<1>5. CASE FillWaits
  <2>1. Filling /\ UNCHANGED <<pc, want, slotOf, placed, block, per, tick, left, planned>>
    BY <1>5 DEF FillWaits, Filling, deviceVars, threadVars, rowVars, modeVars
  <2> QED BY <1>0, <1>2, <2>1 DEF Filling
<1>6. CASE FillAhead
  <2>1. /\ Filling /\ pc' = "ahead" /\ UNCHANGED <<want, slotOf, placed, block, per, tick, planned>>
        /\ left' = IF Len(planned) < Ahead THEN Len(planned) ELSE Ahead
    BY <1>6 DEF FillAhead, NotHeld, Filling, hostVars, deviceVars, rowVars, modeVars
  <2>2. Len(planned) \in Nat
    BY LenProperties DEF IInv, ContentTypes
  <2>3. left' \in 0..Ahead /\ left' <= Len(planned')
    BY <1>0, <2>1, <2>2
  <2> QED BY <1>2, <2>1, <2>3
<1>7. CASE ClaimAhead
  <2>1. /\ Filling /\ UNCHANGED <<pc, want, slotOf, placed, block, per, tick>>
        /\ pc = "ahead" /\ left > 0 /\ planned' = Tail(planned) /\ left' = left - 1
    BY <1>7 DEF ClaimAhead, Filling, deviceVars, rowVars, modeVars
  <2>2. planned # <<>> /\ planned \in Seq(Block \X Expert)
    BY <1>7, AheadClaims DEF IInv, ContentTypes
  <2>3. Len(planned') = Len(planned) - 1 /\ Len(planned) \in Nat
    BY <2>1, <2>2, TailIs, LenProperties
  <2>4. left' \in 0..Ahead /\ left' <= Len(planned')
    BY <1>0, <2>1, <2>3
  <2> QED BY <1>2, <2>1, <2>4 DEF Filling
<1>8. CASE WriteAhead
  <2>1. /\ Filling /\ pc' \in {"fill", "ahead"} /\ left = 0
        /\ UNCHANGED <<want, slotOf, placed, block, per, tick, planned, left>>
    BY <1>8 DEF WriteAhead, Filling, deviceVars, rowVars, modeVars
  <2>2. Len(planned) \in Nat
    BY LenProperties DEF IInv, ContentTypes
  <2> QED BY <1>0, <1>2, <2>1, <2>2
<1>9. CASE ClaimWaits
  <2>1. Filling /\ ~NothingOut
    BY <1>9, RoomToClaim DEF ClaimWaits, NotHeld, Filling
  <2>2. UNCHANGED <<pc, want, slotOf, placed, block, per, tick, planned, left>>
    BY <1>9, <2>1 DEF ClaimWaits, deviceVars, rowVars, modeVars
  <2> QED BY <1>0, <1>2, <2>1, <2>2 DEF Filling
<1>10. CASE Route \/ RefillFrom \/ RefillResident \/ Submit \/ Synced
  <2>1. pc' \notin {"fill", "ahead"} /\ UNCHANGED <<left, placed>>
    BY <1>10 DEF Route, RefillFrom, RefillResident, Submit, NotAtHost, Synced, rowVars
  <2> QED BY <1>0, <1>1, <2>1
<1>11. CASE SubmitBusy
  <2>1. CASE RefillVictim = {}
    <3>1. pc' \notin {"fill", "ahead"} /\ UNCHANGED <<left, placed>>
      BY <1>11, <2>1 DEF SubmitBusy, NotAtHost, rowVars
    <3> QED BY <1>0, <1>1, <3>1
  <2>2. CASE RefillVictim # {}
    <3>1. PICK p \in RefillVictim :
              want' = Fill(Refill.block, Refill.expert, p, Refill.tick, "copy", "refill")
      BY <1>11, <2>2 DEF SubmitBusy
    <3>2. /\ todo # <<>> /\ pc' = "fill" /\ UNCHANGED <<left, placed, per, tick, slotOf>>
          /\ slotOf[Refill.block][Refill.expert] = NoSlot
      BY <1>11, <2>2 DEF SubmitBusy, NotAtHost, Resident, deviceVars, rowVars
    <3>3. Refill.block \in Block /\ Refill.expert \in Expert /\ Refill.tick \in 0..tick
      BY <3>2, RefillIs
    <3>4. p \in 1..per
      BY DEF RefillVictim, Victim
    <3>5. /\ want' \in Wants' /\ want'.then = "refill" /\ want'.block = Refill.block
          /\ want'.expert = Refill.expert
      BY <3>1, <3>2, <3>3, <3>4 DEF Fill, Wants
    <3> QED BY <1>0, <1>3, <3>2, <3>5
  <2> QED BY <2>1, <2>2
<1>12. CASE Prefetch
  <2> DEFINE next == block + 1
  <2>1. PICK es \in Routed :
          LET absent == Only(es, Absent(next))
              victim == Victim(held', next, tick')
          IN IF absent = <<>> \/ victim = {} THEN pc' = "choose" /\ UNCHANGED want
             ELSE /\ \E p \in victim :
                        want' = Fill(next, Head(absent), p, tick', "copy", "choose")
                  /\ pc' = "fill"
    BY <1>12 DEF Prefetch
  <2>2. /\ pc = "predict" /\ tick' = tick + 1 /\ UNCHANGED <<left, placed, per, slotOf>> /\ tick \in Nat
    BY <1>12 DEF Prefetch, rowVars, IInv, DeviceMaps
  <2> DEFINE absent == Only(es, Absent(next))
  <2>3. CASE pc' = "choose"
    BY <1>0, <1>1, <2>2, <2>3
  <2>4. CASE pc' # "choose"
    <3>1. absent # <<>> /\ pc' = "fill"
      BY <2>1, <2>4
    <3>2. PICK p \in Victim(held', next, tick') :
              want' = Fill(next, Head(absent), p, tick', "copy", "choose")
      BY <2>1, <2>4
    <3>3. next \in Block
      BY <2>2, NextBlockIs DEF IInv, ThreadOk
    <3>4. Head(absent) \in Expert /\ slotOf[next][Head(absent)] = NoSlot
      <4>1. es \in Seq(Expert)
        BY Constants DEF Routed
      <4>2. absent \in Seq(Expert) /\ ToSet(absent) = ToSet(es) \cap Absent(next)
        BY <4>1, OnlyIs
      <4> HIDE DEF absent
      <4>3. Head(absent) \in Absent(next)
        BY <3>1, <4>2, HeadIs
      <4> QED BY <4>3 DEF Absent, Resident
    <3> HIDE DEF absent
    <3>5. p \in 1..per'
      BY <2>2, <3>2 DEF Victim
    <3>6. tick' \in 0..tick'
      BY <2>2
    <3>7. /\ want' \in Wants' /\ want'.then = "choose" /\ want'.block = next
          /\ want'.expert = Head(absent)
      BY <3>2, <3>3, <3>4, <3>5, <3>6 DEF Fill, Wants
    <3> QED BY <1>0, <1>3, <2>2, <3>1, <3>4, <3>7
  <2> QED BY <2>3, <2>4
<1>13. CASE Choose \/ LeaveMiss \/ LaunchRow \/ StartMisses \/ BeginPass \/ Cool \/ Resize
  <2>1. pc' \notin {"fill", "ahead"} /\ UNCHANGED <<left, placed>>
    BY <1>13 DEF Choose, LeaveMiss, Placing, LaunchRow, StartMisses, BeginPass, Cool, Resize,
                 rowVars, threadVars
  <2> QED BY <1>0, <1>1, <2>1
<1>14. CASE Step \/ NextBlock
  <2>1. pc' \notin {"fill", "ahead"} /\ UNCHANGED left /\ placed' = {}
    BY <1>14 DEF Step, NextBlock
  <2> QED BY <1>1, <2>1
<1>15. CASE PlaceHit
  <2>1. PICK e \in Expert : Resident(block, e) /\ placed' = placed \cup {<<slotOf[block][e], e>>}
    BY <1>15 DEF PlaceHit
  <2>2. pc' \notin {"fill", "ahead"} /\ UNCHANGED left
    BY <1>15 DEF PlaceHit, Placing
  <2>3. slotOf[block][e] \in DeviceSlot
    <3>1. slotOf[block][e] \in 0..per /\ 1..per \subseteq DeviceSlot /\ per \in Nat
      BY <1>0, DeviceSlots DEF IInv, DeviceMaps
    <3>2. slotOf[block][e] # 0
      BY <2>1 DEF Resident, NoSlot
    <3> QED BY <3>1, <3>2
  <2> QED BY <1>0, <1>1, <2>1, <2>2, <2>3
<1>16. CASE PlaceMiss
  <2>1. PICK e \in Expert :
          /\ Placing(e) /\ ~RowDecodes /\ ~Resident(block, e)
          /\ LET victim == Victim(held, block, tick) IN
             IF victim = {} THEN pc' = "error" /\ UNCHANGED <<want, row, placed>>
             ELSE \E p \in victim :
                    /\ want' = Fill(block, e, p, tick, "main", "place")
                    /\ pc' = "fill"
                    /\ row' = Tail(row) /\ placed' = placed \cup {<<p, e>>}
    BY <1>16 DEF PlaceMiss
  <2>2. PICK p \in Victim(held, block, tick) :
          /\ want' = Fill(block, e, p, tick, "main", "place")
          /\ pc' = "fill" /\ placed' = placed \cup {<<p, e>>}
    BY <2>1, RoomToPlace
  <2>3. UNCHANGED <<left, block, per, tick, slotOf>> /\ tick \in Nat
    BY <1>16 DEF PlaceMiss, deviceVars, modeVars, IInv, DeviceMaps
  <2>4. p \in 1..per /\ p \in DeviceSlot /\ slotOf[block][e] = NoSlot
    BY <2>1, DeviceSlots DEF Victim, Resident, IInv, DeviceMaps
  <2>5. tick \in 0..tick
    BY <2>3
  <2>6. want' \in Wants' /\ want'.then = "place" /\ want'.block = block /\ want'.expert = e
    BY <1>0, <2>2, <2>3, <2>4, <2>5 DEF Fill, Wants
  <2>7. <<p, e>> \in placed' /\ <<p, e>>[2] = e /\ placed' \subseteq DeviceSlot \X Expert
    BY <1>0, <2>2, <2>4
  <2> QED BY <1>3, <2>2, <2>3, <2>4, <2>6, <2>7
<1>17. CASE WorkerWrites \/ CopyRuns \/ MainRuns \/ TeamDone
  <2>1. UNCHANGED <<pc, want, slotOf, placed, block, per, tick, planned, left>>
    BY <1>17 DEF WorkerWrites, CopyRuns, MainRuns, TeamDone, hostVars, deviceVars, threadVars,
                 rowVars, modeVars
  <2> QED BY <1>0, <2>1 DEF WantOk, Filling, Wants
<1> QED BY <1>4, <1>5, <1>6, <1>7, <1>8, <1>9, <1>10, <1>11, <1>12, <1>13, <1>14, <1>15, <1>16, <1>17
        DEF Next, Thread

-----------------------------------------------------------------------------
(* The router's choice *)

(* A row routes to as many experts as the code says, each once.            *)
LEMMA RoutedIs ==
    ASSUME NEW es \in Routed
    PROVE  /\ es \in Seq(Expert) /\ IsInjective(es)
           /\ IsFiniteSet(ToSet(es)) /\ Cardinality(ToSet(es)) <= Used
<1>1. es \in [1..Used -> Expert] /\ Used \in Nat /\ \A i, j \in 1..Used : i # j => es[i] # es[j]
  BY Constants DEF Routed
<1>2. es \in Seq(Expert) /\ DOMAIN es = 1..Used
  BY <1>1, SeqDef
<1>3. Len(es) = Used
  BY <1>1, <1>2, LenProperties
<1>4. IsInjective(es)
  BY <1>1, <1>2 DEF IsInjective
<1> QED BY <1>2, <1>3, <1>4, ToSetFits

(* A set of experts in some order.                                         *)
LEMMA SomeOrder ==
    ASSUME NEW S, S \subseteq Expert, NEW es \in SetToSeqs(S)
    PROVE  es \in Seq(Expert) /\ IsInjective(es)
<1>1. IsFiniteSet(S)
  <2>1. IsFiniteSet(Expert)
    BY Constants, FS_Interval DEF Expert
  <2> QED BY <2>1, FS_Subset
<1>2. Cardinality(S) \in Nat
  BY <1>1, FS_CardinalityType
<1>3. /\ es \in [1..Cardinality(S) -> S]
      /\ \A i, j \in 1..Cardinality(S) : i # j => es[i] # es[j]
  BY DEF SetToSeqs
<1>4. DOMAIN es = 1..Cardinality(S) /\ \A i \in 1..Cardinality(S) : es[i] \in Expert
  BY <1>3
<1>5. es \in [1..Cardinality(S) -> Expert]
  BY <1>3
<1> QED BY <1>2, <1>3, <1>4, <1>5, SeqDef DEF IsInjective

(* The experts of a pass in groups no larger than a block's slots.         *)
LEMMA GroupIs ==
    ASSUME NEW es \in Seq(Expert), IsInjective(es), NEW m \in Nat \ {0}, NEW n \in Nat,
           n <= Len(es), NEW k \in Nat, n < m + k
    PROVE  /\ SubSeq(es, m, n) \in Seq(Expert) /\ IsInjective(SubSeq(es, m, n))
           /\ Cardinality(ToSet(SubSeq(es, m, n))) <= k
<1> DEFINE u == SubSeq(es, m, n)
<1>1. Len(es) \in Nat /\ DOMAIN es = 1..Len(es) /\ \A i \in 1..Len(es) : es[i] \in Expert
  BY LenProperties, ElementOfSeq
<1>2. \A i \in m..n : es[i] \in Expert
  BY <1>1
<1>3. /\ u \in Seq(Expert) /\ Len(u) = (IF m <= n THEN n - m + 1 ELSE 0)
      /\ \A i \in 1..(n - m + 1) : u[i] = es[m + i - 1]
  <2>1. m \in Int /\ n \in Int
    OBVIOUS
  <2> QED BY <1>2, <2>1, SubSeqProperties
<1>4. DOMAIN u = 1..Len(u) /\ Len(u) \in Nat
  BY <1>3, LenProperties
<1> HIDE DEF u
<1>5. Len(u) <= k
  BY <1>3
<1>6. IsInjective(u)
  <2> SUFFICES ASSUME NEW i \in 1..Len(u), NEW j \in 1..Len(u), u[i] = u[j] PROVE i = j
    BY <1>4 DEF IsInjective
  <2>1. i \in 1..(n - m + 1) /\ j \in 1..(n - m + 1) /\ m + i - 1 \in 1..Len(es) /\ m + j - 1 \in 1..Len(es)
    BY <1>1, <1>3
  <2>2. es[m + i - 1] = es[m + j - 1]
    BY <1>3, <2>1
  <2>3. m + i - 1 = m + j - 1
    BY <1>1, <2>1, <2>2 DEF IsInjective
  <2> QED BY <2>3
<1>7. Cardinality(ToSet(u)) <= Len(u) /\ Cardinality(ToSet(u)) \in Nat
  BY <1>3, ToSetFits
<1>8. Cardinality(ToSet(u)) <= k
  BY <1>4, <1>5, <1>7
<1> QED BY <1>3, <1>6, <1>8 DEF u

LEMMA Division ==
    ASSUME NEW a \in Nat, NEW d \in Nat \ {0}
    PROVE  /\ a \div d \in Nat /\ a % d \in Nat /\ a % d < d
           /\ a = d * (a \div d) + (a % d)
  OBVIOUS

LEMMA Times ==
    ASSUME NEW d \in Nat, NEW x \in Nat, NEW y \in Nat, x <= y
    PROVE  d * x <= d * y
<1>1. y = x + (y - x) /\ y - x \in Nat
  OBVIOUS
<1>2. d * y = d * x + d * (y - x) /\ d * (y - x) \in Nat /\ d * x \in Nat
  OBVIOUS
<1> QED BY <1>2

LEMMA GroupsAre ==
    ASSUME per \in Nat \ {0}, NEW es \in Seq(Expert), IsInjective(es)
    PROVE  /\ Groups(es) \in Seq(Seq(Expert))
           /\ \A g \in DOMAIN Groups(es) : /\ IsInjective(Groups(es)[g])
                                           /\ Cardinality(ToSet(Groups(es)[g])) <= per
<1> DEFINE q == Len(es) \div per
           r == Len(es) % per
           n == q + IF r = 0 THEN 0 ELSE 1
           G(g) == SubSeq(es, (g - 1) * per + 1, IF g = n THEN Len(es) ELSE g * per)
           gs == [g \in 1..n |-> G(g)]
<1>1. Len(es) \in Nat
  BY LenProperties
<1>2. q \in Nat /\ r \in Nat /\ r < per /\ Len(es) = per * q + r
  BY <1>1, Division
<1>3. Groups(es) = gs
  BY DEF Groups
<1> HIDE DEF q, r
<1>4. n \in Nat
  BY <1>2
<1>5. ASSUME NEW g \in 1..n
      PROVE  /\ G(g) \in Seq(Expert) /\ IsInjective(G(g)) /\ Cardinality(ToSet(G(g))) <= per
  <2>1. (g - 1) * per = per * (g - 1) /\ g * per = per * (g - 1) + per /\ per * (g - 1) \in Nat
    BY <1>4
  <2>2. (g - 1) * per + 1 \in Nat \ {0}
    BY <2>1
  <2>3. CASE g = n
    <3>1. Len(es) < ((g - 1) * per + 1) + per
      <4>1. CASE r = 0
        <5>1. per * q = per * (g - 1) + per
          BY <1>2, <2>1, <2>3, <4>1
        <5> QED BY <1>2, <2>1, <4>1, <5>1
      <4>2. CASE r # 0
        <5>1. g - 1 = q
          BY <1>2, <2>3, <4>2
        <5> QED BY <1>2, <2>1, <5>1
      <4> QED BY <4>1, <4>2
    <3>2. G(g) = SubSeq(es, (g - 1) * per + 1, Len(es))
      BY <2>3
    <3> DEFINE m == (g - 1) * per + 1
    <3> HIDE DEF m, G
    <3>3. m \in Nat \ {0} /\ Len(es) < m + per /\ Len(es) <= Len(es) /\ G(g) = SubSeq(es, m, Len(es))
      BY <1>1, <2>2, <3>1, <3>2 DEF m
    <3> QED BY <1>1, <3>3, GroupIs
  <2>4. CASE g # n
    <3>1. g <= q /\ g \in Nat
      BY <1>2, <2>4
    <3>2. per * g <= per * q /\ per * g \in Nat /\ per * g = g * per
      BY <1>2, <3>1, Times
    <3>3. g * per \in Nat /\ g * per <= Len(es)
      BY <1>2, <3>2
    <3>4. g * per < ((g - 1) * per + 1) + per
      BY <2>1
    <3>5. G(g) = SubSeq(es, (g - 1) * per + 1, g * per)
      BY <2>4
    <3> QED BY <2>2, <3>3, <3>4, <3>5, GroupIs
  <2> QED BY <2>3, <2>4
<1> HIDE DEF n
<1>6. gs \in [1..n -> Seq(Expert)] /\ DOMAIN gs = 1..n
  BY <1>5
<1>7. \A g \in 1..n : IsInjective(gs[g]) /\ Cardinality(ToSet(gs[g])) <= per
  BY <1>5
<1> HIDE DEF gs
<1>8. gs \in Seq(Seq(Expert))
  BY <1>4, <1>6, SeqDef
<1> QED BY <1>3, <1>6, <1>7, <1>8

LEMMA ChooseIs ==
    ASSUME IInv, Choose
    PROVE  /\ misses' \in Seq(Expert) /\ IsInjective(misses') /\ later' \in Seq(Seq(Expert))
           /\ \A i \in DOMAIN later' : /\ IsInjective(later'[i])
                                       /\ Cardinality(ToSet(later'[i])) <= per
           /\ kind = "decode" => /\ misses' = <<>> /\ Len(later') = 1
                                 /\ \A i \in DOMAIN later' : Cardinality(ToSet(later'[i])) <= Used
<1>0. per \in Nat \ {0} /\ Used \in Nat /\ Used <= per
  BY DeviceSlots, Constants DEF IInv, DeviceMaps
<1>1. <<>> \in Seq(Expert) /\ IsInjective(<<>>)
  BY EmptySeq DEF IsInjective
<1>2. ASSUME NEW es \in Routed
      PROVE  es \in Seq(Expert) /\ IsInjective(es) /\ Cardinality(ToSet(es)) <= Used
             /\ Cardinality(ToSet(es)) <= per
  <2>1. es \in Seq(Expert) /\ IsInjective(es) /\ Cardinality(ToSet(es)) <= Used
        /\ IsFiniteSet(ToSet(es))
    BY RoutedIs
  <2>2. Cardinality(ToSet(es)) \in Nat
    BY <2>1, FS_CardinalityType
  <2> QED BY <1>0, <2>1, <2>2
<1>3. CASE kind = "decode"
  <2>1. misses' = <<>> /\ \E es \in Routed : later' = <<es>>
    BY <1>3 DEF Choose
  <2>2. PICK es \in Routed : later' = <<es>>
    BY <2>1
  <2>3. later' \in Seq(Seq(Expert)) /\ Len(later') = 1 /\ DOMAIN later' = {1} /\ later'[1] = es
    BY <1>2, <2>2
  <2> QED BY <1>1, <1>2, <2>1, <2>3
<1>4. CASE kind = "rows"
  <2>1. misses' = <<>> /\ \E es, fs \in Routed : later' = <<es, fs>>
    BY <1>4 DEF Choose
  <2>2. PICK es \in Routed, fs \in Routed : later' = <<es, fs>>
    BY <2>1
  <2>3. later' \in Seq(Seq(Expert)) /\ DOMAIN later' = {1, 2} /\ later'[1] = es /\ later'[2] = fs
    BY <1>2, <2>2
  <2> QED BY <1>1, <1>2, <1>4, <2>1, <2>3
<1>5. CASE kind # "decode" /\ kind # "rows"
  <2>1. PICK chosen \in Wide : \E host \in SUBSET (chosen \cap Absent(block)) :
            /\ misses' \in SetToSeqs(host)
            /\ later' = Groups(Only([e \in Expert |-> e], chosen \ host))
    BY <1>5 DEF Choose
  <2>2. PICK host \in SUBSET (chosen \cap Absent(block)) :
            /\ misses' \in SetToSeqs(host)
            /\ later' = Groups(Only([e \in Expert |-> e], chosen \ host))
    BY <2>1
  <2> DEFINE all == [e \in Expert |-> e]
             es == Only(all, chosen \ host)
  <2>3. later' = Groups(es)
    BY <2>2
  <2>4. chosen \subseteq Expert
    BY CacheAssumption DEF Expert
  <2>5. misses' \in Seq(Expert) /\ IsInjective(misses')
    <3>1. host \subseteq Expert
      BY <2>4
    <3> QED BY <2>2, <3>1, SomeOrder
  <2>6. es \in Seq(Expert) /\ IsInjective(es)
    <3>1. all \in Seq(Expert) /\ IsInjective(all)
      BY Constants, SeqDef DEF IsInjective, Expert
    <3> QED BY <3>1, OnlyIs
  <2> HIDE DEF es
  <2>7. /\ Groups(es) \in Seq(Seq(Expert))
        /\ \A g \in DOMAIN Groups(es) : /\ IsInjective(Groups(es)[g])
                                        /\ Cardinality(ToSet(Groups(es)[g])) <= per
    BY <1>0, <2>6, GroupsAre
  <2> QED BY <1>5, <2>3, <2>5, <2>7
<1> QED BY <1>3, <1>4, <1>5

-----------------------------------------------------------------------------
(* The rows *)

Fills == \/ FillHeld \/ FillWaits \/ FillAlone \/ FillAhead \/ ClaimAhead \/ WriteAhead \/ ClaimWaits
OutOfRows == \/ Route \/ RefillFrom \/ RefillResident \/ Submit \/ SubmitBusy \/ Synced \/ Prefetch
             \/ BeginPass \/ Cool \/ Resize
Elsewhere == WorkerWrites \/ CopyRuns \/ MainRuns \/ TeamDone

(* A fill leaves the row as it is, and leads back to it.                   *)
LEMMA FillsFrame ==
    ASSUME IInv, Fills
    PROVE  /\ UNCHANGED <<row, placed, misses, later, block, pass, traffic, per, tick>>
           /\ Filling /\ (RowUnderWay' <=> RowUnderWay) /\ pc' # "step" /\ pc # "step"
<1>0. ASSUME Filling, UNCHANGED want, pc' \in {"fill", "ahead"}
      PROVE  (RowUnderWay' <=> RowUnderWay) /\ pc' # "step" /\ pc # "step"
  BY <1>0 DEF Filling, RowUnderWay
<1>1. CASE FillHeld \/ FillAlone
  <2>1. /\ Filling /\ pc' = want.then
        /\ UNCHANGED <<row, placed, misses, later, block, pass, traffic, per, tick>>
    BY <1>1 DEF FillHeld, FillAlone, NotHeld, Filling, rowVars, modeVars
  <2>2. pc' \in {"place", "refill", "choose"}
    BY <2>1, WantIs
  <2> QED BY <2>1, <2>2 DEF Filling, RowUnderWay
<1>2. CASE FillWaits
  <2>1. /\ Filling /\ UNCHANGED <<want, pc>>
        /\ UNCHANGED <<row, placed, misses, later, block, pass, traffic, per, tick>>
    BY <1>2 DEF FillWaits, Filling, deviceVars, threadVars, rowVars, modeVars
  <2> QED BY <1>0, <2>1 DEF Filling
<1>3. CASE FillAhead \/ WriteAhead
  <2>1. /\ Filling /\ UNCHANGED want /\ pc' \in {"fill", "ahead"}
        /\ UNCHANGED <<row, placed, misses, later, block, pass, traffic, per, tick>>
    BY <1>3 DEF FillAhead, NotHeld, WriteAhead, Filling, deviceVars, threadVars, rowVars, modeVars
  <2> QED BY <1>0, <2>1
<1>4. CASE ClaimAhead
  <2>1. /\ Filling /\ UNCHANGED <<want, pc>>
        /\ UNCHANGED <<row, placed, misses, later, block, pass, traffic, per, tick>>
    BY <1>4 DEF ClaimAhead, Filling, deviceVars, rowVars, modeVars
  <2> QED BY <1>0, <2>1 DEF Filling
<1>5. CASE ClaimWaits
  <2>1. ~NothingOut
    BY <1>5, RoomToClaim DEF ClaimWaits
  <2>2. /\ Filling /\ UNCHANGED <<want, pc>>
        /\ UNCHANGED <<row, placed, misses, later, block, pass, traffic, per, tick>>
    BY <1>5, <2>1 DEF ClaimWaits, NotHeld, Filling, deviceVars, rowVars, modeVars
  <2> QED BY <1>0, <2>2 DEF Filling
<1> QED BY <1>1, <1>2, <1>3, <1>4, <1>5 DEF Fills

(* Between passes, and from a block's sync point to its rows, no row is    *)
(* under way.                                                              *)
LEMMA OutOfRowsFrame ==
    ASSUME IInv, OutOfRows
    PROVE  /\ UNCHANGED <<row, misses, later, placed, block>>
           /\ ~RowUnderWay /\ ~RowUnderWay' /\ pc # "step" /\ pc' # "step" /\ ~Filling
           /\ ~BeginPass => UNCHANGED pass
           /\ ~Resize => UNCHANGED per
<1>1. ASSUME Route \/ RefillFrom \/ RefillResident \/ Submit \/ Synced \/ BeginPass \/ Cool \/ Resize
      PROVE  /\ UNCHANGED <<row, misses, later, placed, block>>
             /\ pc \in {"route", "refill", "between"}
             /\ pc' \in {"refill", "choose", "predict", "route", "between"}
             /\ (~BeginPass => UNCHANGED pass) /\ (~Resize => UNCHANGED per)
  BY <1>1 DEF Route, RefillFrom, RefillResident, Submit, NotAtHost, Synced, BeginPass, Cool, Resize,
              threadVars, rowVars, modeVars, deviceVars
<1>2. CASE SubmitBusy
  <2>1. /\ UNCHANGED <<row, misses, later, placed, block, pass, per>> /\ pc = "refill"
        /\ \/ pc' = "refill"
           \/ pc' = "fill" /\ \E p \in RefillVictim :
                want' = Fill(Refill.block, Refill.expert, p, Refill.tick, "copy", "refill")
    BY <1>2 DEF SubmitBusy, NotAtHost, deviceVars, rowVars, modeVars
  <2>2. pc' = "fill" => want'.then = "refill"
    BY <2>1 DEF Fill
  <2> QED BY <2>1, <2>2 DEF RowUnderWay, Filling
<1>3. CASE Prefetch
  <2>1. /\ UNCHANGED <<row, misses, later, placed, block, pass, per>> /\ pc = "predict"
        /\ \/ pc' = "choose"
           \/ pc' = "fill" /\ \E e, p : want' = Fill(block + 1, e, p, tick', "copy", "choose")
    <3>1. PICK es \in Routed :
            LET absent == Only(es, Absent(block + 1))
                victim == Victim(held', block + 1, tick')
            IN IF absent = <<>> \/ victim = {} THEN pc' = "choose" /\ UNCHANGED want
               ELSE /\ \E p \in victim :
                          want' = Fill(block + 1, Head(absent), p, tick', "copy", "choose")
                    /\ pc' = "fill"
      BY <1>3 DEF Prefetch
    <3>2. \/ pc' = "choose"
          \/ pc' = "fill" /\ \E e, p : want' = Fill(block + 1, e, p, tick', "copy", "choose")
      BY <3>1
    <3> QED BY <1>3, <3>2 DEF Prefetch, rowVars, modeVars
  <2>2. pc' = "fill" => want'.then = "choose"
    BY <2>1 DEF Fill
  <2> QED BY <2>1, <2>2 DEF RowUnderWay, Filling
<1> QED BY <1>1, <1>2, <1>3 DEF OutOfRows, RowUnderWay, Filling

(* The device, the worker and the team leave the thread's state alone.     *)
LEMMA ElsewhereFrame ==
    ASSUME Elsewhere
    PROVE  /\ UNCHANGED <<row, misses, later, placed, block, pass, pc, want, per, traffic>>
           /\ UNCHANGED <<planned, hostOf, slotOf, held, tick>> /\ (RowUnderWay' <=> RowUnderWay)
<1>1. /\ UNCHANGED <<row, misses, later, placed, block, pass, pc, want, per, traffic>>
      /\ UNCHANGED <<planned, hostOf, slotOf, held, tick>>
  BY DEF Elsewhere, WorkerWrites, CopyRuns, MainRuns, TeamDone, hostVars, deviceVars, threadVars,
         rowVars, modeVars
<1> QED BY <1>1 DEF RowUnderWay, Filling

(* A miss is placed: there is a slot for it, and its fill is wanted.       *)
LEMMA PlaceMissIs ==
    ASSUME IInv, PlaceMiss
    PROVE  /\ row # <<>> /\ row' = Tail(row) /\ pc = "place" /\ pc' = "fill" /\ ~RowDecodes
           /\ want'.then = "place" /\ want'.expert = Head(row)
           /\ \E p : placed' = placed \cup {<<p, Head(row)>>}
           /\ UNCHANGED <<misses, later, block, pass, traffic, per, tick, held, slotOf, hostOf, planned>>
<1>1. PICK e \in Expert :
          /\ Placing(e) /\ ~RowDecodes /\ ~Resident(block, e)
          /\ LET victim == Victim(held, block, tick) IN
             IF victim = {} THEN pc' = "error" /\ UNCHANGED <<want, row, placed>>
             ELSE \E p \in victim :
                    /\ want' = Fill(block, e, p, tick, "main", "place")
                    /\ pc' = "fill"
                    /\ row' = Tail(row) /\ placed' = placed \cup {<<p, e>>}
  BY DEF PlaceMiss
<1>2. Victim(held, block, tick) # {}
  BY <1>1, RoomToPlace
<1>3. PICK p \in Victim(held, block, tick) :
          /\ want' = Fill(block, e, p, tick, "main", "place")
          /\ pc' = "fill" /\ row' = Tail(row) /\ placed' = placed \cup {<<p, e>>}
  BY <1>1, <1>2
<1>4. pc = "place" /\ row # <<>> /\ e = Head(row)
  BY <1>1 DEF Placing
<1>5. want'.then = "place" /\ want'.expert = e
  BY <1>3 DEF Fill
<1>6. UNCHANGED <<misses, later, block, pass, traffic, per, tick, held, slotOf, hostOf, planned>>
  BY DEF PlaceMiss, hostVars, deviceVars, modeVars
<1> QED BY <1>1, <1>3, <1>4, <1>5, <1>6

LEMMA RowsStep ==
    ASSUME IInv, Next PROVE RowsOk'
<1>0. /\ row \in Seq(Expert) /\ IsInjective(row)
      /\ misses \in Seq(Expert) /\ IsInjective(misses)
      /\ later \in Seq(Seq(Expert))
      /\ \A i \in DOMAIN later : IsInjective(later[i]) /\ Cardinality(ToSet(later[i])) <= per
      /\ ~RowUnderWay => row = <<>>
      /\ pc # "step" /\ ~RowUnderWay => misses = <<>> /\ later = <<>>
  BY DEF IInv, RowsOk
<1>1. CASE Fills
  <2>1. /\ UNCHANGED <<row, misses, later, per>>
        /\ (RowUnderWay' <=> RowUnderWay) /\ pc' # "step" /\ pc # "step"
    BY <1>1, FillsFrame
  <2> QED BY <1>0, <2>1 DEF RowsOk
<1>2. CASE OutOfRows
  <2>1. /\ UNCHANGED <<row, misses, later>>
        /\ ~RowUnderWay /\ ~RowUnderWay' /\ pc' # "step" /\ pc # "step"
    BY <1>2, OutOfRowsFrame
  <2>2. row' = <<>> /\ misses' = <<>> /\ later' = <<>>
    BY <1>0, <2>1
  <2>3. <<>> \in Seq(Expert) /\ <<>> \in Seq(Seq(Expert)) /\ IsInjective(<<>>) /\ DOMAIN <<>> = {}
    BY EmptySeq DEF IsInjective
  <2> QED BY <2>1, <2>2, <2>3 DEF RowsOk
<1>3. CASE Elsewhere
  <2>1. UNCHANGED <<row, misses, later, per, pc>> /\ (RowUnderWay' <=> RowUnderWay)
    BY <1>3, ElsewhereFrame
  <2> QED BY <1>0, <2>1 DEF RowsOk
<1>4. CASE Choose
  <2>1. /\ pc = "choose" /\ pc' = "step" /\ UNCHANGED <<row, per>>
    BY <1>4 DEF Choose, deviceVars
  <2>2. row' = <<>>
    BY <1>0, <2>1 DEF RowUnderWay, Filling
  <2> QED BY <1>0, <1>4, <2>1, <2>2, ChooseIs DEF RowsOk
<1>5. CASE Step
  <2>1. /\ row' \in Seq(Expert) /\ IsInjective(row') /\ later' \in Seq(Seq(Expert))
        /\ ToSet(later') \subseteq ToSet(later)
    BY <1>5, StepRow
  <2>2. pc' = "place" /\ UNCHANGED <<misses, per>>
    BY <1>5 DEF Step
  <2>3. ASSUME NEW i \in DOMAIN later'
        PROVE  IsInjective(later'[i]) /\ Cardinality(ToSet(later'[i])) <= per
    <3>1. later'[i] \in ToSet(later)
      <4>1. later'[i] \in ToSet(later')
        BY DEF ToSet
      <4> QED BY <2>1, <4>1
    <3>2. PICK j \in DOMAIN later : later'[i] = later[j]
      BY <3>1 DEF ToSet
    <3> QED BY <1>0, <3>2
  <2> QED BY <1>0, <2>1, <2>2, <2>3 DEF RowsOk, RowUnderWay
<1>6. CASE PlaceHit
  <2>1. row # <<>> /\ row' = Tail(row) /\ pc = "place" /\ UNCHANGED <<pc, misses, later, per>>
    BY <1>6 DEF PlaceHit, Placing
  <2>2. row' \in Seq(Expert) /\ IsInjective(row')
    BY <1>0, <2>1, TailIs
  <2> QED BY <1>0, <2>1, <2>2 DEF RowsOk, RowUnderWay
<1>7. CASE PlaceMiss
  <2>1. /\ row # <<>> /\ row' = Tail(row) /\ pc' = "fill" /\ want'.then = "place"
        /\ UNCHANGED <<misses, later, per>>
    BY <1>7, PlaceMissIs
  <2>2. row' \in Seq(Expert) /\ IsInjective(row')
    BY <1>0, <2>1, TailIs
  <2> QED BY <1>0, <2>1, <2>2 DEF RowsOk, RowUnderWay, Filling
<1>8. CASE LeaveMiss
  <2>1. PICK e \in Expert :
          Placing(e) /\ RowDecodes /\ row' = Tail(row) /\ misses' = Append(misses, e)
    BY <1>8 DEF LeaveMiss
  <2>2. pc = "place" /\ row # <<>> /\ e = Head(row) /\ UNCHANGED <<pc, later, per>>
    BY <1>8, <2>1 DEF LeaveMiss, Placing, deviceVars
  <2>3. row' \in Seq(Expert) /\ IsInjective(row') /\ e \in ToSet(row)
    BY <1>0, <2>1, <2>2, TailIs
  <2>4. e \notin ToSet(misses)
    <3>1. pass # 0 /\ kind = "decode"
      BY <2>1, <2>2 DEF RowDecodes, IInv, ThreadOk
    <3> QED BY <2>3, <3>1 DEF IInv, DecodeRow
  <2>5. misses' \in Seq(Expert) /\ IsInjective(misses')
    BY <1>0, <2>1, <2>4, AppendIs
  <2> QED BY <1>0, <2>2, <2>3, <2>5 DEF RowsOk, RowUnderWay
<1>9. CASE LaunchRow \/ StartMisses
  <2>1. row = <<>> /\ pc' = "step" /\ UNCHANGED <<row, misses, later, per>>
    BY <1>9 DEF LaunchRow, StartMisses, PlacedRow, rowVars
  <2> QED BY <1>0, <2>1 DEF RowsOk
<1>10. CASE NextBlock
  <2>1. row' = <<>> /\ misses' = <<>> /\ later = <<>> /\ UNCHANGED <<later, per>>
    BY <1>10 DEF NextBlock, deviceVars
  <2>2. <<>> \in Seq(Expert) /\ IsInjective(<<>>)
    BY EmptySeq DEF IsInjective
  <2> QED BY <1>0, <2>1, <2>2 DEF RowsOk
<1> QED BY <1>1, <1>2, <1>3, <1>4, <1>5, <1>6, <1>7, <1>8, <1>9, <1>10
        DEF Next, Thread, Fills, OutOfRows, Elsewhere

LEMMA DecodeStep ==
    ASSUME IInv, Next PROVE DecodeRow'
<1> SUFFICES ASSUME pass' # 0, kind' = "decode"
             PROVE  /\ \A i \in DOMAIN later' : Cardinality(ToSet(later'[i])) <= Used
                    /\ later' # <<>> => pc' = "step" /\ Len(later') = 1 /\ misses' = <<>>
                    /\ ToSet(row') \cap ToSet(misses') = {}
                    /\ Cardinality(ToSet(row') \cup ToSet(misses')) <= Used
  BY DEF DecodeRow
<1>0. UNCHANGED traffic /\ (UNCHANGED pass => pass # 0 /\ kind = "decode")
  BY TrafficStays DEF kind
<1>1. ASSUME UNCHANGED pass
      PROVE  /\ \A i \in DOMAIN later : Cardinality(ToSet(later[i])) <= Used
             /\ later # <<>> => pc = "step" /\ Len(later) = 1 /\ misses = <<>>
             /\ ToSet(row) \cap ToSet(misses) = {}
             /\ Cardinality(ToSet(row) \cup ToSet(misses)) <= Used
  BY <1>0, <1>1 DEF IInv, DecodeRow
<1>2. /\ row \in Seq(Expert) /\ misses \in Seq(Expert) /\ later \in Seq(Seq(Expert))
      /\ ~RowUnderWay => row = <<>>
      /\ pc # "step" /\ ~RowUnderWay => misses = <<>> /\ later = <<>>
  BY DEF IInv, RowsOk
<1>3. /\ ToSet(<<>>) = {} /\ DOMAIN <<>> = {} /\ Used \in Nat
      /\ ToSet(<<>>) \cap ToSet(<<>>) = {} /\ Cardinality(ToSet(<<>>) \cup ToSet(<<>>)) <= Used
  <2>1. ToSet(<<>>) = {} /\ DOMAIN <<>> = {} /\ Used \in Nat
    BY Constants DEF ToSet
  <2>2. ToSet(<<>>) \cap ToSet(<<>>) = {} /\ ToSet(<<>>) \cup ToSet(<<>>) = {}
    BY <2>1
  <2>3. Cardinality(ToSet(<<>>) \cup ToSet(<<>>)) = 0
    BY <2>2, FS_EmptySet
  <2> QED BY <2>1, <2>2, <2>3
<1>4. CASE Fills
  <2>1. UNCHANGED <<row, misses, later, pass>> /\ pc # "step"
    BY <1>4, FillsFrame
  <2> QED BY <1>1, <2>1
<1>5. CASE OutOfRows
  <2>1. /\ UNCHANGED <<row, misses, later>> /\ ~RowUnderWay /\ pc # "step"
    BY <1>5, OutOfRowsFrame
  <2>2. row' = <<>> /\ misses' = <<>> /\ later' = <<>>
    BY <1>2, <2>1
  <2> QED BY <1>3, <2>2
<1>6. CASE Elsewhere
  <2>1. UNCHANGED <<row, misses, later, pass, pc>>
    BY <1>6, ElsewhereFrame
  <2> QED BY <1>1, <2>1
<1>7. CASE Choose
  <2>1. pc = "choose" /\ pc' = "step" /\ UNCHANGED <<row, pass>>
    BY <1>7 DEF Choose, modeVars
  <2>2. row' = <<>>
    BY <1>2, <2>1 DEF RowUnderWay, Filling
  <2>3. /\ misses' = <<>> /\ Len(later') = 1
        /\ \A i \in DOMAIN later' : Cardinality(ToSet(later'[i])) <= Used
    BY <1>0, <1>7, <2>1, ChooseIs
  <2>4. /\ ToSet(row') \cap ToSet(misses') = {}
        /\ Cardinality(ToSet(row') \cup ToSet(misses')) <= Used
    BY <1>3, <2>2, <2>3
  <2> QED BY <2>1, <2>3, <2>4
<1>8. CASE Step
  <2>1. later # <<>> /\ UNCHANGED <<misses, pass>>
    BY <1>8 DEF Step, modeVars
  <2>2. row' \in ToSet(later) /\ Len(later') = Len(later) - 1 /\ later' \in Seq(Seq(Expert))
    BY <1>8, StepRow
  <2>3. later' = <<>> /\ misses' = <<>>
    <3>1. Len(later) = 1 /\ misses = <<>>
      BY <1>1, <2>1
    <3>2. Len(later') = 0
      BY <2>2, <3>1
    <3> QED BY <2>1, <2>2, <3>1, <3>2, EmptySeq
  <2>4. Cardinality(ToSet(row')) <= Used
    BY <1>1, <2>1, <2>2 DEF ToSet
  <2>5. ToSet(row') \cup {} = ToSet(row') /\ ToSet(row') \cap {} = {}
    OBVIOUS
  <2>6. ToSet(misses') = {}
    BY <1>3, <2>3
  <2> QED BY <1>3, <2>3, <2>4, <2>5, <2>6
<1>9. CASE PlaceHit \/ PlaceMiss
  <2>1. row # <<>> /\ row' = Tail(row) /\ pc = "place" /\ UNCHANGED <<misses, later, pass>>
    BY <1>9, PlaceMissIs DEF PlaceHit, Placing, modeVars
  <2>2. ToSet(row') \subseteq ToSet(row)
    BY <1>2, <2>1, TailIs
  <2>3. /\ IsFiniteSet(ToSet(row) \cup ToSet(misses))
    BY <1>2, ToSetFits, FS_Union
  <2>4. ToSet(row') \cup ToSet(misses) \in SUBSET (ToSet(row) \cup ToSet(misses))
    BY <2>2
  <2> DEFINE A == ToSet(row) \cup ToSet(misses)
             B == ToSet(row') \cup ToSet(misses)
  <2>5. Cardinality(B) <= Cardinality(A) /\ Cardinality(A) \in Nat /\ Cardinality(B) \in Nat
    <3>1. IsFiniteSet(B)
      BY <2>3, <2>4, FS_Subset
    <3> QED BY <2>3, <2>4, <3>1, FS_Subset, FS_CardinalityType
  <2>6. Cardinality(A) <= Used
    BY <1>1, <2>1
  <2> HIDE DEF A, B
  <2>7. Cardinality(B) <= Used
    BY <1>3, <2>5, <2>6
  <2>8. later' = <<>> /\ ToSet(row') \cap ToSet(misses') = {}
    BY <1>1, <2>1, <2>2
  <2> QED BY <1>3, <2>1, <2>7, <2>8 DEF B
<1>10. CASE LeaveMiss
  <2>1. PICK e \in Expert :
          Placing(e) /\ RowDecodes /\ row' = Tail(row) /\ misses' = Append(misses, e)
    BY <1>10 DEF LeaveMiss
  <2>2. pc = "place" /\ row # <<>> /\ e = Head(row) /\ UNCHANGED <<later, pass>>
    BY <1>10, <2>1 DEF LeaveMiss, Placing, modeVars
  <2>3. ToSet(row) = {e} \cup ToSet(row') /\ e \notin ToSet(row')
    <3>1. IsInjective(row)
      BY DEF IInv, RowsOk
    <3> QED BY <1>2, <2>1, <2>2, <3>1, TailIs
  <2>4. ToSet(misses') = ToSet(misses) \cup {e}
    BY <1>2, <2>1, AppendIs
  <2>5. ToSet(row') \cup ToSet(misses') = ToSet(row) \cup ToSet(misses)
    BY <2>3, <2>4
  <2>6. later' = <<>>
    BY <1>1, <2>2
  <2> QED BY <1>1, <1>3, <2>2, <2>3, <2>4, <2>5, <2>6
<1>11. CASE LaunchRow \/ StartMisses
  <2>1. pc = "place" /\ UNCHANGED <<row, misses, later, pass>>
    BY <1>11 DEF LaunchRow, StartMisses, PlacedRow, rowVars, modeVars
  <2> QED BY <1>1, <2>1
<1>12. CASE NextBlock
  <2>1. row' = <<>> /\ misses' = <<>> /\ later' = <<>>
    BY <1>12 DEF NextBlock
  <2> QED BY <1>3, <2>1
<1> QED BY <1>4, <1>5, <1>6, <1>7, <1>8, <1>9, <1>10, <1>11, <1>12
        DEF Next, Thread, Fills, OutOfRows, Elsewhere

-----------------------------------------------------------------------------
(* What is planned, and the slots a row or group needs *)

LEMMA NothingPlanned ==
    /\ planned' = <<>> => PlannedApart'
    /\ planned = <<>> => \A x \in ToSet(planned) : FALSE
<1>1. ToSet(<<>>) = {} /\ IsInjective(<<>>)
  BY DEF ToSet, IsInjective
<1>2. ASSUME planned' = <<>> PROVE PlannedApart'
  <2>1. ToSet(planned') = {} /\ IsInjective(planned')
    BY <1>1, <1>2
  <2> QED BY <1>2, <2>1 DEF PlannedApart
<1>3. ASSUME planned = <<>> PROVE \A x \in ToSet(planned) : FALSE
  BY <1>1, <1>3
<1> QED BY <1>2, <1>3

(* Nothing is planned past a row's or group's end.                         *)
LEMMA PlannedWithRow ==
    ASSUME IInv, row = <<>>, ~Filling \/ want.then # "place" PROVE planned = <<>>
<1>1. planned \in Seq(Block \X Expert)
  BY DEF IInv, ContentTypes
<1>2. ToSet(row) = {}
  BY DEF ToSet
<1>3. ToSet(planned) = {}
  BY <1>2 DEF IInv, PlannedApart
<1> SUFFICES ASSUME planned # <<>> PROVE FALSE
  OBVIOUS
<1>4. Head(planned) \in ToSet(planned)
  BY <1>1, HeadIs
<1> QED BY <1>3, <1>4

LEMMA PlannedStep ==
    ASSUME IInv, Next PROVE PlannedApart'
<1>0. /\ IsInjective(planned) /\ planned \in Seq(Block \X Expert)
      /\ pass # 0 /\ kind # "prompt" => planned = <<>>
      /\ \A x \in ToSet(planned) :
            /\ x[1] = block /\ hostOf[block][x[2]] = NoSlot /\ slotOf[block][x[2]] = NoSlot
            /\ x[2] \in ToSet(row) \/ (Filling /\ want.then = "place" /\ x[2] = want.expert)
      /\ block \in Block
  BY DEF IInv, PlannedApart, ContentTypes, ThreadOk
<1>1. \A x \in ToSet(planned) : x \in Block \X Expert
  BY <1>0, LenProperties, ElementOfSeq DEF ToSet
<1>2. UNCHANGED traffic /\ (UNCHANGED pass => kind' = kind)
  BY TrafficStays DEF kind
<1>3. ~RowUnderWay => row = <<>>
  BY DEF IInv, RowsOk
<1>4. ASSUME UNCHANGED <<planned, hostOf, slotOf, row, want, block, pass>>, Filling => Filling'
      PROVE  PlannedApart'
  BY <1>0, <1>2, <1>4 DEF PlannedApart
<1>5. CASE FillAlone
  BY <1>5, NothingPlanned DEF FillAlone
<1>6. CASE FillHeld
  <2>1. /\ UNCHANGED <<planned, hostOf, row, block, pass>> /\ Filling /\ pc' = want.then
        /\ Holds(want.block, want.expert)
    BY <1>6 DEF FillHeld, Filling, rowVars, modeVars
  <2>2. CASE want.then # "place"
    <3>1. planned = <<>>
      BY <1>3, <2>1, <2>2, PlannedWithRow DEF RowUnderWay, Filling
    <3> QED BY <2>1, <3>1, NothingPlanned
  <2>3. CASE want.then = "place"
    <3>1. want.block = block
      BY <2>1, <2>3 DEF IInv, WantOk
    <3>2. IssueDone(want)
      <4>1. DeviceMaps /\ WantFields(want) /\ UNCHANGED <<per, tick>>
        BY <1>6, FillIssues DEF IInv
      <4>2. \E s, bytes : Issue(s, bytes, want)
        BY <1>6 DEF FillHeld
      <4> QED BY <4>1, <4>2, IssueMaps
    <3>3. ASSUME NEW x \in ToSet(planned)
          PROVE  x[2] \in ToSet(row) /\ slotOf'[block][x[2]] = NoSlot
      <4>1. x[2] # want.expert
        BY <1>0, <2>1, <3>1 DEF Holds
      <4>2. x[2] \in Expert
        BY <1>1
      <4>3. slotOf'[block][x[2]] = NoSlot
        BY <1>0, <3>2, <4>1, <4>2 DEF IssueDone
      <4> QED BY <1>0, <4>1, <4>3
    <3> QED BY <1>0, <1>2, <2>1, <3>3 DEF PlannedApart
  <2> QED BY <2>2, <2>3
<1>7. CASE FillWaits \/ FillAhead \/ WriteAhead
  <2>1. UNCHANGED <<planned, hostOf, slotOf, row, want, block, pass>> /\ Filling'
    BY <1>7 DEF FillWaits, FillAhead, WriteAhead, Filling, hostVars, deviceVars, threadVars, rowVars,
                modeVars
  <2> QED BY <1>4, <2>1
<1>8. CASE ClaimWaits
  <2>1. ~NothingOut
    BY <1>8, RoomToClaim DEF ClaimWaits
  <2>2. UNCHANGED <<planned, hostOf, slotOf, row, want, block, pass, pc>>
    BY <1>8, <2>1 DEF ClaimWaits, deviceVars, rowVars, modeVars
  <2> QED BY <1>4, <2>2 DEF Filling
<1>9. CASE ClaimAhead
  <2>1. /\ UNCHANGED <<slotOf, row, want, block, pass, pc>> /\ Filling /\ planned' = Tail(planned)
    BY <1>9 DEF ClaimAhead, Filling, deviceVars, rowVars, modeVars
  <2>2. planned # <<>> /\ Head(planned) \in Block \X Expert /\ Head(planned)[1] = block
    BY <1>9, AheadClaims
  <2>3. PICK s \in HostSlot : ClaimDone(s, block, Head(planned)[2])
    BY <1>9, AheadClaims
  <2>4. /\ ToSet(planned) = {Head(planned)} \cup ToSet(planned') /\ IsInjective(planned')
        /\ Head(planned) \notin ToSet(planned')
    BY <1>0, <2>1, <2>2, TailIs
  <2>5. ASSUME NEW x \in ToSet(planned') PROVE hostOf'[block][x[2]] = NoSlot
    <3>1. x \in Block \X Expert /\ x # Head(planned) /\ x[1] = block /\ hostOf[block][x[2]] = NoSlot
      BY <1>0, <1>1, <2>4
    <3>2. x[2] # Head(planned)[2] /\ x[2] \in Expert
      BY <2>2, <3>1
    <3> QED BY <1>0, <2>3, <3>1, <3>2 DEF ClaimDone
  <2>6. kind' # "prompt" /\ pass' # 0 => planned' = <<>>
    BY <1>0, <1>2, <2>1, <2>2
  <2>7. \A x \in ToSet(planned') : x \in ToSet(planned)
    BY <2>4
  <2>8. Filling' /\ want' = want /\ slotOf' = slotOf /\ row' = row /\ block' = block
    BY <2>1 DEF Filling
  <2> QED BY <1>0, <2>4, <2>5, <2>6, <2>7, <2>8 DEF PlannedApart
<1>10. CASE OutOfRows
  <2>1. planned = <<>>
    BY <1>3, <1>10, OutOfRowsFrame, PlannedWithRow
  <2>2. UNCHANGED planned
    BY <1>10 DEF OutOfRows, Route, RefillFrom, RefillResident, Submit, SubmitBusy, Synced, Prefetch,
                 BeginPass, Cool, Resize, hostVars
  <2> QED BY <2>1, <2>2, NothingPlanned
<1>11. CASE Elsewhere
  <2>1. UNCHANGED <<planned, hostOf, slotOf, row, want, block, pass, pc>>
    BY <1>11, ElsewhereFrame
  <2> QED BY <1>4, <2>1 DEF Filling
<1>12. CASE Choose \/ NextBlock
  <2>1. UNCHANGED planned /\ pc \in {"choose", "step"}
    BY <1>12 DEF Choose, NextBlock, hostVars
  <2>2. planned = <<>>
    BY <1>3, <2>1, PlannedWithRow DEF RowUnderWay, Filling
  <2> QED BY <2>1, <2>2, NothingPlanned
<1>13. CASE Step
  <2>1. UNCHANGED <<hostOf, slotOf, block, pass>> /\ pc = "step"
    BY <1>13 DEF Step, modeVars
  <2>2. CASE kind = "prompt"
    <3>1. /\ IsInjective(planned')
          /\ \A x \in ToSet(planned') :
                /\ x[1] = block /\ x[2] \in ToSet(row')
                /\ hostOf[block][x[2]] = NoSlot /\ slotOf[block][x[2]] = NoSlot
      BY <1>13, <2>2, StepPlans
    <3> QED BY <1>2, <2>1, <2>2, <3>1 DEF PlannedApart
  <2>3. CASE kind # "prompt"
    <3>1. planned = <<>>
      BY <1>3, <2>1, PlannedWithRow DEF RowUnderWay, Filling
    <3>2. UNCHANGED planned
      BY <1>13, <2>3 DEF Step
    <3> QED BY <3>1, <3>2, NothingPlanned
  <2> QED BY <2>2, <2>3
<1>14. CASE PlaceHit
  <2>1. PICK e \in Expert : Placing(e) /\ Resident(block, e)
    BY <1>14 DEF PlaceHit
  <2>2. /\ pc = "place" /\ row # <<>> /\ e = Head(row) /\ row' = Tail(row)
        /\ UNCHANGED <<planned, hostOf, slotOf, block, pass>>
    BY <1>14, <2>1 DEF PlaceHit, Placing, hostVars, modeVars
  <2>3. ToSet(row) = {e} \cup ToSet(row')
    BY <2>2, TailIs DEF IInv, RowsOk
  <2>4. ASSUME NEW x \in ToSet(planned) PROVE x[2] \in ToSet(row')
    <3>1. x[2] \in ToSet(row) /\ x[2] # e
      BY <1>0, <2>1, <2>2 DEF Filling, Resident
    <3> QED BY <2>3, <3>1
  <2> QED BY <1>0, <1>2, <2>2, <2>4 DEF PlannedApart
<1>15. CASE PlaceMiss
  <2>1. /\ row # <<>> /\ row' = Tail(row) /\ pc = "place" /\ pc' = "fill"
        /\ want'.then = "place" /\ want'.expert = Head(row)
        /\ UNCHANGED <<block, pass, slotOf, hostOf, planned>>
    BY <1>15, PlaceMissIs
  <2>2. ToSet(row) = {Head(row)} \cup ToSet(row')
    BY <2>1, TailIs DEF IInv, RowsOk
  <2>3. ASSUME NEW x \in ToSet(planned) PROVE x[2] \in ToSet(row') \/ x[2] = want'.expert
    <3>1. x[2] \in ToSet(row)
      BY <1>0, <2>1 DEF Filling
    <3> QED BY <2>1, <2>2, <3>1
  <2>4. Filling'
    BY <2>1 DEF Filling
  <2> QED BY <1>0, <1>2, <2>1, <2>3, <2>4 DEF PlannedApart
<1>16. CASE LeaveMiss
  <2>1. kind = "decode" /\ pc = "place" /\ UNCHANGED planned
    BY <1>16 DEF LeaveMiss, Placing, RowDecodes, hostVars
  <2>2. planned = <<>>
    BY <1>0, <2>1 DEF IInv, ThreadOk
  <2> QED BY <2>1, <2>2, NothingPlanned
<1>17. CASE LaunchRow \/ StartMisses
  <2>1. row = <<>> /\ pc = "place" /\ UNCHANGED planned
    BY <1>17 DEF LaunchRow, StartMisses, PlacedRow, hostVars
  <2>2. planned = <<>>
    BY <2>1, PlannedWithRow DEF Filling
  <2> QED BY <2>1, <2>2, NothingPlanned
<1> QED BY <1>5, <1>6, <1>7, <1>8, <1>9, <1>10, <1>11, <1>12, <1>13, <1>14, <1>15, <1>16, <1>17
        DEF Next, Thread, OutOfRows, Elsewhere

(* Placing the next expert leaves the row with the experts it has.         *)
LEMMA PlacedOne ==
    ASSUME row \in Seq(Expert), row # <<>>, row' = Tail(row),
           NEW p, placed' = placed \cup {<<p, Head(row)>>}
    PROVE  Current' = Current
<1>1. ToSet(row) = {Head(row)} \cup ToSet(row')
  BY TailIs
<1>2. {r[2] : r \in placed'} = {r[2] : r \in placed} \cup {Head(row)}
  <2>1. <<p, Head(row)>>[2] = Head(row)
    OBVIOUS
  <2> QED BY <2>1
<1> QED BY <1>1, <1>2 DEF Current

LEMMA RowFitsStep ==
    ASSUME IInv, Next PROVE RowFits'
<1> SUFFICES ASSUME RowUnderWay', ~RowDecodes'
             PROVE  /\ IsFiniteSet(Current') /\ Cardinality(Current') <= per'
                    /\ \A p \in 1..per' : held'[block'][p].used = tick'
                                              => held'[block'][p].expert \in Current'
  BY DEF RowFits
<1>0. /\ row \in Seq(Expert) /\ block \in Block /\ DeviceMaps
      /\ placed \subseteq DeviceSlot \X Expert
  BY DEF IInv, RowsOk, ThreadOk, WantOk
<1>1. UNCHANGED traffic /\ (UNCHANGED pass => (RowDecodes' <=> RowDecodes))
  BY TrafficStays DEF kind, RowDecodes
<1>2. ASSUME RowUnderWay, UNCHANGED pass
      PROVE  /\ IsFiniteSet(Current) /\ Cardinality(Current) <= per
             /\ \A p \in 1..per : held[block][p].used = tick => held[block][p].expert \in Current
  BY <1>1, <1>2 DEF IInv, RowFits
<1>3. ASSUME RowUnderWay, UNCHANGED <<pass, per, tick, held, block>>, Current' = Current
      PROVE  /\ IsFiniteSet(Current') /\ Cardinality(Current') <= per'
             /\ \A p \in 1..per' : held'[block'][p].used = tick'
                                       => held'[block'][p].expert \in Current'
  BY <1>2, <1>3
<1>4. CASE FillHeld \/ FillAlone
  <2>1. RowUnderWay /\ Filling /\ UNCHANGED <<row, placed, block, pass, per, tick>>
    BY <1>4, FillsFrame DEF Fills
  <2>2. want.then = "place" /\ want.block = block
    <3>1. want.then = "place"
      BY <2>1 DEF RowUnderWay, Filling
    <3> QED BY <2>1, <3>1 DEF IInv, WantOk
  <2>3. want.expert \in Current
    BY <2>1, <2>2 DEF IInv, WantOk, Current
  <2>4. IssueDone(want)
    <3>1. WantFields(want) /\ \E s \in HostSlot, bytes \in Bytes : Issue(s, bytes, want)
      BY <1>4, FillIssues
    <3> QED BY <1>0, <2>1, <3>1, IssueMaps
  <2>5. Current' = Current
    BY <2>1 DEF Current
  <2>6. \A p \in 1..per : held'[block][p].used = tick => held'[block][p].expert \in Current
    BY <1>0, <1>2, <2>1, <2>2, <2>3, <2>4 DEF IssueDone
  <2> QED BY <1>2, <2>1, <2>5, <2>6
<1>5. CASE FillWaits \/ FillAhead \/ ClaimAhead \/ WriteAhead \/ ClaimWaits
  <2>1. RowUnderWay /\ UNCHANGED <<row, placed, block, pass, per, tick>>
    BY <1>5, FillsFrame DEF Fills
  <2>2. UNCHANGED held
    BY <1>5 DEF FillWaits, FillAhead, ClaimAhead, WriteAhead, ClaimWaits, deviceVars
  <2>3. Current' = Current
    BY <2>1 DEF Current
  <2> QED BY <1>3, <2>1, <2>2, <2>3
<1>6. CASE OutOfRows
  BY <1>6, OutOfRowsFrame
<1>7. CASE Elsewhere
  <2>1. /\ RowUnderWay /\ UNCHANGED <<row, placed, block, pass, per, tick, held>>
    BY <1>7, ElsewhereFrame
  <2>2. Current' = Current
    BY <2>1 DEF Current
  <2> QED BY <1>3, <2>1, <2>2
<1>8. CASE Choose \/ LaunchRow \/ StartMisses \/ NextBlock
  <2>1. pc' \in {"step", "route", "between"}
    BY <1>8 DEF Choose, LaunchRow, StartMisses, NextBlock
  <2> QED BY <2>1 DEF RowUnderWay, Filling
<1>9. CASE LeaveMiss
  <2>1. RowDecodes /\ UNCHANGED pass
    BY <1>9 DEF LeaveMiss, modeVars
  <2> QED BY <1>1, <2>1
<1>10. CASE PlaceHit
  <2>1. PICK e \in Expert : Placing(e) /\ placed' = placed \cup {<<slotOf[block][e], e>>}
    BY <1>10 DEF PlaceHit
  <2>2. /\ RowUnderWay /\ row # <<>> /\ e = Head(row) /\ row' = Tail(row)
        /\ UNCHANGED <<pass, per, tick, held, block>>
    BY <1>10, <2>1 DEF PlaceHit, Placing, RowUnderWay, modeVars
  <2>3. Current' = Current
    BY <1>0, <2>1, <2>2, PlacedOne
  <2> QED BY <1>3, <2>2, <2>3
<1>11. CASE PlaceMiss
  <2>1. /\ RowUnderWay /\ row # <<>> /\ row' = Tail(row)
        /\ \E p : placed' = placed \cup {<<p, Head(row)>>}
        /\ UNCHANGED <<pass, per, tick, held, block>>
    BY <1>11, PlaceMissIs DEF RowUnderWay
  <2>2. Current' = Current
    BY <1>0, <2>1, PlacedOne
  <2> QED BY <1>3, <2>1, <2>2
<1>12. CASE Step
  <2>1. /\ placed' = {} /\ tick' = tick + 1 /\ held' = Stamp(block, Range(row'), tick')
        /\ UNCHANGED <<per, slotOf, block>>
    BY <1>12 DEF Step, modeVars
  <2>2. row' \in Seq(Expert) /\ row' \in ToSet(later)
    BY <1>12, StepRow
  <2>3. Current' = ToSet(row')
    BY <2>1 DEF Current
  <2>4. IsFiniteSet(Current') /\ Cardinality(Current') <= per'
    <3>1. Cardinality(ToSet(row')) <= per
      BY <2>2 DEF IInv, RowsOk, ToSet
    <3> QED BY <2>1, <2>2, <2>3, <3>1, ToSetFits
  <2>5. \A c \in Block, p \in 1..per :
           held'[c][p] = IF c = block /\ \E e \in Range(row') : slotOf[block][e] = p
                         THEN [expert |-> held[c][p].expert, used |-> tick'] ELSE held[c][p]
    BY <1>0, <2>1, StampMaps
  <2>6. ASSUME NEW p \in 1..per, held'[block][p].used = tick'
        PROVE  held'[block][p].expert \in ToSet(row')
    <3>1. CASE \E e \in Range(row') : slotOf[block][e] = p
      <4>1. PICK e \in Range(row') : slotOf[block][e] = p
        BY <3>1
      <4>2. e \in ToSet(row') /\ e \in Expert
        <5>1. ToSet(row') = Range(row')
          BY DEF ToSet, Range
        <5>2. \A x \in ToSet(row') : x \in Expert
          BY <2>2, LenProperties, ElementOfSeq DEF ToSet
        <5> QED BY <5>1, <5>2
      <4>3. held[block][p].expert = e
        BY <1>0, <4>1, <4>2 DEF DeviceMaps
      <4>4. held'[block][p].expert = held[block][p].expert
        <5>1. held'[block][p] = [expert |-> held[block][p].expert, used |-> tick']
          BY <1>0, <2>5, <3>1
        <5> QED BY <5>1
      <4> QED BY <4>2, <4>3, <4>4
    <3>2. CASE ~\E e \in Range(row') : slotOf[block][e] = p
      <4>1. held'[block][p] = held[block][p]
        BY <1>0, <2>5, <3>2
      <4>2. held[block][p] \in [expert : 0..Experts, used : 0..tick] /\ tick \in Nat
        <5>1. /\ held \in [Block -> [DeviceSlot -> [expert : 0..Experts, used : 0..tick]]]
              /\ tick \in Nat /\ per \in PerBlocks
          BY <1>0 DEF DeviceMaps
        <5>2. p \in DeviceSlot
          BY <5>1, DeviceSlots
        <5> QED BY <1>0, <5>1, <5>2
      <4>3. held[block][p].used <= tick /\ held[block][p].used \in Nat
        BY <4>2
      <4> QED BY <2>1, <2>6, <4>1, <4>2, <4>3
    <3> QED BY <3>1, <3>2
  <2> QED BY <2>1, <2>3, <2>4, <2>6
<1> QED BY <1>4, <1>5, <1>6, <1>7, <1>8, <1>9, <1>10, <1>11, <1>12
        DEF Next, Thread, OutOfRows, Elsewhere

-----------------------------------------------------------------------------
(* The theorems *)

LEMMA Initially ==
    ASSUME Init PROVE IInv
<1>0. /\ traffic \in Traffics /\ traffic.slots \in Nat /\ 1..traffic.slots \subseteq HostSlot
      /\ per \in PerBlocks /\ per \in Nat \ {0} /\ 1..per \subseteq DeviceSlot
      /\ Blocks \in Nat \ {0} /\ Experts \in Nat /\ Used \in Nat /\ Ahead \in Nat
  <2>1. traffic \in Traffics /\ per \in PerBlocks
    BY DEF Init
  <2> QED BY <2>1, Constants, DeviceSlots
<1>1. /\ <<>> \in Seq(Expert) /\ <<>> \in Seq(Seq(Expert)) /\ <<>> \in Seq(RefillsTo(0))
      /\ <<>> \in Seq(Ops) /\ <<>> \in Seq(Copies) /\ <<>> \in Seq(Block \X Expert)
      /\ IsInjective(<<>>) /\ ToSet(<<>>) = {} /\ DOMAIN <<>> = {}
  BY EmptySeq DEF IsInjective, ToSet
<1>2. LruOk
  <2> DEFINE all == [s \in 1..traffic.slots |-> s]
  <2>1. lru = all
    BY DEF Init
  <2>2. all \in [1..traffic.slots -> HostSlot] /\ DOMAIN all = 1..traffic.slots
        /\ \A s \in 1..traffic.slots : all[s] = s
    BY <1>0
  <2> HIDE DEF all
  <2>3. all \in Seq(HostSlot)
    BY <1>0, <2>2, SeqDef
  <2>4. IsInjective(all) /\ ToSet(all) = Slots
    BY <2>2 DEF IsInjective, ToSet, Slots
  <2> QED BY <2>1, <2>3, <2>4 DEF LruOk
<1>3. HostMaps
  <2>1. owner = [s \in HostSlot |-> Nobody] /\ hostOf = [b \in Block |-> [e \in Expert |-> 0]]
    BY DEF Init, NoneResident, NoSlot
  <2>2. \A s \in HostSlot, b \in Block, e \in Expert : s # 0 /\ Nobody # <<b, e>>
    BY DEF HostSlot, Block, Nobody
  <2> QED BY <1>0, <2>1, <2>2 DEF HostMaps, Bytes
<1>4. ContentTypes
  <2>1. content = [s \in HostSlot |-> Nobody] /\ planned = <<>> /\ batch = {}
    BY DEF Init
  <2> QED BY <1>1, <2>1 DEF ContentTypes, Bytes
<1>5. EventTypes
  <2>1. /\ issued = 0 /\ done = [s \in HostSlot |-> 0] /\ fetched = [b \in Block |-> 0]
        /\ arriving = [b \in Block |-> {}]
    BY DEF Init, NoFetches, NoneArriving
  <2> QED BY <2>1 DEF EventTypes
<1>6. QueueTypes
  <2>1. tick = 0 /\ \A q \in {jobs, results, received, refills, todo} : q = <<>>
    BY DEF Init
  <2> QED BY <1>1, <2>1 DEF QueueTypes
<1>7. TeamOk
  <2>1. team = FALSE /\ teamHolds = {} /\ holds = [s \in HostSlot |-> 0]
    BY DEF Init
  <2>2. Cardinality({}) <= Used
    BY <1>0, FS_EmptySet
  <2> QED BY <2>1, <2>2 DEF TeamOk
<1>8. DeviceMaps
  <2>1. tick = 0 /\ held = EmptySlots /\ slotOf = NoneResident
    BY DEF Init
  <2>2. held \in [Block -> [DeviceSlot -> [expert : 0..Experts, used : 0..tick]]]
    <3>1. [expert |-> NoExpert, used |-> 0] \in [expert : 0..Experts, used : 0..tick]
      BY <1>0, <2>1 DEF NoExpert
    <3> QED BY <2>1, <3>1 DEF EmptySlots
  <2>3. slotOf \in [Block -> [Expert -> 0..per]]
    BY <1>0, <2>1 DEF NoneResident, NoSlot
  <2>4. ASSUME NEW b \in Block, NEW e \in Expert, NEW p \in 1..per
        PROVE  slotOf[b][e] = p <=> held[b][p].expert = e
    <3>1. slotOf[b][e] = 0
      BY <2>1 DEF NoneResident, NoSlot
    <3>2. held[b][p].expert = 0
      BY <1>0, <2>1 DEF EmptySlots, NoExpert
    <3>3. p # 0 /\ e # 0
      BY <1>0 DEF Expert
    <3> QED BY <3>1, <3>2, <3>3
  <2> QED BY <1>0, <2>1, <2>2, <2>3, <2>4 DEF DeviceMaps
<1>9. StreamTypes
  <2>1. /\ main = <<>> /\ copy = <<>> /\ predicted = [b \in Block |-> FALSE]
        /\ resident = [b \in Block |-> [p \in DeviceSlot |-> [expert |-> 0, stray |-> FALSE]]]
    BY DEF Init, NonePredicted, NoBytes, NoExpert
  <2> QED BY <1>0, <1>1, <2>1 DEF StreamTypes, Landed
<1>10. pc = "between" /\ pass = 0 /\ block = 1 /\ row = <<>> /\ misses = <<>> /\ later = <<>>
       /\ planned = <<>> /\ left = 0 /\ placed = {}
  BY DEF Init
<1>11. ~Filling /\ ~RowUnderWay
  BY <1>10 DEF Filling, RowUnderWay
<1>12. WantOk
  BY <1>0, <1>10, <1>11 DEF WantOk
<1>13. ThreadOk
  <2>1. Passes \in Nat
    <3>1. traffic.kinds \in Seq(Kinds)
      BY <1>0, Constants
    <3> QED BY <3>1, LenProperties DEF Passes
  <2> QED BY <1>0, <1>10, <2>1 DEF ThreadOk, Block
<1>14. RowsOk
  BY <1>1, <1>10 DEF RowsOk
<1>15. DecodeRow /\ RowFits
  BY <1>10, <1>11 DEF DecodeRow, RowFits
<1>16. PlannedApart
  BY <1>1, <1>10 DEF PlannedApart
<1> QED BY <1>2, <1>3, <1>4, <1>5, <1>6, <1>7, <1>8, <1>9, <1>12, <1>13, <1>14, <1>15, <1>16 DEF IInv

LEMMA Stutters ==
    ASSUME IInv, UNCHANGED vars PROVE IInv'
<1>0. UNCHANGED <<hostVars, deviceVars, streamVars, teamVars, threadVars>>
  BY DEF vars
<1>1. UNCHANGED hostVars /\ UNCHANGED deviceVars /\ UNCHANGED streamVars /\ UNCHANGED teamVars
      /\ UNCHANGED threadVars
  BY <1>0
<1>2. /\ UNCHANGED <<owner, hostOf, content, lru, done, holds, planned, batch, jobs, results, received>>
      /\ UNCHANGED <<per, held, slotOf, fetched, arriving, predicted, refills, tick>>
      /\ UNCHANGED <<resident, main, copy, issued, team, teamHolds>>
      /\ UNCHANGED <<pc, todo, want, left, row, placed, misses, later, traffic, pass, block>>
  BY <1>1 DEF hostVars, deviceVars, streamVars, teamVars, threadVars, rowVars, modeVars
<1>3. LruOk' /\ HostMaps' /\ ContentTypes' /\ EventTypes' /\ QueueTypes' /\ TeamOk'
  BY <1>2 DEF IInv, LruOk, Slots, HostMaps, ContentTypes, EventTypes, QueueTypes, TeamOk
<1>4. DeviceMaps' /\ StreamTypes' /\ WantOk' /\ ThreadOk'
  <2>1. DeviceMaps' /\ StreamTypes'
    BY <1>2 DEF IInv, DeviceMaps, StreamTypes
  <2>2. WantOk'
    BY <1>2 DEF IInv, WantOk, Wants, Filling
  <2>3. ThreadOk'
    BY <1>2 DEF IInv, ThreadOk, Passes
  <2> QED BY <2>1, <2>2, <2>3
<1>5. RowsOk' /\ DecodeRow' /\ PlannedApart' /\ RowFits'
  BY <1>2 DEF IInv, RowsOk, DecodeRow, PlannedApart, RowFits, RowUnderWay, RowDecodes, Filling, Current,
              kind
<1> QED BY <1>3, <1>4, <1>5 DEF IInv

(* The invariant the three theorems below follow from is inductive.        *)
THEOREM Invariance == Spec => []IInv
<1>1. Init => IInv
  BY Initially
<1>2. IInv /\ [Next]_vars => IInv'
  <2> SUFFICES ASSUME IInv, [Next]_vars PROVE IInv'
    OBVIOUS
  <2>1. CASE Next
    BY <2>1, LruStep, HostMapsStep, ContentStep, EventStep, QueueStep, TeamStep, DeviceStep, StreamStep,
       WantStep, ThreadStep, RowsStep, DecodeStep, PlannedStep, RowFitsStep DEF IInv
  <2>2. CASE UNCHANGED vars
    BY <2>2, Stutters
  <2> QED BY <2>1, <2>2
<1> QED BY <1>1, <1>2, PTL DEF Spec

LEMMA TypesFollow ==
    ASSUME IInv PROVE TypeOK
<1>0. LruOk /\ HostMaps /\ ContentTypes /\ EventTypes /\ QueueTypes /\ TeamOk /\ DeviceMaps
      /\ StreamTypes /\ WantOk /\ ThreadOk
  BY DEF IInv
<1>1. traffic.slots \in Nat /\ traffic.slots <= HostSlots /\ HostSlots \in Nat
  <2>1. traffic.slots \in (Used + 1)..HostSlots
    BY <1>0, CacheAssumption DEF ThreadOk
  <2> QED BY <2>1, CacheAssumption
<1>2. ToSet(lru) = 1..traffic.slots /\ Len(lru) = traffic.slots
  <2>1. ToSet(lru) = 1..traffic.slots /\ lru \in Seq(HostSlot) /\ IsInjective(lru)
    BY <1>0 DEF LruOk, Slots
  <2>2. Len(lru) \in Nat /\ DOMAIN lru = 1..Len(lru)
    BY <2>1, LenProperties
  <2>3. lru \in Surjection(1..Len(lru), 1..traffic.slots)
    <3>1. lru \in [1..Len(lru) -> 1..traffic.slots]
      <4>1. \A i \in 1..Len(lru) : lru[i] \in 1..traffic.slots
        BY <2>1, <2>2 DEF ToSet
      <4>2. lru = [i \in 1..Len(lru) |-> lru[i]]
        BY <2>1, <2>2, SeqDef
      <4> QED BY <4>1, <4>2
    <3>2. \A s \in 1..traffic.slots : \E i \in 1..Len(lru) : lru[i] = s
      BY <2>1, <2>2 DEF ToSet
    <3> QED BY <3>1, <3>2 DEF Surjection
  <2>4. lru \in Injection(1..Len(lru), 1..traffic.slots)
    BY <2>1, <2>3 DEF Surjection, Injection, IsInjective
  <2>5. /\ IsFiniteSet(1..Len(lru)) /\ Cardinality(1..Len(lru)) = Len(lru)
        /\ Cardinality(1..traffic.slots) = traffic.slots
    <3>1. Cardinality(1..traffic.slots) = traffic.slots
      BY <1>1, FS_Interval
    <3>2. IsFiniteSet(1..Len(lru)) /\ Cardinality(1..Len(lru)) = Len(lru)
      <4> DEFINE n == Len(lru)
      <4>1. n \in Nat
        BY <2>2
      <4> HIDE DEF n
      <4>2. IsFiniteSet(1..n) /\ Cardinality(1..n) = n
        BY <4>1, FS_Interval
      <4> QED BY <4>2 DEF n
    <3> QED BY <3>1, <3>2
  <2>6. Cardinality(1..traffic.slots) = Cardinality(1..Len(lru))
    BY <2>3, <2>4, <2>5, FS_Surjection
  <2> QED BY <2>1, <2>5, <2>6
<1>3. /\ owner \in [HostSlot -> (Block \X Expert) \cup {Nobody}]
      /\ content \in [HostSlot -> (Block \X Expert) \cup {Nobody}]
  BY <1>0 DEF HostMaps, ContentTypes, Bytes
<1>4. hostOf \in [Block -> [Expert -> 0..HostSlots]]
  <2>1. hostOf \in [Block -> [Expert -> 0..traffic.slots]]
    BY <1>0 DEF HostMaps
  <2>2. 0..traffic.slots \subseteq 0..HostSlots
    BY <1>1
  <2>3. [Expert -> 0..traffic.slots] \subseteq [Expert -> 0..HostSlots]
    BY <2>2
  <2> QED BY <2>1, <2>3
<1>5. /\ done \in [HostSlot -> 0..issued] /\ fetched \in [Block -> 0..issued]
      /\ arriving \in [Block -> SUBSET (1..per)]
  BY <1>0 DEF EventTypes
<1>6. holds \in [HostSlot -> Nat] /\ team \in BOOLEAN /\ teamHolds \subseteq HostSlot
  BY <1>0 DEF TeamOk
<1>7. ToSet(jobs \o results \o received \o refills \o todo) \subseteq RefillRecord
  <2> DEFINE R == RefillsTo(tick)
  <2>1. jobs \in Seq(R) /\ results \in Seq(R) /\ received \in Seq(R) /\ refills \in Seq(R) /\ todo \in Seq(R)
    BY <1>0 DEF QueueTypes
  <2>2. R \subseteq RefillRecord
    BY <1>0 DEF RefillsTo, RefillRecord, DeviceMaps
  <2> HIDE DEF R
  <2>3. jobs \o results \o received \o refills \o todo \in Seq(R)
    BY <2>1, ConcatIs
  <2>4. ToSet(jobs \o results \o received \o refills \o todo) \subseteq R
    BY <2>3, LenProperties, ElementOfSeq DEF ToSet
  <2> QED BY <2>2, <2>4
<1>8. /\ per \in PerBlocks
      /\ held \in [Block -> [DeviceSlot -> [expert : 0..Experts, used : 0..tick]]]
      /\ slotOf \in [Block -> [Expert -> 0..per]]
  BY <1>0 DEF DeviceMaps
<1>9. predicted \in [Block -> BOOLEAN] /\ resident \in [Block -> [DeviceSlot -> Landed]]
  BY <1>0 DEF StreamTypes
<1>10. pass \in 0..Passes /\ block \in Block /\ left \in 0..Ahead
  BY <1>0 DEF ThreadOk, WantOk
<1> QED BY <1>2, <1>3, <1>4, <1>5, <1>6, <1>7, <1>8, <1>9, <1>10 DEF TypeOK, Landed

(* The state of host_cache.rs and experts/mod.rs keeps its types: the      *)
(* order of use names every host slot once, and no slot number, event or   *)
(* queued refill is out of range, whatever is claimed, filled or dropped.  *)
THEOREM Types == Spec => []TypeOK
<1>1. IInv => TypeOK
  BY TypesFollow
<1> QED BY <1>1, Invariance, PTL

(* The two maps of each cache stay each other's inverse through claim,     *)
(* fill, refill, prefetch, cool and resize.                                *)
THEOREM MapsAlwaysAgree == Spec => []MapsAgree
<1>1. IInv => MapsAgree
  BY DEF IInv, HostMaps, DeviceMaps, MapsAgree
<1> QED BY <1>1, Invariance, PTL

(* claim_waiting never finds every slot held with nothing out, and place   *)
(* never finds every device slot stamped for its own row.                  *)
THEOREM AlwaysASlot == Spec => []NeverOutOfSlots
<1>1. IInv => NeverOutOfSlots
  BY DEF IInv, ThreadOk, NeverOutOfSlots
<1> QED BY <1>1, Invariance, PTL
==============================================================================
