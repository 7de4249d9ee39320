--------------------------- MODULE ChainPlanProofs ---------------------------
(***************************************************************************)
(* Facts about the plans of ChainPlan: every chain is placed on a live     *)
(* node, and a plan's ids lie above its base, where no earlier plan has    *)
(* any.                                                                    *)
(***************************************************************************)
EXTENDS ChainPlan, FiniteSetTheorems, TLAPS

(* Counting from 0, a finite set of numbers has an i-th element for each i *)
(* below its size: the indexing of `live` in lower() is never out of range.*)
LEMMA NthExists ==
    ASSUME NEW S \in SUBSET Nat, IsFiniteSet(S),
           NEW i \in 0 .. Cardinality(S) - 1
    PROVE  Nth(S, i) \in S /\ Cardinality({y \in S : y < Nth(S, i)}) = i
<1> DEFINE Below(x) == {y \in S : y < x}
<1> DEFINE T == 0 .. Cardinality(S) - 1
<1> DEFINE rank == [x \in S |-> Cardinality(Below(x))]
<1>1. Cardinality(S) \in Nat
  BY FS_CardinalityType
<1>2. \A x \in S : IsFiniteSet(Below(x)) /\ Cardinality(Below(x)) \in Nat
                   /\ Cardinality(Below(x)) <= Cardinality(S)
                   /\ Cardinality(Below(x)) # Cardinality(S)
  <2> TAKE x \in S
  <2>1. Below(x) \in SUBSET S
    OBVIOUS
  <2>2. Below(x) # S
    <3>1. x \notin Below(x)
      BY x \in Nat
    <3> QED BY <3>1
  <2> HIDE DEF Below
  <2>3. IsFiniteSet(Below(x)) /\ Cardinality(Below(x)) <= Cardinality(S)
        /\ (Cardinality(S) = Cardinality(Below(x)) => S = Below(x))
    BY <2>1, FS_Subset
  <2>4. Cardinality(Below(x)) \in Nat
    BY <2>3, FS_CardinalityType
  <2> QED BY <2>2, <2>3, <2>4
<1>3. rank \in [S -> T]
  <2> SUFFICES ASSUME NEW x \in S PROVE Cardinality(Below(x)) \in T
    OBVIOUS
  <2> HIDE DEF Below
  <2> QED BY <1>1, <1>2
<1>4. ASSUME NEW x \in S, NEW z \in S, x < z
      PROVE  Cardinality(Below(x)) # Cardinality(Below(z))
  <2>1. Below(x) \in SUBSET Below(z)
    <3> SUFFICES ASSUME NEW y \in S, y < x PROVE y < z
      OBVIOUS
    <3>1. x \in Nat /\ y \in Nat /\ z \in Nat
      OBVIOUS
    <3> QED BY <1>4, <3>1
  <2>2. x \in Below(z) /\ x \notin Below(x)
    BY <1>4, x \in Nat
  <2> HIDE DEF Below
  <2>3. Cardinality(Below(z)) = Cardinality(Below(x)) => Below(z) = Below(x)
    BY <1>2, <2>1, FS_Subset
  <2> QED BY <2>2, <2>3
<1>5. rank \in Injection(S, T)
  <2>1. \A x, z \in S : rank[x] = rank[z] => x = z
    <3> SUFFICES ASSUME NEW x \in S, NEW z \in S, x # z
                 PROVE  Cardinality(Below(x)) # Cardinality(Below(z))
      OBVIOUS
    <3>1. x < z \/ z < x
      BY x \in Nat, z \in Nat
    <3> HIDE DEF Below
    <3> QED BY <1>4, <3>1
  <2> HIDE DEF rank, T
  <2> QED BY <1>3, <2>1 DEF Injection, IsInjective
<1>6. IsFiniteSet(T) /\ Cardinality(T) = Cardinality(S)
  BY <1>1, FS_Interval
<1>7. rank \in Surjection(S, T)
  <2> HIDE DEF rank, T
  <2> QED BY <1>5, <1>6, FS_Injection
<1>8. \E x \in S : Cardinality(Below(x)) = i
  <2>1. \E x \in S : rank[x] = i
    <3> HIDE DEF rank
    <3> QED BY <1>7 DEF Surjection
  <2> QED BY <2>1
<1> QED BY <1>8 DEF Nth

LEMMA NodesAndKeysFinite ==
    /\ IsFiniteSet(Nodes) /\ Nodes \in SUBSET Nat
    /\ IsFiniteSet(Keys) /\ Keys \in SUBSET Nat
    /\ \A R \in SUBSET Keys : IsFiniteSet(R)
<1>1. IsFiniteSet(Nodes) /\ Nodes \in SUBSET Nat
  BY PlanAssumption, FS_Interval DEF Nodes
<1>2. IsFiniteSet(Keys) /\ Keys \in SUBSET Nat
  BY PlanAssumption, FS_Interval DEF Keys
<1> QED BY <1>1, <1>2, FS_Subset

(* Work is placed on live nodes only.                                      *)
LEMMA PlacementLive ==
    ASSUME NEW live \in SUBSET Nodes, live # {}, NEW k \in Keys
    PROVE  Placement(k, live) \in live
<1>1. IsFiniteSet(Nodes) /\ Nodes \in SUBSET Nat
  BY NodesAndKeysFinite
<1>2. IsFiniteSet(live) /\ live \in SUBSET Nat
  BY <1>1, FS_Subset
<1>3. Cardinality(live) \in Nat \ {0}
  BY <1>2, FS_CardinalityType, FS_EmptySet
<1>4. k \in Nat
  BY PlanAssumption DEF Keys
<1>5. k % Cardinality(live) \in 0 .. Cardinality(live) - 1
  BY <1>3, <1>4
<1> QED BY <1>2, <1>5, NthExists DEF Placement

LEMMA TimesMonotone ==
    ASSUME NEW a \in Nat, NEW b \in Nat, NEW c \in Nat, a <= b
    PROVE  a * c <= b * c
  OBVIOUS

(* A plan of the chains R takes its ids from base + 1 .. base + |R|*ChainLen. *)
LEMMA IidBounds ==
    ASSUME NEW live \in SUBSET Nodes, live # {},
           NEW R \in SUBSET Keys, NEW k \in R, NEW step \in Steps, NEW base \in Nat
    PROVE  Iid(k, step, R, live, base) \in
               (base + 1) .. (base + Cardinality(R) * ChainLen)
<1>1. IsFiniteSet(R)
  BY NodesAndKeysFinite
<1>2. Before(k, R, live) \in SUBSET (R \ {k})
  <2>1. \A j \in R : Placement(j, live) \in Nat /\ j \in Nat
    <3> SUFFICES ASSUME NEW j \in R PROVE Placement(j, live) \in Nat /\ j \in Nat
      OBVIOUS
    <3>1. j \in Keys /\ Placement(j, live) \in live
      BY PlacementLive
    <3> QED BY <3>1, NodesAndKeysFinite
  <2> QED BY <2>1 DEF Before, Earlier
<1>3. IsFiniteSet(R \ {k}) /\ Cardinality(R \ {k}) = Cardinality(R) - 1
  BY <1>1, FS_RemoveElement
<1>4. Cardinality(Before(k, R, live)) \in Nat
      /\ Cardinality(Before(k, R, live)) <= Cardinality(R) - 1
  BY <1>2, <1>3, FS_Subset, FS_CardinalityType
<1>5. Cardinality(R) \in Nat
  BY <1>1, FS_CardinalityType
<1> DEFINE c == Cardinality(Before(k, R, live))
<1> DEFINE r == Cardinality(R)
<1>6. c \in Nat /\ r \in Nat /\ c + 1 <= r /\ c + 1 \in Nat
  BY <1>4, <1>5
<1>7. ChainLen \in Nat /\ step \in Nat /\ 1 <= step /\ step <= ChainLen
  BY PlanAssumption DEF Steps
<1> SUFFICES base + c * ChainLen + step \in (base + 1) .. (base + r * ChainLen)
  BY DEF Iid
<1> HIDE DEF c, r
<1>8. (c + 1) * ChainLen <= r * ChainLen
  BY <1>6, <1>7, TimesMonotone
<1>9. (c + 1) * ChainLen = c * ChainLen + ChainLen
  BY <1>6, <1>7
<1>10. c * ChainLen \in Nat /\ r * ChainLen \in Nat
  BY <1>6, <1>7
<1> QED BY <1>7, <1>8, <1>9, <1>10

(* So they are finitely many and none of an earlier plan's.                *)
LEMMA PlanIidsFresh ==
    ASSUME NEW live \in SUBSET Nodes, live # {},
           NEW R \in SUBSET Keys, NEW base \in Nat
    PROVE  /\ IsFiniteSet(PlanIids(R, live, base))
           /\ PlanIids(R, live, base) \subseteq
                  (base + 1) .. (base + Cardinality(R) * ChainLen)
           /\ base + Cardinality(R) * ChainLen \in Nat
           /\ base + Cardinality(R) * ChainLen >= base
<1> DEFINE hi == base + Cardinality(R) * ChainLen
<1>1. IsFiniteSet(R)
  BY NodesAndKeysFinite
<1>2. Cardinality(R) \in Nat /\ ChainLen \in Nat
  BY <1>1, FS_CardinalityType, PlanAssumption
<1>3. Cardinality(R) * ChainLen \in Nat
  BY <1>2
<1>4. PlanIids(R, live, base) \subseteq (base + 1) .. hi
  <2> SUFFICES ASSUME NEW k \in R, NEW step \in Steps
               PROVE  Iid(k, step, R, live, base) \in (base + 1) .. hi
    BY DEF PlanIids
  <2> QED BY IidBounds
<1>5. IsFiniteSet((base + 1) .. hi)
  BY <1>3, FS_Interval
<1> QED BY <1>3, <1>4, <1>5, FS_Subset

(* The fields of a plan's entries are what the code takes them for.        *)
LEMMA TableType ==
    ASSUME NEW live \in SUBSET Nodes, live # {},
           NEW R \in SUBSET Keys, NEW base \in Nat,
           NEW i \in PlanIids(R, live, base)
    PROVE  PlanTable(R, live, base)[i] \in
               [key : R, step : Steps, node : live, seg : Nat]
<1> DEFINE slot == CHOOSE s \in R \X Steps : Iid(s[1], s[2], R, live, base) = i
<1>1. slot \in R \X Steps
  BY DEF PlanIids
<1>2. slot[1] \in R /\ slot[2] \in Steps
  BY <1>1
<1>3. Placement(slot[1], live) \in live
  BY <1>2, PlacementLive
<1>4. Segment(slot[1], slot[2], R, live) \in Nat
  <2> HIDE DEF slot
  <2>1. IsFiniteSet(R)
    BY NodesAndKeysFinite
  <2>2. Cardinality(Earlier(slot[1], R, live)) \in Nat
    BY <2>1, FS_Subset, FS_CardinalityType DEF Earlier
  <2>3. slot[2] \in Nat /\ slot[2] >= 1
    BY <1>2, PlanAssumption DEF Steps
  <2>4. Cardinality(Earlier(slot[1], R, live)) * ChainLen \in Nat
    BY <2>2, PlanAssumption
  <2>5. SegLen \in Nat \ {0}
    BY PlanAssumption
  <2> DEFINE m == Cardinality(Earlier(slot[1], R, live)) * ChainLen
  <2>6. m + slot[2] - 1 \in Nat
    BY <2>3, <2>4
  <2> HIDE DEF m
  <2> DEFINE d == m + slot[2] - 1
  <2>7. d \div SegLen \in Nat
    <3>1. d \in Nat
      BY <2>6
    <3> HIDE DEF d
    <3> QED BY <2>5, <3>1
  <2> QED BY <2>7 DEF Segment, m
<1> HIDE DEF slot
<1>5. PlanTable(R, live, base)[i] =
        [key |-> slot[1], step |-> slot[2], node |-> Placement(slot[1], live),
         seg |-> Segment(slot[1], slot[2], R, live)]
  BY DEF PlanTable, slot
<1> QED BY <1>2, <1>3, <1>4, <1>5

-----------------------------------------------------------------------------
(* No two instructions of a plan share an id. *)

LEMMA BeforeGrows ==
    ASSUME NEW live \in SUBSET Nodes, live # {},
           NEW R \in SUBSET Keys, NEW k \in R, NEW j \in Before(k, R, live)
    PROVE  /\ Cardinality(Before(j, R, live)) \in Nat
           /\ Cardinality(Before(k, R, live)) \in Nat
           /\ Cardinality(Before(j, R, live)) + 1 <= Cardinality(Before(k, R, live))
<1>1. \A i \in R : Placement(i, live) \in Nat /\ i \in Nat
  BY NodesAndKeysFinite, PlacementLive
<1>2. j \in R
  BY DEF Before, Earlier
<1>3. Before(j, R, live) \cup {j} \subseteq Before(k, R, live)
  BY <1>1, <1>2 DEF Before, Earlier
<1>4. j \notin Before(j, R, live)
  BY <1>1, <1>2 DEF Before, Earlier
<1>5. IsFiniteSet(R)
  BY NodesAndKeysFinite
<1>6. IsFiniteSet(Before(j, R, live)) /\ IsFiniteSet(Before(k, R, live))
  BY <1>5, FS_Subset DEF Before, Earlier
<1>7. /\ Cardinality(Before(j, R, live) \cup {j}) = Cardinality(Before(j, R, live)) + 1
      /\ Cardinality(Before(j, R, live) \cup {j}) <= Cardinality(Before(k, R, live))
  BY <1>3, <1>4, <1>6, FS_AddElement, FS_Subset
<1> QED BY <1>6, <1>7, FS_CardinalityType

LEMMA LaterChainLaterIid ==
    ASSUME NEW live \in SUBSET Nodes, live # {},
           NEW R \in SUBSET Keys, NEW k \in R, NEW j \in Before(k, R, live),
           NEW s \in Steps, NEW t \in Steps, NEW base \in Nat
    PROVE  Iid(j, s, R, live, base) < Iid(k, t, R, live, base)
<1> DEFINE a == Cardinality(Before(j, R, live))
<1> DEFINE b == Cardinality(Before(k, R, live))
<1>1. a \in Nat /\ b \in Nat /\ a + 1 <= b
  BY BeforeGrows
<1>2. ChainLen \in Nat /\ s \in 1 .. ChainLen /\ t \in 1 .. ChainLen
  BY PlanAssumption DEF Steps
<1> SUFFICES base + a * ChainLen + s < base + b * ChainLen + t
  BY DEF Iid
<1> HIDE DEF a, b
<1>3. (a + 1) * ChainLen <= b * ChainLen
  BY <1>1, <1>2, TimesMonotone
<1>4. (a + 1) * ChainLen = a * ChainLen + ChainLen
  BY <1>1, <1>2
<1>5. a * ChainLen \in Nat /\ b * ChainLen \in Nat
  BY <1>1, <1>2
<1> QED BY <1>2, <1>3, <1>4, <1>5

LEMMA IidInjective ==
    ASSUME NEW live \in SUBSET Nodes, live # {},
           NEW R \in SUBSET Keys, NEW base \in Nat,
           NEW j \in R, NEW k \in R, NEW s \in Steps, NEW t \in Steps,
           Iid(j, s, R, live, base) = Iid(k, t, R, live, base)
    PROVE  j = k /\ s = t
<1>1. j = k
  <2> SUFFICES ASSUME j # k PROVE FALSE
    OBVIOUS
  <2>1. /\ Placement(j, live) \in Nat /\ Placement(k, live) \in Nat
        /\ j \in Nat /\ k \in Nat
    BY NodesAndKeysFinite, PlacementLive
  <2>2. j \in Before(k, R, live) \/ k \in Before(j, R, live)
    BY <2>1 DEF Before, Earlier
  <2>3. /\ Iid(j, s, R, live, base) \in (base + 1) .. (base + Cardinality(R) * ChainLen)
        /\ Iid(k, t, R, live, base) \in (base + 1) .. (base + Cardinality(R) * ChainLen)
    BY IidBounds
  <2>4. Iid(j, s, R, live, base) \in Int /\ Iid(k, t, R, live, base) \in Int
    BY <2>3, PlanIidsFresh
  <2>5. \/ Iid(j, s, R, live, base) < Iid(k, t, R, live, base)
        \/ Iid(k, t, R, live, base) < Iid(j, s, R, live, base)
    BY <2>2, LaterChainLaterIid
  <2> QED BY <2>4, <2>5
<1>2. s = t
  <2> DEFINE c == Cardinality(Before(k, R, live)) * ChainLen
  <2>1. Cardinality(Before(k, R, live)) \in Nat
    BY NodesAndKeysFinite, FS_Subset, FS_CardinalityType DEF Before, Earlier
  <2>2. c \in Nat /\ s \in Nat /\ t \in Nat
    BY <2>1, PlanAssumption DEF Steps
  <2>3. base + c + s = base + c + t
    BY <1>1 DEF Iid
  <2> HIDE DEF c
  <2> QED BY <2>2, <2>3
<1> QED BY <1>1, <1>2

(* The entry of a plan's table under the id of a step of k's chain.        *)
LEMMA TableRecord ==
    ASSUME NEW live \in SUBSET Nodes, live # {},
           NEW R \in SUBSET Keys, NEW base \in Nat,
           NEW k \in R, NEW step \in Steps
    PROVE  LET i == Iid(k, step, R, live, base)
           IN /\ i \in PlanIids(R, live, base)
              /\ PlanTable(R, live, base)[i] =
                    [key |-> k, step |-> step, node |-> Placement(k, live),
                     seg |-> Segment(k, step, R, live)]
<1> DEFINE i == Iid(k, step, R, live, base)
<1> DEFINE slot == CHOOSE s \in R \X Steps : Iid(s[1], s[2], R, live, base) = i
<1>1. i \in PlanIids(R, live, base)
  <2>1. <<k, step>> \in R \X Steps
    OBVIOUS
  <2> QED BY <2>1 DEF PlanIids
<1>2. slot \in R \X Steps /\ Iid(slot[1], slot[2], R, live, base) = i
  <2>1. <<k, step>> \in R \X Steps /\ Iid(<<k, step>>[1], <<k, step>>[2], R, live, base) = i
    OBVIOUS
  <2> QED BY <2>1
<1>3. slot[1] \in R /\ slot[2] \in Steps
  BY <1>2
<1> HIDE DEF slot
<1>4. slot[1] = k /\ slot[2] = step
  BY <1>2, <1>3, IidInjective
<1>5. PlanTable(R, live, base)[i] =
        [key |-> slot[1], step |-> slot[2], node |-> Placement(slot[1], live),
         seg |-> Segment(slot[1], slot[2], R, live)]
  BY <1>1 DEF PlanTable, slot
<1> QED BY <1>1, <1>4, <1>5

LEMMA TableEntry ==
    ASSUME NEW live \in SUBSET Nodes, live # {},
           NEW R \in SUBSET Keys, NEW base \in Nat,
           NEW k \in R, NEW step \in Steps
    PROVE  LET i == Iid(k, step, R, live, base)
           IN /\ i \in PlanIids(R, live, base)
              /\ PlanTable(R, live, base)[i].key = k
              /\ PlanTable(R, live, base)[i].step = step
              /\ PlanTable(R, live, base)[i].node = Placement(k, live)
<1> DEFINE i == Iid(k, step, R, live, base)
<1>1. /\ i \in PlanIids(R, live, base)
      /\ PlanTable(R, live, base)[i] =
            [key |-> k, step |-> step, node |-> Placement(k, live),
             seg |-> Segment(k, step, R, live)]
  BY TableRecord
<1> HIDE DEF i
<1> QED BY <1>1 DEF i

(* Each id of a plan is that of a step of a chain of its own.              *)
LEMMA TableSlot ==
    ASSUME NEW live \in SUBSET Nodes, live # {},
           NEW R \in SUBSET Keys, NEW base \in Nat,
           NEW i \in PlanIids(R, live, base)
    PROVE  LET e == PlanTable(R, live, base)[i]
           IN /\ e.key \in R /\ e.step \in Steps
              /\ i = Iid(e.key, e.step, R, live, base)
              /\ e.node = Placement(e.key, live)
              /\ e.seg = Segment(e.key, e.step, R, live)
<1>1. PICK slot \in R \X Steps : i = Iid(slot[1], slot[2], R, live, base)
  BY DEF PlanIids
<1>2. slot[1] \in R /\ slot[2] \in Steps
  BY <1>1
<1>3. PlanTable(R, live, base)[i] =
        [key |-> slot[1], step |-> slot[2], node |-> Placement(slot[1], live),
         seg |-> Segment(slot[1], slot[2], R, live)]
  BY <1>1, <1>2, TableRecord
<1> QED BY <1>1, <1>2, <1>3

(* The ids of a chain are consecutive.                                     *)
LEMMA ChainIids ==
    ASSUME NEW live \in SUBSET Nodes, live # {},
           NEW R \in SUBSET Keys, NEW base \in Nat,
           NEW k \in R, NEW s \in Steps, NEW t \in Steps
    PROVE  /\ Iid(k, s, R, live, base) \in Nat
           /\ Iid(k, t, R, live, base) = Iid(k, s, R, live, base) - s + t
<1> DEFINE c == Cardinality(Before(k, R, live)) * ChainLen
<1>1. Cardinality(Before(k, R, live)) \in Nat
  BY NodesAndKeysFinite, FS_Subset, FS_CardinalityType DEF Before, Earlier
<1>2. c \in Nat /\ s \in Nat /\ t \in Nat
  BY <1>1, PlanAssumption DEF Steps
<1>3. Iid(k, s, R, live, base) = base + c + s /\ Iid(k, t, R, live, base) = base + c + t
  BY DEF Iid
<1> HIDE DEF c
<1> QED BY <1>2, <1>3

(* With every node live an output is placed on its owner.                  *)
LEMMA FirstPlacement ==
    ASSUME NEW k \in Keys
    PROVE  Placement(k, Nodes) = Owner(k)
<1>1. Width \in Nat \ {0} /\ k \in Nat
  BY PlanAssumption DEF Keys
<1>2. IsFiniteSet(Nodes) /\ Cardinality(Nodes) = Width /\ Nodes \in SUBSET Nat
  BY <1>1, FS_Interval, NodesAndKeysFinite DEF Nodes
<1> DEFINE x == Nth(Nodes, k % Width)
<1>3. k % Width \in 0 .. Cardinality(Nodes) - 1
  BY <1>1, <1>2
<1>4. x \in Nodes /\ Cardinality({y \in Nodes : y < x}) = k % Width
  BY <1>2, <1>3, NthExists
<1> HIDE DEF x
<1>5. {y \in Nodes : y < x} = 0 .. x - 1
  BY <1>1, <1>4 DEF Nodes
<1>6. Cardinality(0 .. x - 1) = x
  BY <1>1, <1>4, FS_Interval DEF Nodes
<1> QED BY <1>2, <1>4, <1>5, <1>6 DEF Placement, Owner, x

-----------------------------------------------------------------------------
(* Every segment a node is said to have holds an instruction. *)

LEMMA SegmentFloor ==
    ASSUME NEW m \in Nat, NEW d \in Nat \ {0}, NEW s \in Nat \ {0}, s <= (m + d - 1) \div d
    PROVE  (s - 1) * d \in 0 .. m - 1
<1> DEFINE q == (m + d - 1) \div d
<1>1. q \in Nat /\ q * d <= m + d - 1
  OBVIOUS
<1>2. s <= q
  OBVIOUS
<1> HIDE DEF q
<1>3. s * d <= q * d
  BY <1>1, <1>2, TimesMonotone
<1>4. (s - 1) * d = s * d - d /\ s * d \in Nat /\ (s - 1) * d \in Nat
  OBVIOUS
<1>5. q * d \in Nat
  BY <1>1
<1> QED BY <1>1, <1>3, <1>4, <1>5

LEMMA QuotientOfProduct ==
    ASSUME NEW a \in Nat, NEW d \in Nat \ {0}
    PROVE  (a * d) \div d = a
  OBVIOUS

LEMMA DivideNat ==
    ASSUME NEW x \in Nat, NEW d \in Nat \ {0}
    PROVE  \E q \in Nat, t \in 0 .. d - 1 : x = q * d + t
<1> DEFINE q == x \div d
<1> DEFINE t == x % d
<1>1. q \in Nat /\ t \in 0 .. d - 1
  BY SMT
<1>2. x = q * d + t
  BY Z3
<1> QED BY <1>1, <1>2

LEMMA DivideBy ==
    ASSUME NEW c \in Nat, NEW d \in Nat \ {0}, NEW x \in 0 .. c * d - 1
    PROVE  \E q \in 0 .. c - 1, t \in 0 .. d - 1 : x = q * d + t
<1>1. x \in Nat
  OBVIOUS
<1>2. PICK q \in Nat, t \in 0 .. d - 1 : x = q * d + t
  BY <1>1, DivideNat
<1>3. q * d < c * d /\ q * d \in Nat /\ c * d \in Nat
  <2>1. q * d \in Nat /\ c * d \in Nat
    OBVIOUS
  <2> QED BY <1>2, <2>1
<1>4. ASSUME c <= q PROVE FALSE
  <2>1. c * d <= q * d
    BY <1>4, TimesMonotone
  <2> QED BY <1>3, <2>1
<1>5. q \in 0 .. c - 1
  BY <1>4
<1> QED BY <1>2, <1>5

(* Counted over the chains of one node, each segment up to SegmentCount    *)
(* begins within a chain.                                                  *)
LEMMA SegmentFilled ==
    ASSUME NEW live \in SUBSET Nodes, live # {},
           NEW R \in SUBSET Keys, NEW n \in Nodes,
           NEW s \in 1 .. SegmentCount(R, live)[n]
    PROVE  \E k \in R : \E step \in Steps :
              Placement(k, live) = n /\ Segment(k, step, R, live) = s
<1> DEFINE mine == {k \in R : Placement(k, live) = n}
<1> DEFINE c == Cardinality(mine)
<1> DEFINE x == (s - 1) * SegLen
<1> DEFINE count == (c * ChainLen + SegLen - 1) \div SegLen
<1>1. IsFiniteSet(mine) /\ mine \in SUBSET Nat /\ c \in Nat
  BY NodesAndKeysFinite, FS_Subset, FS_CardinalityType
<1>2. ChainLen \in Nat \ {0} /\ SegLen \in Nat \ {0} /\ Steps = 1 .. ChainLen
  BY PlanAssumption DEF Steps
<1>3. SegmentCount(R, live)[n] = count
  BY DEF SegmentCount
<1> HIDE DEF c, mine
<1>4. c * ChainLen \in Nat
  BY <1>1, <1>2
<1>5. s \in Nat \ {0} /\ s <= count
  <2>1. c * ChainLen + SegLen - 1 \in Nat
    BY <1>2, <1>4
  <2>2. count \in Nat
    BY <1>2, <2>1
  <2> HIDE DEF count
  <2> QED BY <1>3, <2>2
<1>6. x \in 0 .. c * ChainLen - 1
  BY <1>2, <1>4, <1>5, SegmentFloor
<1>7. x \div SegLen = s - 1
  BY <1>2, <1>5, QuotientOfProduct
<1> HIDE DEF x, count
<1>8. PICK r \in 0 .. c - 1, t \in 0 .. ChainLen - 1 : x = r * ChainLen + t
  BY <1>1, <1>2, <1>6, DivideBy
<1> DEFINE k == Nth(mine, r)
<1>9. k \in mine /\ Cardinality({j \in mine : j < k}) = r
  BY <1>1, <1>8, NthExists DEF c
<1> HIDE DEF k
<1>10. k \in R /\ Placement(k, live) = n
  BY <1>9 DEF mine
<1>11. {j \in mine : j < k} = Earlier(k, R, live)
  BY <1>10 DEF mine, Earlier
<1>12. t + 1 \in Steps
  BY <1>2, <1>8
<1>13. Segment(k, t + 1, R, live) = (r * ChainLen + (t + 1) - 1) \div SegLen + 1
  BY <1>9, <1>11 DEF Segment
<1>14. r * ChainLen + (t + 1) - 1 = x
  <2>1. r \in Nat /\ t \in Nat
    BY <1>1, <1>2, <1>8
  <2>2. r * ChainLen \in Nat
    BY <1>2, <2>1
  <2> QED BY <1>8, <2>1, <2>2
<1>15. Segment(k, t + 1, R, live) = s
  BY <1>5, <1>7, <1>13, <1>14
<1> QED BY <1>10, <1>12, <1>15

(* Segments count from 1.                                                  *)
LEMMA SegmentPositive ==
    ASSUME NEW live \in SUBSET Nodes, NEW R \in SUBSET Keys, NEW k \in R, NEW step \in Steps
    PROVE  Segment(k, step, R, live) \in Nat \ {0}
<1> DEFINE d == Cardinality(Earlier(k, R, live)) * ChainLen + step - 1
<1>1. Cardinality(Earlier(k, R, live)) \in Nat
  BY NodesAndKeysFinite, FS_Subset, FS_CardinalityType DEF Earlier
<1>2. Cardinality(Earlier(k, R, live)) * ChainLen \in Nat
  BY <1>1, PlanAssumption
<1>3. d \in Nat /\ SegLen \in Nat \ {0}
  BY <1>2, PlanAssumption DEF Steps
<1> HIDE DEF d
<1>4. d \div SegLen \in Nat
  BY <1>3
<1> QED BY <1>4 DEF Segment, d
=============================================================================
