------------------------------ MODULE ListProofs ------------------------------
(***************************************************************************)
(* Lemmas about numbers, sequences and finite sets that the proofs of      *)
(* several modules need.                                                   *)
(***************************************************************************)
EXTENDS Lists, SequenceTheorems, FiniteSetTheorems, WellFoundedInduction, TLAPS

-----------------------------------------------------------------------------
(* Numbers and functions *)

(* A set of naturals that is not empty has a least element.                *)
LEMMA LeastExists ==
    ASSUME NEW T \in SUBSET Nat, T # {}
    PROVE  \E x \in T : \A y \in T : x <= y
<1>1. \E x \in T : \A y \in T : <<y, x>> \notin OpToRel(<, Nat)
  BY NatLessThanWellFounded, WFMin
<1>2. \A x, y \in Nat : y < x => <<y, x>> \in OpToRel(<, Nat)
  <2> SUFFICES ASSUME NEW x \in Nat, NEW y \in Nat, y < x
               PROVE  <<y, x>> \in {ss \in Nat \X Nat : ss[1] < ss[2]}
    BY DEF OpToRel
  <2> QED OBVIOUS
<1>3. PICK x \in T : \A y \in T : <<y, x>> \notin OpToRel(<, Nat)
  BY <1>1
<1>4. ASSUME NEW y \in T PROVE x <= y
  <2>1. ~(y < x)
    BY <1>2, <1>3
  <2> QED BY <2>1
<1> QED BY <1>4

(* What holds of 0 and passes from each number to the next.                *)
LEMMA UpTo ==
    ASSUME NEW n \in Nat, NEW T, 0 \in T, \A i \in 1..n : i - 1 \in T => i \in T
    PROVE  \A i \in 0..n : i \in T
<1> DEFINE Out == {i \in 0..n : i \notin T}
<1> SUFFICES ASSUME Out # {} PROVE FALSE
  OBVIOUS
<1>1. PICK x \in Out : \A y \in Out : x <= y
  <2>1. Out \in SUBSET Nat
    OBVIOUS
  <2> QED BY <2>1, LeastExists
<1>2. x # 0 /\ x \in 1..n /\ x - 1 \in 0..n
  OBVIOUS
<1>3. x - 1 \notin Out
  BY <1>1, <1>2
<1> QED BY <1>1, <1>2, <1>3

(* A sequence that is filtered, as far as its first i elements.            *)
IsOnly(s, S, only) ==
    only = [i \in 0..Len(s) |->
              IF i = 0 THEN <<>>
              ELSE IF s[i] \in S THEN Append(only[i - 1], s[i]) ELSE only[i - 1]]

Filtered(s, S, i, t) ==
    /\ t \in Seq({s[k] : k \in 1..i} \cap S)
    /\ ToSet(t) = {s[k] : k \in 1..i} \cap S
    /\ IsInjective(s) => IsInjective(t)

LEMMA FilteredOn ==
    ASSUME NEW R, NEW s \in Seq(R), NEW S, NEW i \in 1..Len(s), NEW t, Filtered(s, S, i - 1, t)
    PROVE  Filtered(s, S, i, IF s[i] \in S THEN Append(t, s[i]) ELSE t)
<1> DEFINE A == {s[k] : k \in 1..(i - 1)} \cap S
           B == {s[k] : k \in 1..i} \cap S
<1>0. Len(s) \in Nat /\ DOMAIN s = 1..Len(s)
  BY LenProperties
<1>1. t \in Seq(A) /\ ToSet(t) = A /\ (IsInjective(s) => IsInjective(t))
  BY DEF Filtered
<1>2. A \subseteq B /\ B \subseteq A \cup {s[i]}
  <2>1. \A k \in 1..i : k = i \/ k \in 1..(i - 1)
    BY <1>0
  <2>2. \A k \in 1..(i - 1) : k \in 1..i
    BY <1>0
  <2> QED BY <2>1, <2>2
<1>3. CASE s[i] \notin S
  <2>1. A = B
    BY <1>2, <1>3
  <2> QED BY <1>1, <1>3, <2>1 DEF Filtered
<1>4. CASE s[i] \in S
  <2> DEFINE u == Append(t, s[i])
  <2>1. s[i] \in B /\ B = A \cup {s[i]}
    <3>1. i \in 1..i
      BY <1>0
    <3> QED BY <1>2, <1>4, <3>1
  <2>2. t \in Seq(B)
    BY <1>1, <1>2, SeqMonotonic
  <2> HIDE DEF A, B
  <2>3. /\ u \in Seq(B) /\ Len(u) = Len(t) + 1 /\ Len(t) \in Nat
        /\ \A k \in 1..Len(t) : u[k] = t[k]
        /\ u[Len(t) + 1] = s[i] /\ DOMAIN t = 1..Len(t) /\ DOMAIN u = 1..(Len(t) + 1)
    BY <2>1, <2>2, AppendProperties, LenProperties
  <2> HIDE DEF u
  <2>4. ToSet(u) = B
    <3>1. ToSet(u) = ToSet(t) \cup {s[i]}
      BY <2>3 DEF ToSet
    <3> QED BY <1>1, <2>1, <3>1
  <2>5. IsInjective(s) => IsInjective(u)
    <3> SUFFICES ASSUME IsInjective(s) PROVE IsInjective(u)
      OBVIOUS
    <3>1. s[i] \notin A
      <4>1. \A k \in 1..(i - 1) : k \in DOMAIN s /\ k # i /\ i \in DOMAIN s
        BY <1>0
      <4>2. \A k \in 1..(i - 1) : s[k] # s[i]
        BY <4>1 DEF IsInjective
      <4> QED BY <4>2 DEF A
    <3>2. \A k \in 1..Len(t) : t[k] # s[i]
      BY <1>1, <2>3, <3>1 DEF ToSet
    <3>3. ASSUME NEW k \in DOMAIN u, NEW l \in DOMAIN u, u[k] = u[l] PROVE k = l
      <4>1. CASE k \in 1..Len(t) /\ l \in 1..Len(t)
        <5>1. t[k] = t[l] /\ IsInjective(t)
          BY <1>1, <2>3, <3>3, <4>1
        <5> QED BY <2>3, <4>1, <5>1 DEF IsInjective
      <4>2. CASE k = Len(t) + 1 /\ l \in 1..Len(t)
        BY <2>3, <3>2, <3>3, <4>2
      <4>3. CASE l = Len(t) + 1 /\ k \in 1..Len(t)
        BY <2>3, <3>2, <3>3, <4>3
      <4>4. CASE k = Len(t) + 1 /\ l = Len(t) + 1
        BY <4>4
      <4> QED BY <2>3, <4>1, <4>2, <4>3, <4>4
    <3> QED BY <3>3 DEF IsInjective
  <2> QED BY <1>4, <2>3, <2>4, <2>5 DEF Filtered, B, u
<1> QED BY <1>3, <1>4

(* There is such a sequence of filtered beginnings.                        *)
LEMMA OnlyExists ==
    ASSUME NEW R, NEW s \in Seq(R), NEW S
    PROVE  \E f : IsOnly(s, S, f)
<1> DEFINE n == Len(s)
           Next1(i, t) == IF s[i] \in S THEN Append(t, s[i]) ELSE t
           Good(m) == \E f : /\ f = [i \in 0..m |-> f[i]] /\ f[0] = <<>>
                             /\ \A i \in 1..m : f[i] = Next1(i, f[i - 1])
           T == {m \in 0..n : Good(m)}
<1>0. n \in Nat
  BY LenProperties
<1> HIDE DEF Next1
<1>1. 0 \in T
  <2> DEFINE g == [i \in 0..0 |-> <<>>]
  <2>1. g = [i \in 0..0 |-> g[i]] /\ g[0] = <<>> /\ \A i \in 1..0 : g[i] = Next1(i, g[i - 1])
    OBVIOUS
  <2> HIDE DEF g
  <2>2. Good(0)
    BY <2>1
  <2> QED BY <1>0, <2>2
<1>2. ASSUME NEW m \in 1..n, m - 1 \in T PROVE m \in T
  <2>1. PICK f : /\ f = [i \in 0..(m - 1) |-> f[i]] /\ f[0] = <<>>
                 /\ \A i \in 1..(m - 1) : f[i] = Next1(i, f[i - 1])
    BY <1>2
  <2> DEFINE g == [i \in 0..m |-> IF i = m THEN Next1(m, f[m - 1]) ELSE f[i]]
  <2>2. g = [i \in 0..m |-> g[i]] /\ g[0] = <<>>
    BY <2>1
  <2>3. ASSUME NEW i \in 1..m PROVE g[i] = Next1(i, g[i - 1])
    <3>1. g[i - 1] = f[i - 1]
      OBVIOUS
    <3>2. CASE i = m
      <4>1. g[m] = Next1(m, f[m - 1])
        OBVIOUS
      <4> QED BY <3>1, <3>2, <4>1
    <3>3. CASE i # m
      <4>1. i \in 1..(m - 1) /\ g[i] = f[i]
        BY <3>3
      <4> QED BY <4>1, <3>1, <2>1
    <3> QED BY <3>2, <3>3
  <2> HIDE DEF g
  <2>4. Good(m)
    BY <2>2, <2>3
  <2> HIDE DEF Good
  <2> QED BY <2>4
<1>3. n \in T
  <2> HIDE DEF T
  <2>1. \A i \in 0..n : i \in T
    BY <1>0, <1>1, <1>2, UpTo
  <2> QED BY <1>0, <2>1
<1>4. PICK f : /\ f = [i \in 0..n |-> f[i]] /\ f[0] = <<>>
               /\ \A i \in 1..n : f[i] = Next1(i, f[i - 1])
  BY <1>3
<1>5. ASSUME NEW i \in 0..n
      PROVE  f[i] = IF i = 0 THEN <<>> ELSE Next1(i, f[i - 1])
  BY <1>0, <1>4
<1>6. f = [i \in 0..n |-> IF i = 0 THEN <<>> ELSE Next1(i, f[i - 1])]
  BY <1>4, <1>5
<1> QED BY <1>6 DEF IsOnly, Next1

(* Only keeps the elements in S, each as often as it was there.            *)
LEMMA OnlyIs ==
    ASSUME NEW R, NEW s \in Seq(R), NEW S
    PROVE  /\ Only(s, S) \in Seq(R) /\ ToSet(Only(s, S)) = ToSet(s) \cap S
           /\ IsInjective(s) => IsInjective(Only(s, S))
<1> DEFINE only == CHOOSE f : IsOnly(s, S, f)
           T == {i \in 0..Len(s) : Filtered(s, S, i, only[i])}
<1>0. Len(s) \in Nat /\ DOMAIN s = 1..Len(s) /\ \A i \in 1..Len(s) : s[i] \in R
  BY LenProperties, ElementOfSeq
<1>1. IsOnly(s, S, only)
  BY OnlyExists
<1>2. Only(s, S) = only[Len(s)]
  BY DEF Only, IsOnly
<1> HIDE DEF only
<1>3. \A i \in 0..Len(s) :
         only[i] = IF i = 0 THEN <<>>
                   ELSE IF s[i] \in S THEN Append(only[i - 1], s[i]) ELSE only[i - 1]
  BY <1>1 DEF IsOnly
<1>4. 0 \in T
  <2>1. only[0] = <<>>
    BY <1>0, <1>3
  <2>2. Filtered(s, S, 0, <<>>)
    <3>1. {s[k] : k \in 1..0} = {} /\ <<>> \in Seq({}) /\ ToSet(<<>>) = {} /\ IsInjective(<<>>)
      BY EmptySeq DEF ToSet, IsInjective
    <3> QED BY <3>1 DEF Filtered
  <2> QED BY <1>0, <2>1, <2>2
<1>5. ASSUME NEW i \in 1..Len(s), i - 1 \in T PROVE i \in T
  <2>1. Filtered(s, S, i - 1, only[i - 1]) /\ i \in 0..Len(s) /\ i # 0
    BY <1>0, <1>5
  <2>2. Filtered(s, S, i, IF s[i] \in S THEN Append(only[i - 1], s[i]) ELSE only[i - 1])
    BY <2>1, FilteredOn
  <2>3. Filtered(s, S, i, only[i])
    BY <1>3, <2>1, <2>2
  <2> QED BY <2>1, <2>3
<1>6. Len(s) \in T
  <2> HIDE DEF T
  <2>1. \A i \in 0..Len(s) : i \in T
    BY <1>0, <1>4, <1>5, UpTo
  <2> QED BY <1>0, <2>1
<1>7. {s[k] : k \in 1..Len(s)} = ToSet(s) /\ ToSet(s) \subseteq R
  BY <1>0 DEF ToSet
<1>8. Only(s, S) \in Seq(ToSet(s) \cap S)
  BY <1>2, <1>6, <1>7 DEF Filtered
<1>9. Only(s, S) \in Seq(R)
  BY <1>7, <1>8, SeqMonotonic
<1> QED BY <1>2, <1>6, <1>7, <1>9 DEF Filtered

-----------------------------------------------------------------------------
(* Sequences and finite sets *)

LEMMA AppendIs ==
    ASSUME NEW S, NEW q \in Seq(S), NEW x \in S
    PROVE  /\ Append(q, x) \in Seq(S) /\ ToSet(Append(q, x)) = ToSet(q) \cup {x}
           /\ IsInjective(q) /\ x \notin ToSet(q) => IsInjective(Append(q, x))
<1> DEFINE u == Append(q, x)
<1>1. /\ u \in Seq(S) /\ Len(u) = Len(q) + 1 /\ Len(q) \in Nat
      /\ \A k \in 1..Len(q) : u[k] = q[k]
      /\ u[Len(q) + 1] = x /\ DOMAIN q = 1..Len(q) /\ DOMAIN u = 1..(Len(q) + 1)
  BY AppendProperties, LenProperties
<1> HIDE DEF u
<1>2. ToSet(u) = ToSet(q) \cup {x}
  BY <1>1 DEF ToSet
<1>3. IsInjective(q) /\ x \notin ToSet(q) => IsInjective(u)
  <2> SUFFICES ASSUME IsInjective(q), x \notin ToSet(q),
                      NEW k \in DOMAIN u, NEW l \in DOMAIN u, u[k] = u[l]
               PROVE  k = l
    BY DEF IsInjective
  <2>1. \A j \in 1..Len(q) : q[j] # x
    BY <1>1 DEF ToSet
  <2>2. CASE k \in 1..Len(q) /\ l \in 1..Len(q)
    <3>1. q[k] = q[l]
      BY <1>1, <2>2
    <3> QED BY <1>1, <2>2, <3>1 DEF IsInjective
  <2>3. CASE k = Len(q) + 1 \/ l = Len(q) + 1
    BY <1>1, <2>1, <2>3
  <2> QED BY <1>1, <2>2, <2>3
<1> QED BY <1>1, <1>2, <1>3 DEF u

LEMMA ConcatIs ==
    ASSUME NEW S, NEW q \in Seq(S), NEW r \in Seq(S)
    PROVE  /\ q \o r \in Seq(S) /\ ToSet(q \o r) = ToSet(q) \cup ToSet(r)
           /\ IsInjective(q) /\ IsInjective(r) /\ ToSet(q) \cap ToSet(r) = {}
                 => IsInjective(q \o r)
<1> DEFINE u == q \o r
           m == Len(q)
           n == Len(r)
<1>1. /\ u \in Seq(S) /\ m \in Nat /\ n \in Nat
      /\ \A k \in 1..(m + n) : u[k] = IF k <= m THEN q[k] ELSE r[k - m]
      /\ DOMAIN q = 1..m /\ DOMAIN r = 1..n /\ DOMAIN u = 1..(m + n)
  BY ConcatProperties, LenProperties
<1> HIDE DEF u, m, n
<1>2. ToSet(u) = ToSet(q) \cup ToSet(r)
  <2>1. ASSUME NEW k \in 1..(m + n) PROVE u[k] \in ToSet(q) \cup ToSet(r)
    <3>1. CASE k <= m
      BY <1>1, <3>1 DEF ToSet
    <3>2. CASE ~(k <= m)
      <4>1. k - m \in 1..n
        BY <1>1, <3>2
      <4> QED BY <1>1, <3>2, <4>1 DEF ToSet
    <3> QED BY <3>1, <3>2
  <2>2. ASSUME NEW k \in 1..m PROVE q[k] \in ToSet(u)
    <3>1. k \in 1..(m + n) /\ u[k] = q[k]
      BY <1>1
    <3> QED BY <1>1, <3>1 DEF ToSet
  <2>3. ASSUME NEW k \in 1..n PROVE r[k] \in ToSet(u)
    <3>1. k + m \in 1..(m + n) /\ ~(k + m <= m) /\ (k + m) - m = k
      BY <1>1
    <3>2. u[k + m] = r[k]
      BY <1>1, <3>1
    <3> QED BY <1>1, <3>1, <3>2 DEF ToSet
  <2>4. ToSet(u) \subseteq ToSet(q) \cup ToSet(r)
    <3>1. ToSet(u) = {u[k] : k \in 1..(m + n)}
      BY <1>1 DEF ToSet
    <3> QED BY <2>1, <3>1
  <2>5. ToSet(q) = {q[k] : k \in 1..m} /\ ToSet(r) = {r[k] : k \in 1..n}
    BY <1>1 DEF ToSet
  <2> QED BY <2>2, <2>3, <2>4, <2>5
<1>3. IsInjective(q) /\ IsInjective(r) /\ ToSet(q) \cap ToSet(r) = {} => IsInjective(u)
  <2> SUFFICES ASSUME IsInjective(q), IsInjective(r), ToSet(q) \cap ToSet(r) = {},
                      NEW k \in DOMAIN u, NEW l \in DOMAIN u, u[k] = u[l]
               PROVE  k = l
    BY DEF IsInjective
  <2>1. \A i \in 1..m, j \in 1..n : q[i] # r[j]
    BY <1>1 DEF ToSet
  <2>2. CASE k <= m /\ l <= m
    <3>1. k \in DOMAIN q /\ l \in DOMAIN q /\ q[k] = q[l]
      BY <1>1, <2>2
    <3> QED BY <3>1 DEF IsInjective
  <2>3. CASE ~(k <= m) /\ ~(l <= m)
    <3>1. k - m \in DOMAIN r /\ l - m \in DOMAIN r /\ r[k - m] = r[l - m]
      BY <1>1, <2>3
    <3>2. k - m = l - m
      BY <3>1 DEF IsInjective
    <3> QED BY <1>1, <3>2
  <2>4. CASE k <= m /\ ~(l <= m)
    <3>1. k \in 1..m /\ l - m \in 1..n
      BY <1>1, <2>4
    <3> QED BY <1>1, <2>1, <2>4, <3>1
  <2>5. CASE ~(k <= m) /\ l <= m
    <3>1. l \in 1..m /\ k - m \in 1..n
      BY <1>1, <2>5
    <3> QED BY <1>1, <2>1, <2>5, <3>1
  <2> QED BY <2>2, <2>3, <2>4, <2>5
<1> QED BY <1>1, <1>2, <1>3 DEF u

LEMMA TailIs ==
    ASSUME NEW S, NEW q \in Seq(S), q # <<>>
    PROVE  /\ Head(q) \in S /\ Tail(q) \in Seq(S) /\ Len(Tail(q)) = Len(q) - 1
           /\ ToSet(q) = {Head(q)} \cup ToSet(Tail(q))
           /\ IsInjective(q) => IsInjective(Tail(q)) /\ Head(q) \notin ToSet(Tail(q))
<1> DEFINE t == Tail(q)
           n == Len(q)
<1>1. /\ Head(q) \in S /\ t \in Seq(S) /\ Len(t) = n - 1 /\ \A i \in 1..(n - 1) : t[i] = q[i + 1]
      /\ n \in Nat \ {0} /\ DOMAIN q = 1..n /\ Head(q) = q[1]
  BY HeadTailProperties, LenProperties, EmptySeq
<1>2. DOMAIN t = 1..(n - 1)
  BY <1>1, LenProperties
<1> HIDE DEF t, n
<1>3. ToSet(q) = {q[1]} \cup ToSet(t)
  <2>1. ASSUME NEW k \in 1..n PROVE q[k] \in {q[1]} \cup ToSet(t)
    <3>1. CASE k = 1
      BY <3>1
    <3>2. CASE k # 1
      <4>1. k - 1 \in 1..(n - 1) /\ (k - 1) + 1 = k
        BY <1>1, <3>2
      <4>2. t[k - 1] = q[k]
        BY <1>1, <4>1
      <4> QED BY <1>2, <4>1, <4>2 DEF ToSet
    <3> QED BY <3>1, <3>2
  <2>2. ASSUME NEW k \in 1..(n - 1) PROVE t[k] \in ToSet(q)
    <3>1. k + 1 \in 1..n /\ t[k] = q[k + 1]
      BY <1>1
    <3> QED BY <1>1, <3>1 DEF ToSet
  <2>3. q[1] \in ToSet(q)
    BY <1>1 DEF ToSet
  <2>4. ToSet(q) = {q[k] : k \in 1..n} /\ ToSet(t) = {t[k] : k \in 1..(n - 1)}
    BY <1>1, <1>2 DEF ToSet
  <2> QED BY <2>1, <2>2, <2>3, <2>4
<1>4. IsInjective(q) => IsInjective(t) /\ q[1] \notin ToSet(t)
  <2> SUFFICES ASSUME IsInjective(q) PROVE IsInjective(t) /\ q[1] \notin ToSet(t)
    OBVIOUS
  <2>1. ASSUME NEW k \in 1..(n - 1), NEW l \in 1..(n - 1), t[k] = t[l] PROVE k = l
    <3>1. k + 1 \in DOMAIN q /\ l + 1 \in DOMAIN q /\ q[k + 1] = q[l + 1]
      BY <1>1, <2>1
    <3>2. k + 1 = l + 1
      BY <3>1 DEF IsInjective
    <3> QED BY <3>2
  <2>2. ASSUME NEW k \in 1..(n - 1) PROVE t[k] # q[1]
    <3>1. k + 1 \in DOMAIN q /\ 1 \in DOMAIN q /\ t[k] = q[k + 1] /\ k + 1 # 1
      BY <1>1
    <3> QED BY <3>1 DEF IsInjective
  <2>3. IsInjective(t)
    BY <1>2, <2>1 DEF IsInjective
  <2>4. q[1] \notin ToSet(t)
    BY <1>2, <2>2 DEF ToSet
  <2> QED BY <2>3, <2>4
<1> QED BY <1>1, <1>3, <1>4 DEF t, n

(* A function's image of a finite set is not larger than the set.          *)
LEMMA ImageFits ==
    ASSUME NEW S, IsFiniteSet(S), NEW f
    PROVE  /\ IsFiniteSet({f[x] : x \in S})
           /\ Cardinality({f[x] : x \in S}) <= Cardinality(S)
<1> DEFINE T == {f[x] : x \in S}
           g == [x \in S |-> f[x]]
<1>1. g \in Surjection(S, T)
  BY DEF Surjection
<1> QED BY <1>1, FS_Surjection

LEMMA ToSetFits ==
    ASSUME NEW S, NEW q \in Seq(S)
    PROVE  /\ IsFiniteSet(ToSet(q)) /\ Cardinality(ToSet(q)) \in Nat
           /\ Cardinality(ToSet(q)) <= Len(q)
<1>1. Len(q) \in Nat /\ ToSet(q) = {q[k] : k \in 1..Len(q)}
  BY LenProperties DEF ToSet
<1>2. IsFiniteSet(1..Len(q)) /\ Cardinality(1..Len(q)) = Len(q)
  <2>1. \A n \in Nat : IsFiniteSet(1..n) /\ Cardinality(1..n) = n
    BY FS_Interval
  <2> QED BY <1>1, <2>1
<1>3. IsFiniteSet(ToSet(q)) /\ Cardinality(ToSet(q)) <= Len(q)
  BY <1>1, <1>2, ImageFits
<1> QED BY <1>3, FS_CardinalityType
=============================================================================
