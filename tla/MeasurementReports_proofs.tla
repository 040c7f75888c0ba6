----------------------- MODULE MeasurementReports_proofs -----------------------
(***************************************************************************)
(* Proofs about MeasurementReports and PositionEstimation: whatever the    *)
(* AMF and the gNBs send, every notification is taken apart as it was put  *)
(* together, and a location is computed from ToAs of the TRPs whose        *)
(* positions are used, by a system that the place of the UE solves.        *)
(***************************************************************************)
EXTENDS MeasurementReports, MimeParser_proofs, FiniteSetTheorems

-----------------------------------------------------------------------------
(* The order of the maps                                                   *)

(* In a finite set with a strict order of all its elements, each number    *)
(* below the size is the number of elements below exactly one.             *)
LEMMA Ranked ==
  ASSUME NEW S, IsFiniteSet(S), NEW below \in [S -> SUBSET S],
         \A x \in S : x \notin below[x],
         \A x, y \in S : x = y \/ x \in below[y] \/ y \in below[x],
         \A x, y, z \in S : x \in below[y] /\ y \in below[z] => x \in below[z],
         NEW i \in 1..Cardinality(S)
  PROVE  \E x \in S : Cardinality(below[x]) = i - 1
<1> DEFINE n == Cardinality(S)
           rank == [x \in S |-> Cardinality(below[x])]
<1>1. n \in Nat
  BY FS_CardinalityType
<1>2. ASSUME NEW x \in S
      PROVE  IsFiniteSet(below[x]) /\ Cardinality(below[x]) \in 0..n - 1
  <2>1. below[x] \in SUBSET S /\ below[x] # S
    OBVIOUS
  <2>2. /\ IsFiniteSet(below[x]) /\ Cardinality(below[x]) <= n
        /\ Cardinality(below[x]) # n
    BY <2>1, FS_Subset
  <2>3. Cardinality(below[x]) \in Nat
    BY <2>2, FS_CardinalityType
  <2> QED
    BY <1>1, <2>2, <2>3
<1>3. ASSUME NEW x \in S, NEW y \in S, x \in below[y]
      PROVE  Cardinality(below[x]) < Cardinality(below[y])
  <2>1. below[x] \in SUBSET below[y] /\ below[y] # below[x]
    <3>1. \A z \in below[x] : z \in S /\ z \in below[y]
      BY <1>3
    <3>2. x \notin below[x]
      OBVIOUS
    <3> QED
      BY <1>3, <3>1, <3>2
  <2>2. /\ IsFiniteSet(below[y]) /\ Cardinality(below[x]) \in Nat
        /\ Cardinality(below[y]) \in Nat
    BY <1>1, <1>2
  <2>3. /\ Cardinality(below[x]) <= Cardinality(below[y])
        /\ Cardinality(below[x]) # Cardinality(below[y])
    BY <2>1, <2>2, FS_Subset
  <2> QED
    BY <2>2, <2>3
<1>4. rank \in Injection(S, 0..n - 1)
  <2>1. rank \in [S -> 0..n - 1]
    BY <1>2
  <2>2. ASSUME NEW x \in S, NEW y \in S, rank[x] = rank[y]
        PROVE  x = y
    <3>1. /\ Cardinality(below[x]) = Cardinality(below[y])
          /\ Cardinality(below[x]) \in Nat
      BY <1>1, <1>2, <2>2
    <3>2. x \notin below[y]
      BY <1>3, <3>1
    <3>3. y \notin below[x]
      BY <1>3, <3>1
    <3> QED
      BY <3>2, <3>3
  <2> HIDE DEF rank
  <2> QED
    BY <2>1, <2>2 DEF Injection, IsInjective
<1>5. rank \in Surjection(S, 0..n - 1)
  <2>1. IsFiniteSet(0..n - 1) /\ Cardinality(0..n - 1) = n
    <3> DEFINE m == n - 1
    <3>1. 0 \in Int /\ m \in Int /\ n = m + 1
      BY <1>1
    <3> HIDE DEF m, n
    <3>2. IsFiniteSet(0..m) /\ Cardinality(0..m) = IF 0 > m THEN 0 ELSE m - 0 + 1
      BY <3>1, FS_Interval
    <3>3. m - 0 + 1 = m + 1 /\ (0 > m => m + 1 = 0)
      BY <1>1, <3>1
    <3> QED
      BY <3>1, <3>2, <3>3 DEF m
  <2> HIDE DEF rank
  <2> QED
    BY <1>4, <2>1, FS_Injection
<1>6. i - 1 \in 0..n - 1
  BY <1>1
<1>7. PICK x \in S : rank[x] = i - 1
  <2> HIDE DEF rank, n
  <2> QED
    BY <1>5, <1>6 DEF Surjection
<1> QED
  BY <1>7

(* The keys of the outer maps are in their order.                          *)
LEMMA TrpsInOrder ==
  ASSUME NEW S \in SUBSET (Int \X Int), IsFiniteSet(S)
  PROVE  /\ Cardinality(S) \in Nat
         /\ InOrder(S, Before) \in [1..Cardinality(S) -> S]
<1> DEFINE below == [x \in S |-> {y \in S : Before(y, x)}]
           n == Cardinality(S)
<1>1. /\ \A x \in S : ~Before(x, x)
      /\ \A x, y \in S : x = y \/ Before(x, y) \/ Before(y, x)
      /\ \A x, y, z \in S : Before(x, y) /\ Before(y, z) => Before(x, z)
  BY DEF Before
<1>2. below \in [S -> SUBSET S] /\ \A x, y \in S : x \in below[y] <=> Before(x, y)
  OBVIOUS
<1>3. ASSUME NEW i \in 1..n
      PROVE  \E x \in S : Cardinality(below[x]) = i - 1
  <2> HIDE DEF below
  <2> QED
    BY <1>1, <1>2, Ranked
<1>4. \A i \in 1..n :
        (CHOOSE x \in S : Cardinality({y \in S : Before(y, x)}) = i - 1) \in S
  BY <1>3
<1>5. n \in Nat
  BY FS_CardinalityType
<1> QED
  BY <1>4, <1>5 DEF InOrder

(* So are those of the inner ones, granularities.                          *)
LEMMA KeysInOrder ==
  ASSUME NEW values, NEW K, K = DOMAIN values, K \subseteq Int, IsFiniteSet(K)
  PROVE  /\ Cardinality(K) \in Nat
         /\ Granularities(values) \in [1..Cardinality(K) -> K]
<1> DEFINE below == [x \in K |-> {y \in K : y < x}]
           n == Cardinality(K)
<1>1. /\ \A x \in K : ~(x < x)
      /\ \A x, y \in K : x = y \/ x < y \/ y < x
      /\ \A x, y, z \in K : x < y /\ y < z => x < z
  OBVIOUS
<1>2. below \in [K -> SUBSET K] /\ \A x, y \in K : x \in below[y] <=> x < y
  OBVIOUS
<1>3. ASSUME NEW i \in 1..n
      PROVE  \E x \in K : Cardinality(below[x]) = i - 1
  <2>1. /\ \A x \in K : x \notin below[x]
        /\ \A x, y \in K : x = y \/ x \in below[y] \/ y \in below[x]
        /\ \A x, y, z \in K : x \in below[y] /\ y \in below[z] => x \in below[z]
    BY <1>1, <1>2
  <2>2. below \in [K -> SUBSET K]
    BY <1>2
  <2>3. IsFiniteSet(K) /\ i \in 1..Cardinality(K)
    OBVIOUS
  <2> HIDE DEF below
  <2> QED
    BY ONLY <2>1, <2>2, <2>3, Ranked
<1>4. \A i \in 1..n :
        (CHOOSE x \in K : Cardinality({y \in K : y < x}) = i - 1) \in K
  BY <1>3
<1>5. n \in Nat
  BY FS_CardinalityType
<1> QED
  BY <1>4, <1>5 DEF Granularities, InOrder

-----------------------------------------------------------------------------
(* The ToAs of all TRPs in one vector                                      *)

(* What is flattened up to a place.                                        *)
Flattened(seqs, f, i) == IF i = 1 THEN seqs[i] ELSE f[i - 1] \o seqs[i]

(* The vector after each TRP's ToAs.                                       *)
LEMMA FlattenExists ==
  ASSUME NEW seqs, NEW n \in Nat \ {0}, n = Len(seqs)
  PROVE  \E f : /\ f = [i \in 1..n |-> Flattened(seqs, f, i)]
                /\ FlattenSeq(seqs) = f[n]
<1> DEFINE To(m, f) == f = [i \in 1..m |-> Flattened(seqs, f, i)]
           S == {k \in 0..n - 1 : \E f : To(k + 1, f)}
<1>1. 0 \in S
  <2> DEFINE f == [i \in 1..0 + 1 |-> seqs[i]]
  <2>1. \A i \in 1..0 + 1 : i = 1
    OBVIOUS
  <2>2. \A i \in 1..0 + 1 : Flattened(seqs, f, i) = seqs[i]
    BY <2>1 DEF Flattened
  <2>3. To(0 + 1, f)
    BY <2>2
  <2> QED
    BY <2>3
<1>2. ASSUME NEW k \in 0..(n - 1) - 1, k \in S
      PROVE  k + 1 \in S
  <2> DEFINE m == k + 1
  <2>1. PICK f : To(m, f)
    BY <1>2
  <2> DEFINE g == [i \in 1..m + 1 |-> IF i = m + 1 THEN Flattened(seqs, f, m + 1) ELSE f[i]]
  <2>2. \A i \in 1..m : i \in 1..m + 1 /\ i # m + 1
    OBVIOUS
  <2>3. \A i \in 1..m : g[i] = f[i] /\ f[i] = Flattened(seqs, f, i)
    BY <2>1, <2>2
  <2>4. ASSUME NEW i \in 1..m + 1
        PROVE  Flattened(seqs, g, i) = Flattened(seqs, f, i)
    <3>1. CASE i = 1
      BY <3>1 DEF Flattened
    <3>2. CASE i # 1
      <4>1. i - 1 \in 1..m
        BY <3>2
      <4> QED
        BY <2>3, <4>1 DEF Flattened
    <3> QED
      BY <3>1, <3>2
  <2>5. ASSUME NEW i \in 1..m + 1
        PROVE  g[i] = Flattened(seqs, g, i)
    <3>1. i = m + 1 \/ i \in 1..m
      OBVIOUS
    <3> QED
      BY <2>3, <2>4, <3>1
  <2>6. To(m + 1, g)
    BY <2>5
  <2>7. k + 1 \in 0..n - 1
    OBVIOUS
  <2> QED
    BY <2>6, <2>7
<1> HIDE DEF S
<1>3. n - 1 \in S
  <2> DEFINE l == n - 1
  <2>1. l \in Nat /\ l \in 0..l
    OBVIOUS
  <2>2. \A k \in 0..l - 1 : k \in S => k + 1 \in S
    BY <1>2
  <2> HIDE DEF l
  <2>3. 0..l \subseteq S
    BY <1>1, <2>1, <2>2, Induction
  <2> QED
    BY <2>1, <2>3 DEF l
<1> USE DEF S
<1>4. \E f : f = [i \in 1..n |-> Flattened(seqs, f, i)]
  <2>1. (n - 1) + 1 = n
    OBVIOUS
  <2> QED
    BY <1>3, <2>1
<1> DEFINE F == CHOOSE f : f = [i \in 1..n |-> Flattened(seqs, f, i)]
<1>5. F = [i \in 1..n |-> Flattened(seqs, F, i)]
  BY <1>4
<1>6. FlattenSeq(seqs) = F[n]
  BY DEF FlattenSeq, Flattened
<1> QED
  BY <1>5, <1>6

(* From TRPs that have at least one ToA each there are at least as many    *)
(* ToAs as TRPs, and if there are as many each TRP has one, at its place.  *)
LEMMA OneEach ==
  ASSUME NEW seqs \in Seq(Seq(Int)), NEW n \in Nat, n = Len(seqs),
         \A i \in 1..n : seqs[i] # <<>>
  PROVE  /\ FlattenSeq(seqs) \in Seq(Int)
         /\ Len(FlattenSeq(seqs)) = n =>
              \A i \in 1..n : Len(seqs[i]) = 1 /\ FlattenSeq(seqs)[i] = seqs[i][1]
<1> DEFINE Good(f, i) ==
             /\ f[i] \in Seq(Int) /\ i <= Len(f[i])
             /\ Len(f[i]) = i => \A j \in 1..i : Len(seqs[j]) = 1 /\ f[i][j] = seqs[j][1]
<1>1. CASE n = 0
  <2>1. Len(seqs) = 0
    BY <1>1
  <2>2. FlattenSeq(seqs) = seqs
    BY ONLY <2>1 DEF FlattenSeq
  <2>3. seqs = <<>>
    BY <2>1, EmptySeq
  <2> QED
    BY <1>1, <2>2, <2>3
<1>2. CASE n # 0
  <2>1. PICK f : /\ f = [i \in 1..n |-> Flattened(seqs, f, i)]
                 /\ FlattenSeq(seqs) = f[n]
    BY <1>2, FlattenExists
  <2>2. \A i \in 1..n : seqs[i] \in Seq(Int) /\ Len(seqs[i]) \in Nat \ {0}
    <3> SUFFICES ASSUME NEW i \in 1..n
                 PROVE  seqs[i] \in Seq(Int) /\ Len(seqs[i]) \in Nat \ {0}
      OBVIOUS
    <3> DEFINE s == seqs[i]
    <3>1. s \in Seq(Int) /\ s # <<>>
      OBVIOUS
    <3> HIDE DEF s
    <3>2. Len(s) \in Nat \ {0}
      BY <3>1
    <3> QED
      BY <3>1, <3>2 DEF s
  <2> DEFINE S == {k \in 0..n - 1 : Good(f, k + 1)}
  <2>3. 0 \in S
    <3>1. f[1] = seqs[1]
      BY <1>2, <2>1 DEF Flattened
    <3>2. 1 \in 1..n /\ \A j \in 1..1 : j = 1
      BY <1>2
    <3>3. Good(f, 1)
      BY <2>2, <3>1, <3>2
    <3> QED
      BY <1>2, <3>3
  <2>4. ASSUME NEW k \in 0..(n - 1) - 1, k \in S
        PROVE  k + 1 \in S
    <3> DEFINE m == k + 1
               s == f[m]
               t == seqs[m + 1]
               r == f[m + 1]
    <3>1. m \in Nat /\ m \in 1..n /\ m + 1 \in 1..n /\ m + 1 # 1 /\ (m + 1) - 1 = m
          /\ k + 1 \in 0..n - 1
      OBVIOUS
    <3>2. r = s \o t
      BY <2>1, <3>1 DEF Flattened
    <3>3. Good(f, m)
      BY <2>4
    <3>4. t \in Seq(Int) /\ Len(t) \in Nat \ {0}
      BY <2>2, <3>1
    <3>5. s \in Seq(Int) /\ Len(s) \in Nat /\ m <= Len(s)
      BY <3>3
    <3> HIDE DEF m, s, t, r
    <3>6. /\ r \in Seq(Int) /\ Len(r) = Len(s) + Len(t)
          /\ \A i \in 1..Len(s) : r[i] = s[i]
          /\ \A i \in 1..Len(t) : r[Len(s) + i] = t[i]
      BY <3>2, <3>4, <3>5, Concat
    <3>7. /\ m \in Nat /\ Len(s) \in Nat /\ m <= Len(s) /\ Len(t) \in Nat \ {0}
          /\ Len(r) = Len(s) + Len(t) /\ m + 1 <= Len(r)
      <4>1. Len(r) = Len(s) + Len(t)
        BY <3>6
      <4> QED
        BY ONLY <3>1, <3>4, <3>5, <4>1
    <3>8. ASSUME Len(r) = m + 1, NEW j \in 1..m + 1
          PROVE  Len(seqs[j]) = 1 /\ r[j] = seqs[j][1]
      <4>1. Len(s) = m /\ Len(t) = 1
        <5> DEFINE p == Len(s)
                   q == Len(t)
                   l == Len(r)
        <5>1. m \in Nat /\ p \in Nat /\ m <= p /\ q \in Nat /\ 1 <= q /\ l = p + q /\ l = m + 1
          BY <3>7, <3>8
        <5> HIDE DEF p, q, l
        <5>2. p = m /\ q = 1
          BY ONLY <5>1
        <5> QED
          BY <5>2 DEF p, q
      <4>2. CASE j \in 1..m
        BY <3>3, <3>6, <4>1, <4>2 DEF s
      <4>3. CASE j = m + 1
        <5>1. r[m + 1] = t[1]
          BY <3>6, <4>1
        <5> QED
          BY <4>1, <4>3, <5>1 DEF t
      <4> QED
        BY <3>1, <4>2, <4>3
    <3>9. Good(f, m + 1)
      BY <3>6, <3>7, <3>8 DEF r
    <3> QED
      BY <3>1, <3>9 DEF m
  <2> HIDE DEF S
  <2>5. n - 1 \in S
    <3> DEFINE l == n - 1
    <3>1. l \in Nat /\ l \in 0..l
      BY <1>2
    <3>2. \A k \in 0..l - 1 : k \in S => k + 1 \in S
      BY <2>4
    <3> HIDE DEF l
    <3>3. 0..l \subseteq S
      BY <2>3, <3>1, <3>2, Induction
    <3> QED
      BY <3>1, <3>3 DEF l
  <2>6. Good(f, n)
    <3>1. (n - 1) + 1 = n
      OBVIOUS
    <3> QED
      BY <2>5, <3>1 DEF S
  <2> QED
    BY <2>1, <2>6
<1> QED
  BY <1>1, <1>2

-----------------------------------------------------------------------------
(* What is computed from the reports                                       *)

(* What may be known of a TRP.                                             *)
Values == UNION {[K -> Int] : K \in SUBSET (0..5)}

(* Reports that are added give values again.                               *)
LEMMA CollectedType ==
  ASSUME NEW old \in Values, NEW new \in Values
  PROVE  Collected(old, new) \in Values
<1>1. PICK K \in SUBSET (0..5) : old \in [K -> Int]
  BY DEF Values
<1>2. PICK L \in SUBSET (0..5) : new \in [L -> Int]
  BY DEF Values
<1>3. Collected(old, new) \in [K \cup L -> Int] /\ K \cup L \in SUBSET (0..5)
  BY <1>1, <1>2 DEF Collected
<1> QED
  BY <1>3 DEF Values

(* A ToA is an integer, and that of a value of granularity 1 is the delay  *)
(* that it stands for.                                                     *)
LEMMA ToaIsDelay ==
  ASSUME NEW v \in Int
  PROVE  ToaOf(v) \in Int /\ DelayOf(1, v) = ToaOf(v)
<1> DEFINE n == v - 492512
           m == v * 2 ^ 1 - 985024
<1>1. n \in Int /\ m = 2 * n
  BY SMT
<1>2. ToaOf(v) = Quotient(n * 3125, 3072) /\ DelayOf(1, v) = Quotient(m * 3125, 6144)
  BY SMT DEF ToaOf, DelayOf
<1> HIDE DEF n, m
<1>3. Quotient(n * 3125, 3072) \in Int
  BY <1>1, SMT DEF Quotient
<1>4. Quotient((2 * n) * 3125, 6144) = Quotient(n * 3125, 3072)
  BY <1>1, SMT DEF Quotient
<1> QED
  BY <1>1, <1>2, <1>3, <1>4, SMT

(* A TRP that has values has ToAs, and if it has one this is that of its   *)
(* only value.                                                             *)
LEMMA ToasOfValues ==
  ASSUME NEW values \in Values, values # <<>>
  PROVE  /\ ToasOf(values) \in Seq(Int) /\ ToasOf(values) # <<>>
         /\ \A k \in DOMAIN values :
              Len(ToasOf(values)) = 1 =>
                values[k] \in Int /\ ToasOf(values)[1] = ToaOf(values[k])
<1>1. PICK K \in SUBSET (0..5) : values \in [K -> Int]
  BY DEF Values
<1> DEFINE n == Cardinality(K)
           keys == Granularities(values)
           t == ToasOf(values)
<1>2. DOMAIN values = K /\ K # {}
  BY <1>1
<1>3. IsFiniteSet(K) /\ n \in Nat \ {0}
  <2>1. 0 \in Int /\ 5 \in Int
    OBVIOUS
  <2>2. IsFiniteSet(0..5)
    BY ONLY <2>1, FS_Interval
  <2>3. IsFiniteSet(K)
    BY <2>2, FS_Subset
  <2> QED
    BY <1>2, <2>3, FS_CardinalityType, FS_EmptySet
<1>4. keys \in [1..n -> K]
  <2>1. K \subseteq Int
    OBVIOUS
  <2> HIDE DEF keys, n
  <2> QED
    BY <1>2, <1>3, <2>1, KeysInOrder DEF keys, n
<1>5. t = [i \in DOMAIN keys |-> ToaOf(values[keys[i]])]
  BY DEF ToasOf
<1> HIDE DEF keys, t
<1>6. t = [i \in 1..n |-> ToaOf(values[keys[i]])]
  BY <1>4, <1>5
<1>7. \A i \in 1..n : keys[i] \in K /\ values[keys[i]] \in Int /\ ToaOf(values[keys[i]]) \in Int
  BY <1>1, <1>4, ToaIsDelay
<1> HIDE DEF n
<1>8. t \in Seq(Int) /\ Len(t) = n
  BY <1>3, <1>6, <1>7
<1>9. t # <<>>
  BY <1>3, <1>8
<1>10. ASSUME NEW k \in K, n = 1
       PROVE  values[k] \in Int /\ t[1] = ToaOf(values[k])
  <2>1. PICK x : K = {x}
    BY <1>3, <1>10, FS_Singleton DEF n
  <2>2. 1 \in 1..n
    BY <1>10
  <2>3. keys[1] = k
    BY <1>7, <2>1, <2>2
  <2> QED
    BY <1>1, <1>6, <2>2, <2>3
<1> QED
  BY <1>2, <1>8, <1>9, <1>10 DEF t

-----------------------------------------------------------------------------
(* The TRPs that are used                                                  *)

ResultTyped == result \in [Gnbs \X TrpIds -> Values]

(* They are known, located and measured.                                   *)
LEMMA UsedTrps ==
  ASSUME ResultTyped
  PROVE  \E n \in Nat :
           /\ n = Len(Used) /\ DOMAIN Used = 1..n
           /\ \A i \in 1..n :
                /\ Used[i] \in DOMAIN Trps
                /\ Trps[Used[i]].xYZunit \in DOMAIN MetersPerUnit
                /\ result[Used[i]] \in Values /\ result[Used[i]] # <<>>
<1> DEFINE S == {trp \in DOMAIN Trps : /\ result[trp] # <<>>
                                       /\ Trps[trp].xYZunit \in DOMAIN MetersPerUnit}
           n == Cardinality(S)
<1>1. DOMAIN Trps \subseteq Int \X Int
  BY TrpsAssumption
<1>2. S \in SUBSET (Int \X Int) /\ IsFiniteSet(S)
  <2>1. S \in SUBSET (DOMAIN Trps)
    OBVIOUS
  <2> QED
    BY <1>1, <2>1, TrpsAssumption, FS_Subset
<1>3. Used = InOrder(S, Before)
  BY DEF Used
<1>4. n \in Nat /\ Used \in [1..n -> S]
  <2> HIDE DEF S
  <2> QED
    BY <1>2, <1>3, TrpsInOrder
<1>5. Used \in Seq(S) /\ Len(Used) = n
  <2> HIDE DEF S, n
  <2> QED
    BY <1>4
<1>6. \A trp \in DOMAIN Trps : result[trp] \in Values
  <2> SUFFICES ASSUME NEW trp \in DOMAIN Trps PROVE result[trp] \in Values
    OBVIOUS
  <2>1. trp \in Int \X TrpIds
    BY TrpsAssumption
  <2>2. trp[1] \in Gnbs
    BY DEF Gnbs
  <2>3. trp \in Gnbs \X TrpIds
    BY <2>1, <2>2
  <2> QED
    BY <2>3 DEF ResultTyped
<1>7. ASSUME NEW i \in 1..n
      PROVE  /\ Used[i] \in DOMAIN Trps
             /\ Trps[Used[i]].xYZunit \in DOMAIN MetersPerUnit
             /\ result[Used[i]] \in Values /\ result[Used[i]] # <<>>
  <2>1. Used[i] \in S
    BY <1>4
  <2> QED
    BY <1>6, <2>1
<1> QED
  BY <1>4, <1>5, <1>7

-----------------------------------------------------------------------------
(* The linear system                                                       *)

OnSphere(x, y, z, x1, y1, z1, r) ==
  (x - x1) * (x - x1) + (y - y1) * (y - y1) + (z - z1) * (z - z1) = r * r

OnPlane(x, y, z, r0, x0, y0, z0, x1, y1, z1, d) ==
  (2 * (x1 - x0)) * x + (2 * (y1 - y0)) * y + (2 * (z1 - z0)) * z + (2 * d) * r0
    = (x1 * x1 + y1 * y1 + z1 * z1) - (x0 * x0 + y0 * y0 + z0 * z0) - d * d

(* The difference of two spheres around TRPs, both through the UE, is the  *)
(* equation of the second.                                                 *)
LEMMA Spheres ==
  ASSUME NEW x0 \in Int, NEW y0 \in Int, NEW z0 \in Int,
         NEW x1 \in Int, NEW y1 \in Int, NEW z1 \in Int,
         NEW x \in Int, NEW y \in Int, NEW z \in Int,
         NEW r0 \in Int, NEW d \in Int,
         OnSphere(x, y, z, x0, y0, z0, r0), OnSphere(x, y, z, x1, y1, z1, r0 + d)
  PROVE  OnPlane(x, y, z, r0, x0, y0, z0, x1, y1, z1, d)
BY DEF OnSphere, OnPlane

(* An equation of plain numbers is satisfied as the code reads the         *)
(* solution: r0 counts only if it is in the system, and with the height    *)
(* fixed its term is on the right and r0 in the third column.              *)
LEMMA Reading ==
  ASSUME NEW pos, NEW dd,
         NEW a1 \in Int, NEW a2 \in Int, NEW a3 \in Int, NEW a4 \in Int, NEW b \in Int,
         NEW x \in Int, NEW y \in Int, NEW z \in Int, NEW r0 \in Int,
         a1 * x + a2 * y + a3 * z + a4 * r0 = b,
         R0InSystem(dd) \/ a4 = 0,
         SolveZ(pos) \/ z = FallbackUeHeight,
         NEW row, row = [a |-> <<a1, a2, a3, a4>>, b |-> b]
  PROVE  Satisfies(pos, dd,
                   IF SolveZ(pos) THEN row ELSE FixHeight(row), <<x, y, z, r0>>)
<1> DEFINE u == <<x, y, z, r0>>
<1>1. CASE SolveZ(pos)
  <2>1. CASE R0InSystem(dd)
    BY <1>1, <2>1 DEF Satisfies, Solved, Unknowns
  <2>2. CASE ~R0InSystem(dd)
    <3>1. a1 * x + a2 * y + a3 * z + 0 = b
      BY <2>2
    <3> QED
      BY <1>1, <2>2, <3>1 DEF Satisfies, Solved, Unknowns
  <2> QED
    BY <2>1, <2>2
<1>2. CASE ~SolveZ(pos)
  <2>1. FixHeight(row) = [a |-> <<a1, a2, a4, a4>>, b |-> b - a3 * z]
    BY <1>2 DEF FixHeight
  <2>2. a1 * x + a2 * y + a4 * r0 + 0 = b - a3 * z
    OBVIOUS
  <2>3. \A c : a1 * x + a2 * y + (IF R0InSystem(dd) THEN a4 * r0 ELSE 0) + 0 = c
          => Satisfies(pos, dd, [a |-> <<a1, a2, a4, a4>>, b |-> c], u)
    BY <1>2 DEF Satisfies, Solved, Unknowns
  <2>4. a1 * x + a2 * y + (IF R0InSystem(dd) THEN a4 * r0 ELSE 0) + 0
          = b - a3 * z
    BY <2>2
  <2> QED
    BY <1>2, <2>1, <2>3, <2>4
<1> QED
  BY <1>1, <1>2

(* The least-squares problem that lls_estimation hands to LAPACK has at    *)
(* least as many equations as unknowns whenever there are the four TRPs    *)
(* that compute_location insists on: with four the height is given up, and *)
(* r0 is only asked for when some difference is not zero.                  *)
THEOREM EnoughEquations ==
  ASSUME NEW pos \in Seq(Int \X Int \X Int), Len(pos) >= 4,
         NEW dd
  PROVE  Solved(pos, dd) <= Equations(pos)
<1>1. Len(pos) \in Nat
  OBVIOUS
<1>2. CASE SolveZ(pos)
  BY <1>1, <1>2 DEF Solved, SolveZ, Equations, Unknowns
<1>3. CASE ~SolveZ(pos)
  BY <1>1, <1>3 DEF Solved, SolveZ, Equations, Unknowns
<1> QED
  BY <1>2, <1>3

(* The place of the UE solves the system that lls_estimation builds from   *)
(* the range differences measured there, read as the code reads the        *)
(* solution, for every number and arrangement of TRPs and all differences: *)
(* without r0 in the system, and with the height fixed too, if the UE has  *)
(* the height that the code assumes.                                       *)
THEOREM TruePlaceSolves ==
  ASSUME NEW pos \in Seq(Int \X Int \X Int), Len(pos) >= 4,
         NEW dd \in Seq(Int), Len(dd) = Equations(pos),
         NEW u \in Int \X Int \X Int \X Int,
         SeenFrom(pos, dd, u),
         SolveZ(pos) \/ u[3] = FallbackUeHeight
  PROVE  Satisfied(pos, dd, u)
<1> SUFFICES ASSUME NEW i \in 1..Equations(pos)
             PROVE  Satisfies(pos, dd, System(pos, dd)[i], u)
  BY DEF Satisfied
<1>1. /\ Len(pos) \in Nat /\ i \in Nat
      /\ 1 \in 1..Len(pos) /\ i + 1 \in 1..Len(pos)
      /\ i \in 1..Len(dd)
  BY LenProperties DEF Equations
<1> HIDE DEF Equations
<1>2. PICK x0 \in Int, y0 \in Int, z0 \in Int : pos[1] = <<x0, y0, z0>>
  <2> DEFINE t == pos[1]
  <2>1. t \in Int \X Int \X Int
    BY <1>1, ElementOfSeq
  <2> HIDE DEF t
  <2>2. t = <<t[1], t[2], t[3]>> /\ t[1] \in Int /\ t[2] \in Int /\ t[3] \in Int
    BY <2>1
  <2> QED
    BY <2>2 DEF t
<1>3. PICK x1 \in Int, y1 \in Int, z1 \in Int : pos[i + 1] = <<x1, y1, z1>>
  <2> DEFINE t == pos[i + 1]
  <2>1. t \in Int \X Int \X Int
    BY <1>1, ElementOfSeq
  <2> HIDE DEF t
  <2>2. t = <<t[1], t[2], t[3]>> /\ t[1] \in Int /\ t[2] \in Int /\ t[3] \in Int
    BY <2>1
  <2> QED
    BY <2>2 DEF t
<1>4. PICK x \in Int, y \in Int, z \in Int, r0 \in Int : u = <<x, y, z, r0>>
  OBVIOUS
<1>5. PICK d \in Int : dd[i] = d
  BY <1>1, ElementOfSeq
<1>6. OnSphere(x, y, z, x0, y0, z0, r0) /\ OnSphere(x, y, z, x1, y1, z1, r0 + d)
  <2>1. /\ Norm2(<<u[1] - pos[1][1], u[2] - pos[1][2], u[3] - pos[1][3]>>)
             = Square(u[4])
        /\ Norm2(<<u[1] - pos[i + 1][1], u[2] - pos[i + 1][2],
                   u[3] - pos[i + 1][3]>>)
             = Square(u[4] + dd[i])
    BY DEF SeenFrom
  <2>2. /\ Norm2(<<x - x0, y - y0, z - z0>>) = Square(r0)
        /\ Norm2(<<x - x1, y - y1, z - z1>>) = Square(r0 + d)
    BY <1>2, <1>3, <1>4, <1>5, <2>1
  <2> QED
    BY <2>2 DEF Norm2, Square, OnSphere
<1>7. R0InSystem(dd) \/ d = 0
  BY <1>1, <1>5, LenProperties DEF R0InSystem
<1>8. SolveZ(pos) \/ z = FallbackUeHeight
  BY <1>4
<1> DEFINE a1 == 2 * (x1 - x0)
           a2 == 2 * (y1 - y0)
           a3 == 2 * (z1 - z0)
           a4 == 2 * d
           b  == Norm2(<<x1, y1, z1>>) - Norm2(<<x0, y0, z0>>) - Square(d)
           row == [a |-> <<a1, a2, a3, a4>>, b |-> b]
<1>9. b = (x1 * x1 + y1 * y1 + z1 * z1) - (x0 * x0 + y0 * y0 + z0 * z0) - d * d
  BY DEF Norm2, Square
<1>10. a1 * x + a2 * y + a3 * z + a4 * r0 = b
  <2>1. OnPlane(x, y, z, r0, x0, y0, z0, x1, y1, z1, d)
    BY <1>6, Spheres
  <2>2. a1 * x + a2 * y + a3 * z + a4 * r0
          = (x1 * x1 + y1 * y1 + z1 * z1) - (x0 * x0 + y0 * y0 + z0 * z0) - d * d
    BY <2>1 DEF OnPlane
  <2> HIDE DEF a1, a2, a3, a4, b
  <2> QED
    BY <1>9, <2>2
<1>11. a1 \in Int /\ a2 \in Int /\ a3 \in Int /\ a4 \in Int
  OBVIOUS
<1>12. b \in Int
  <2>1. \A m \in Int : m * m \in Int
    OBVIOUS
  <2> HIDE DEF b
  <2> QED
    BY <1>9, <2>1
<1>13. R0InSystem(dd) \/ a4 = 0
  BY <1>7
<1>14. Row(pos[1], pos[i + 1], dd[i]) = row
  BY <1>2, <1>3, <1>5 DEF Row
<1>15. System(pos, dd)[i] = IF SolveZ(pos) THEN row ELSE FixHeight(row)
  BY <1>14 DEF System
<1> HIDE DEF a1, a2, a3, a4, b
<1>16. Satisfies(pos, dd,
                 IF SolveZ(pos) THEN row ELSE FixHeight(row), <<x, y, z, r0>>)
  <2>1. row = [a |-> <<a1, a2, a3, a4>>, b |-> b]
    OBVIOUS
  <2> HIDE DEF row
  <2> QED
    BY <1>8, <1>10, <1>11, <1>12, <1>13, <2>1, Reading
<1> QED
  BY <1>4, <1>15, <1>16

-----------------------------------------------------------------------------
(* What a location is computed from                                        *)

(* Every TRP that is used has a position and at least one ToA, and when    *)
(* there are as many ToAs as TRPs each has the one at its place.           *)
LEMMA ToasOfUsed ==
  ASSUME ResultTyped, NEW n \in Nat, n = Len(Used)
  PROVE  /\ toas \in Seq(Int)
         /\ Len(toas) = n =>
              \A i \in 1..n : /\ Len(ToasOf(result[Used[i]])) = 1
                              /\ toas[i] = ToasOf(result[Used[i]])[1]
<1> DEFINE seqs == [i \in 1..n |-> ToasOf(result[Used[i]])]
<1>1. /\ DOMAIN Used = 1..n
      /\ \A i \in 1..n : result[Used[i]] \in Values /\ result[Used[i]] # <<>>
  BY UsedTrps
<1>2. toas = FlattenSeq(seqs)
  BY <1>1 DEF toas
<1>3. \A i \in 1..n : ToasOf(result[Used[i]]) \in Seq(Int) /\ ToasOf(result[Used[i]]) # <<>>
  BY <1>1, ToasOfValues
<1>4. seqs \in Seq(Seq(Int)) /\ n = Len(seqs) /\ \A i \in 1..n : seqs[i] # <<>>
  BY <1>3
<1>5. \A i \in 1..n : seqs[i] = ToasOf(result[Used[i]])
  OBVIOUS
<1> HIDE DEF seqs
<1>6. /\ FlattenSeq(seqs) \in Seq(Int)
      /\ Len(FlattenSeq(seqs)) = n =>
           \A i \in 1..n : Len(seqs[i]) = 1 /\ FlattenSeq(seqs)[i] = seqs[i][1]
  BY <1>4, OneEach
<1> QED
  BY <1>2, <1>5, <1>6

(* A position whose unit is known is three integers.                       *)
LEMMA PositionType ==
  ASSUME NEW trp \in DOMAIN Trps, Trps[trp].xYZunit \in DOMAIN MetersPerUnit
  PROVE  Position(trp) \in Int \X Int \X Int
<1> DEFINE m == MetersPerUnit[Trps[trp].xYZunit]
           v == Trps[trp].value
<1>1. m \in Int
  BY DEF MetersPerUnit
<1>2. v \in Int \X Int \X Int
  BY TrpsAssumption
<1> HIDE DEF m, v
<1>3. m * v[1] \in Int /\ m * v[2] \in Int /\ m * v[3] \in Int
  BY <1>1, <1>2
<1> DEFINE p == [i \in 1..3 |-> m * v[i]]
<1>4. p[1] \in Int /\ p[2] \in Int /\ p[3] \in Int /\ p = <<p[1], p[2], p[3]>>
  BY <1>3
<1> HIDE DEF p
<1>5. p \in Int \X Int \X Int
  BY <1>4
<1> QED
  BY <1>5 DEF Position, p, m, v

(* The system that is solved is of the size that lls_estimation expects.   *)
LEMMA SystemType ==
  ASSUME ResultTyped
  PROVE  \E n \in Nat :
           /\ n = Len(Used) /\ DOMAIN Used = 1..n
           /\ trp_pos \in Seq(Int \X Int \X Int) /\ Len(trp_pos) = n
           /\ toas \in Seq(Int)
           /\ n >= 1 /\ Len(toas) = n =>
                dd_estimated \in Seq(Int) /\ Len(dd_estimated) = n - 1
<1>1. PICK n \in Nat :
        /\ n = Len(Used) /\ DOMAIN Used = 1..n
        /\ \A i \in 1..n : /\ Used[i] \in DOMAIN Trps
                           /\ Trps[Used[i]].xYZunit \in DOMAIN MetersPerUnit
  BY UsedTrps
<1>2. trp_pos \in Seq(Int \X Int \X Int) /\ Len(trp_pos) = n
  <2>1. \A i \in 1..n : Position(Used[i]) \in Int \X Int \X Int
    BY <1>1, PositionType
  <2>2. trp_pos = [i \in 1..n |-> Position(Used[i])]
    BY <1>1 DEF trp_pos
  <2> DEFINE T == Int \X Int \X Int
  <2> HIDE DEF T
  <2>3. \A i \in 1..n : Position(Used[i]) \in T
    BY <2>1 DEF T
  <2>4. trp_pos \in Seq(T) /\ Len(trp_pos) = n
    BY <2>2, <2>3
  <2> QED
    BY <2>4 DEF T
<1>3. toas \in Seq(Int)
  BY <1>1, ToasOfUsed
<1>4. ASSUME n >= 1, Len(toas) = n
      PROVE  dd_estimated \in Seq(Int) /\ Len(dd_estimated) = n - 1
  <2> DEFINE t == toas
             m == n - 1
             d == [i \in 1..m |-> (t[i + 1] - t[1]) * SpeedOfLight]
  <2>1. m \in Nat /\ n = m + 1
    BY <1>4
  <2>2. dd_estimated = d
    BY <1>4 DEF dd_estimated
  <2> HIDE DEF t, m
  <2>3. ASSUME NEW i \in 1..m
        PROVE  (t[i + 1] - t[1]) * SpeedOfLight \in Int
    <3>1. t \in Seq(Int) /\ Len(t) = n /\ 1 \in 1..n /\ i + 1 \in 1..n
      BY <1>3, <1>4, <2>1 DEF t
    <3>2. t[1] \in Int /\ t[i + 1] \in Int
      BY <3>1, ElementOfSeq
    <3>3. SpeedOfLight \in Int
      BY SpeedAssumption
    <3> QED
      BY <3>2, <3>3
  <2>4. d \in Seq(Int) /\ Len(d) = m
    BY <2>1, <2>3
  <2> HIDE DEF d
  <2> QED
    BY <2>2, <2>4 DEF m
<1> QED
  BY <1>1, <1>2, <1>3, <1>4

-----------------------------------------------------------------------------
(* The inductive invariant                                                 *)

(* The notification is one that the AMF may send, and what was sent for it *)
(* is what its parts make of it.                                           *)
NoteInv ==
  note # NoNote =>
    \E kind \in {"ue", "nonUe"}, message \in Messages, app \in AppResults :
      note = [kind |-> kind, parts |-> message.parts, ending |-> message.ending,
              app |-> app,
              sent |-> Responses(server, kind,
                                 Parts(Compose(message.parts, message.ending)), app)]

(* What a location was computed from is not touched any more.              *)
LocatedInv == pc = "located" => Enough

IInv ==
  /\ server \in {"http1", "http2"}
  /\ pc \in {"srs", "measure", "located", "failed"}
  /\ left \subseteq Gnbs
  /\ ResultTyped
  /\ NoteInv
  /\ LocatedInv

(* It holds when nothing is received yet.                                  *)
LEMMA InitInv ==
  ASSUME Init
  PROVE  IInv
<1>1. <<>> \in Values
  <2>1. {} \in SUBSET (0..5) /\ <<>> \in [{} -> Int]
    OBVIOUS
  <2> QED
    BY <2>1 DEF Values
<1>2. ResultTyped
  BY <1>1 DEF Init, ResultTyped
<1> QED
  BY <1>2 DEF Init, IInv, NoteInv, LocatedInv

(* The reports of a gNB are added to what is known of its TRPs.            *)
LEMMA CollectResultTyped ==
  ASSUME ResultTyped, NEW gnb, NEW report \in Reports, CollectResult(gnb, report)
  PROVE  ResultTyped'
<1>1. result' = [trp \in Gnbs \X TrpIds |->
                   IF trp[1] = gnb THEN Collected(result[trp], report[trp[2]])
                   ELSE result[trp]]
  BY DEF ResultTyped, CollectResult
<1>2. ASSUME NEW trp \in Gnbs \X TrpIds
      PROVE  Collected(result[trp], report[trp[2]]) \in Values
  <2>1. result[trp] \in Values
    BY DEF ResultTyped
  <2>2. trp[2] \in TrpIds
    OBVIOUS
  <2>3. report[trp[2]] \in Values
    BY <2>2, ReportsAssumption DEF Values
  <2> QED
    BY <2>1, <2>3, CollectedType
<1>3. Gnbs' = Gnbs
  OBVIOUS
<1> QED
  BY <1>1, <1>2, <1>3 DEF ResultTyped

(* What is noted of a notification that is received.                       *)
LEMMA Noted ==
  ASSUME NEW kind \in {"ue", "nonUe"}, NEW message \in Messages, NEW app \in AppResults,
         server' = server,
         note' = [kind |-> kind, parts |-> message.parts, ending |-> message.ending,
                  app |-> app,
                  sent |-> Responses(server, kind,
                                     Parts(Compose(message.parts, message.ending)), app)]
  PROVE  NoteInv'
BY DEF NoteInv

(* Every notification, report, answer, failure and computation keeps it.   *)
LEMMA NextInv ==
  ASSUME IInv, [Next]_vars
  PROVE  IInv'
<1> USE DEF IInv
<1>1. ASSUME NEW message \in Messages, NEW app \in AppResults,
             PositioningInformation(message, app)
      PROVE  IInv'
  <2>1. /\ server' = server /\ left' = left /\ result' = result
        /\ pc' \in {"measure", "failed"}
    BY <1>1 DEF PositioningInformation, Receive, Fail
  <2>2. NoteInv'
    BY <1>1, Noted DEF PositioningInformation, Receive
  <2> QED
    BY <2>1, <2>2 DEF ResultTyped, LocatedInv
<1>2. ASSUME NEW message \in Messages, NEW app \in AppResults,
             MeasurementReport(message, app)
      PROVE  IInv'
  <2>1. /\ server' = server /\ left' \subseteq left
        /\ pc' \in {"measure", "failed"}
        /\ result' = result \/ \E report \in Reports : CollectResult(Min(left), report)
    BY <1>2 DEF MeasurementReport, Receive, Fail
  <2>2. NoteInv'
    BY <1>2, Noted DEF MeasurementReport, Receive
  <2>3. ResultTyped'
    BY <2>1, CollectResultTyped DEF ResultTyped
  <2> QED
    BY <2>1, <2>2, <2>3 DEF LocatedInv
<1>3. CASE Responded
  BY <1>3 DEF Responded, ResultTyped, NoteInv, NoNote, LocatedInv, Enough, trp_pos,
              toas, Used
<1>4. CASE ComputeLocation
  <2>1. /\ UNCHANGED <<server, left, result, note>>
        /\ pc' = IF Enough THEN "located" ELSE "failed"
    BY <1>4 DEF ComputeLocation
  <2>2. Enough' <=> Enough
    BY <2>1 DEF Enough, trp_pos, toas, Used
  <2> QED
    BY <2>1, <2>2 DEF ResultTyped, NoteInv, LocatedInv
<1>5. CASE UNCHANGED vars
  BY <1>5 DEF vars, ResultTyped, NoteInv, LocatedInv, Enough, trp_pos, toas, Used
<1>6. CASE Terminated
  BY <1>5, <1>6 DEF Terminated
<1> QED
  BY <1>1, <1>2, <1>3, <1>4, <1>5, <1>6 DEF Next

(* The invariant holds in every reachable state.                           *)
THEOREM Invariant == Spec => []IInv
<1>1. Init => IInv
  BY InitInv
<1>2. IInv /\ [Next]_vars => IInv'
  BY NextInv
<1> QED
  BY <1>1, <1>2, PTL DEF Spec

-----------------------------------------------------------------------------
(* The properties                                                          *)

(* The variables keep their types, whatever is sent and reported.          *)
THEOREM Types == Spec => []TypeOK
<1>1. IInv => TypeOK
  <2> SUFFICES ASSUME IInv PROVE TypeOK
    OBVIOUS
  <2>1. /\ DOMAIN result = Gnbs \X TrpIds
        /\ \A trp \in DOMAIN result : DOMAIN result[trp] \subseteq 0..5
    <3>1. result \in [Gnbs \X TrpIds -> Values]
      BY DEF IInv, ResultTyped
    <3>2. \A values \in Values : DOMAIN values \subseteq 0..5
      BY DEF Values
    <3> QED
      BY <3>1, <3>2
  <2>2. ASSUME note # NoNote
        PROVE  note.app \in AppResults /\ note.sent \in Seq(Nat)
    <3>1. PICK kind \in {"ue", "nonUe"}, message \in Messages, app \in AppResults :
            note = [kind |-> kind, parts |-> message.parts, ending |-> message.ending,
                    app |-> app,
                    sent |-> Responses(server, kind,
                                       Parts(Compose(message.parts, message.ending)), app)]
      BY <2>2 DEF IInv, NoteInv
    <3>2. \A parts : Responses(server, kind, parts, app) \in Seq(Nat)
      BY DEF Responses, Called, Invalid, NoContent, BadRequest, InternalServerError
    <3> QED
      BY <3>1, <3>2
  <2> QED
    BY <2>1, <2>2 DEF IInv, TypeOK
<1> QED
  BY <1>1, Invariant, PTL

(* A well-formed message reaches the handlers with the parts that were     *)
(* sent, whatever their headers, their content and their number.           *)
THEOREM PartsReceived == Spec => []PartsAsSent
<1>1. IInv => PartsAsSent
  <2> SUFFICES ASSUME IInv, note # NoNote, WellFormed(note.parts, note.ending)
               PROVE  PartsAsSent
    BY DEF PartsAsSent
  <2> DEFINE parts == note.parts
             ending == note.ending
             n == Len(parts)
             parsed == Parts(Compose(parts, ending))
             added == IF ending = <<"cut">> THEN ending ELSE <<>>
  <2>1. parts \in Seq(SentPart(Lines))
    <3>1. PICK message \in Messages : parts = message.parts
      BY DEF IInv, NoteInv
    <3> QED
      BY <3>1, MessagesAssumption
  <2>2. /\ parts # <<>> /\ ending \in {<<"close">>, <<"cut">>}
        /\ \A i \in DOMAIN parts :
             parts[i].content_type \in ContentTypes /\ IsContent(parts[i].body)
    BY DEF WellFormed
  <2> HIDE DEF parts, ending
  <2>3. n \in Nat /\ DOMAIN parts = 1..n
    BY <2>1, LenProperties
  <2>4. ASSUME NEW i \in 1..n
        PROVE  /\ parts[i].content_type \in ContentTypes
               /\ parts[i].body # <<>>
               /\ \A k \in 1..Len(parts[i].body) :
                    parts[i].body[k] \notin {"delimiter", "close", "cut"}
    <3>1. parts[i] \in SentPart(Lines)
      BY <2>1, <2>3, ElementOfSeq
    <3>2. parts[i].body \in Seq(Lines)
      BY <3>1 DEF SentPart
    <3>3. DOMAIN parts[i].body = 1..Len(parts[i].body)
      BY <3>2, LenProperties
    <3> QED
      BY <2>2, <2>3, <3>3 DEF IsContent
  <2>5. {"id", "delimiter", "blank", "close", "cut"} \subseteq Lines
    BY MessagesAssumption
  <2>6. /\ Parses(Compose(parts, ending))
        /\ MimeParts(Compose(parts, ending)) = [i \in 1..n |-> Received(parts, ending, i)]
    BY <2>1, <2>2, <2>4, <2>5, ParsedAsSent
  <2>7. parsed = [i \in 1..n |-> Received(parts, ending, i)]
    BY <2>6 DEF Parts
  <2> HIDE DEF parsed
  <2>8. Len(parsed) = n
    <3> DEFINE T == {Received(parts, ending, i) : i \in 1..n}
    <3>1. parsed \in [1..n -> T]
      BY <2>7
    <3> HIDE DEF T, n
    <3> QED
      BY <2>3, <3>1
  <2>9. ASSUME NEW i \in 1..n
        PROVE  /\ parsed[i].content_type = parts[i].content_type
               /\ parsed[i].body = parts[i].body \o (IF i = n THEN added ELSE <<>>)
    <3>1. parsed[i] = Received(parts, ending, i)
      BY <2>7
    <3>2. (IF i = n /\ ending = <<"cut">> THEN ending ELSE <<>>)
            = IF i = n THEN added ELSE <<>>
      OBVIOUS
    <3> DEFINE body == parts[i].body \o
                         (IF i = n /\ ending = <<"cut">> THEN ending ELSE <<>>)
    <3>3. parsed[i] = [content_type |-> parts[i].content_type, body |-> body]
      BY <3>1 DEF Received
    <3>4. body = parts[i].body \o (IF i = n THEN added ELSE <<>>)
      BY <3>2
    <3> DEFINE got == parsed[i]
               type == parts[i].content_type
    <3>5. got.content_type = type /\ got.body = body
      <4> HIDE DEF body, type
      <4>1. got = [content_type |-> type, body |-> body]
        BY <3>3 DEF type
      <4> HIDE DEF got
      <4> QED
        BY ONLY <4>1
    <3> HIDE DEF body
    <3> QED
      BY <3>4, <3>5
  <2> QED
    BY <2>8, <2>9 DEF PartsAsSent, parts, ending, parsed
<1> QED
  BY <1>1, Invariant, PTL

(* A location is computed from one ToA of each TRP that is used, at the    *)
(* place of the TRP's position, for any TRPs and any reports.              *)
THEOREM ToaOfTrp == Spec => []ToaOfItsTrp
<1>1. IInv => ToaOfItsTrp
  <2> SUFFICES ASSUME IInv, pc = "located"
               PROVE  ToaOfItsTrp
    BY DEF ToaOfItsTrp
  <2>1. ResultTyped /\ Enough
    BY DEF IInv, LocatedInv
  <2>2. PICK n \in Nat : /\ n = Len(Used) /\ DOMAIN Used = 1..n /\ Len(trp_pos) = n
    BY <2>1, SystemType
  <2>3. Len(toas) = n
    BY <2>1, <2>2 DEF Enough
  <2>4. \A i \in 1..n : /\ Len(ToasOf(result[Used[i]])) = 1
                        /\ toas[i] = ToasOf(result[Used[i]])[1]
    BY <2>1, <2>2, <2>3, ToasOfUsed
  <2>5. ASSUME NEW i \in 1..n, 1 \in DOMAIN result[Used[i]]
        PROVE  Near(toas[i], DelayOf(1, result[Used[i]][1]))
    <3> DEFINE values == result[Used[i]]
               v == values[1]
    <3>1. values \in Values /\ values # <<>>
      BY <2>1, <2>2, UsedTrps
    <3>2. v \in Int /\ ToasOf(values)[1] = ToaOf(v)
      BY <2>4, <2>5, <3>1, ToasOfValues
    <3>3. ToaOf(v) \in Int /\ DelayOf(1, v) = ToaOf(v)
      <4> HIDE DEF v
      <4> QED
        BY <3>2, ToaIsDelay
    <3>4. toas[i] = ToaOf(v)
      BY <2>4, <3>2
    <3>5. \A m \in Int : Near(m, m)
      BY DEF Near
    <3> QED
      BY <3>3, <3>4, <3>5
  <2> QED
    BY <2>2, <2>3, <2>5 DEF ToaOfItsTrp
<1> QED
  BY <1>1, Invariant, PTL

(* Whenever a location is computed, there are as many equations as         *)
(* unknowns or more, and the place of the UE is among the solutions, for   *)
(* any TRPs and any reports.                                               *)
THEOREM PositionSolves == Spec => []TruePositionSolves
<1>1. IInv => TruePositionSolves
  <2> SUFFICES ASSUME IInv, pc = "located"
               PROVE  TruePositionSolves
    BY DEF TruePositionSolves
  <2>1. ResultTyped /\ Enough
    BY DEF IInv, LocatedInv
  <2> DEFINE pos == trp_pos
             dd  == dd_estimated
  <2>2. PICK n \in Nat :
          /\ pos \in Seq(Int \X Int \X Int) /\ Len(pos) = n
          /\ n >= 1 /\ Len(toas) = n => dd \in Seq(Int) /\ Len(dd) = n - 1
    BY <2>1, SystemType
  <2>3. Len(pos) >= 4 /\ Len(toas) = n
    BY <2>1, <2>2 DEF Enough
  <2>4. dd \in Seq(Int) /\ Len(dd) = Equations(pos)
    BY <2>2, <2>3 DEF Equations
  <2> HIDE DEF pos, dd
  <2>5. Solved(pos, dd) <= Equations(pos)
    BY <2>2, <2>3, EnoughEquations
  <2>6. ASSUME NEW u \in Places, SeenFrom(pos, dd, u),
               SolveZ(pos) \/ u[3] = FallbackUeHeight
        PROVE  Satisfied(pos, dd, u)
    <3>1. u \in Int \X Int \X Int \X Int
      BY HeightAssumption DEF Places
    <3> QED
      BY <2>2, <2>3, <2>4, <2>6, <3>1, TruePlaceSolves
  <2> QED
    BY <2>5, <2>6 DEF TruePositionSolves, pos, dd
<1> QED
  BY <1>1, Invariant, PTL

=============================================================================
